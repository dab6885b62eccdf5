------------------------------- MODULE Hazards -------------------------------
(***************************************************************************)
(* The emergency classifier, safety/src/{classifier,text,lexicon}.ts: a    *)
(* rule fires when each of its groups of phrases is heard, and near enough *)
(* to the others; of the rules that fire, the most severe is acted on.     *)
(*                                                                         *)
(* The lexicon is the code's.  The stretch of text that fired a rule, kept *)
(* for the audit trail, is left out.                                       *)
(***************************************************************************)
EXTENDS Speech

CONSTANT OutdoorTempF   \* at the service address: a set, empty when it is not known

SMELL_VERBS ==
  {"smell", "smells", "smelling", "stinks", "huele", "huelo", "oler", "olor"}
GAS_NOUNS == {"gas", "propane", "propano", "butano"}
NO_HEAT ==
  {"no heat", "without heat", "heat is out", "heater is dead", "heater is out",
   "furnace is out", "furnace is dead", "no calefaccion", "sin calefaccion",
   "no tengo calefaccion", "calefaccion no funciona", "no hay calefaccion"}
FREEZING_CUES ==
  {"freezing", "below freezing", "below zero", "pipes are freezing", "ice", "congelando",
   "congelado", "helando", "bajo cero", "mucho frio"}
WATER_INTRUSION ==
  {"flooding", "flooded", "flood", "water everywhere", "burst pipe", "pipe burst",
   "gushing water", "water pouring", "inundacion", "inundado", "inundando", "tuberia rota",
   "se revento la tuberia", "agua por todas partes"}
SEWAGE ==
  {"sewage", "sewer backup", "raw sewage", "sewage backing up", "toilet overflowing",
   "aguas negras", "aguas residuales", "se desborda el inodoro"}
SMOKE ==
  {"smoke", "smoky", "humo", "burning smell", "smells like burning", "huele a quemado"}
VULNERABLE_PEOPLE ==
  {"baby", "infant", "newborn", "toddler", "child", "children", "kid", "kids", "elderly",
   "grandmother", "grandma", "grandfather", "grandpa", "bebe", "nino", "nina", "ninos",
   "anciano", "anciana", "abuela", "abuelo", "adulto mayor"}
ESCALATING_HAZARDS == WATER_INTRUSION \cup SEWAGE \cup SMOKE \cup NO_HEAT

Anywhere == 1000

Rule(id, category, groups, within) ==
  [id |-> id, category |-> category, groups |-> groups, within |-> within, freezing |-> FALSE]

\* In the order of their ids, which decides between rules of one severity.
HAZARD_RULES ==
  << Rule("co.named", "CARBON_MONOXIDE",
          << {"carbon monoxide", "monoxide", "monoxido de carbono", "monoxido",
              "co detector"} >>, Anywhere),
     [Rule("cold.no_heat_ambient", "NO_HEAT_FREEZING", << NO_HEAT >>, Anywhere)
        EXCEPT !.freezing = TRUE],
     Rule("cold.no_heat_lexical", "NO_HEAT_FREEZING", << NO_HEAT, FREEZING_CUES >>, 14),
     Rule("electrical.arc", "ELECTRICAL_ARC",
          << {"sparking", "sparks", "arcing", "live wire", "exposed wire", "shocked me",
              "chispas", "chispeando", "cable pelado", "cable expuesto",
              "me dio corriente", "corto circuito", "cortocircuito"} >>, Anywhere),
     Rule("fire.active", "FIRE",
          << {"on fire", "house fire", "there is a fire", "flames", "something is burning",
              "fuego", "incendio", "llamas", "se esta quemando"} >>, Anywhere),
     Rule("fire.smoke", "FIRE",
          << SMOKE, {"coming", "filling", "everywhere", "saliendo", "llenando"} >>, 5),
     Rule("gas.leak.phrase", "GAS_LEAK",
          << {"gas leak", "leaking gas", "gas is leaking", "fuga de gas", "escape de gas",
              "olor a gas"} >>, Anywhere),
     Rule("gas.mercaptan", "GAS_LEAK",
          << {"rotten egg", "rotten eggs", "sulfur", "sulphur", "azufre"} >>, Anywhere),
     Rule("gas.smell.cooccurrence", "GAS_LEAK", << SMELL_VERBS, GAS_NOUNS >>, 6),
     Rule("sewage.backup", "SEWAGE_BACKUP", << SEWAGE >>, Anywhere),
     Rule("vulnerable.person_with_hazard", "VULNERABLE_PERSON_AT_RISK",
          << VULNERABLE_PEOPLE, ESCALATING_HAZARDS >>, 25),
     Rule("water.intrusion", "FLOODING", << WATER_INTRUSION >>, Anywhere) >>

HAZARD_SEVERITY ==
  [GAS_LEAK |-> 100, CARBON_MONOXIDE |-> 100, FIRE |-> 95, ELECTRICAL_ARC |-> 90,
   VULNERABLE_PERSON_AT_RISK |-> 60, FLOODING |-> 50, NO_HEAT_FREEZING |-> 45,
   SEWAGE_BACKUP |-> 40]

HAZARD_CATEGORIES == DOMAIN HAZARD_SEVERITY

HAZARD_ACTIONS ==
  [c \in HAZARD_CATEGORIES |->
     IF c \in {"GAS_LEAK", "CARBON_MONOXIDE", "FIRE", "ELECTRICAL_ARC"}
     THEN "DIAL_911_GUIDANCE" ELSE "WARM_TRANSFER"]

FREEZING_POINT_F == 32
MIN_FUZZY_LENGTH_STANDALONE == 5
MIN_FUZZY_LENGTH_IN_PHRASE == 4
FUZZY_EXCLUSIONS == {"flooring", "floored"}

\* Levenshtein's matrix, by what it decides at a distance of one: the words are equal, or
\* after the same beginning one letter is replaced, missing or too many.
WithinEditDistance(a, b) ==
  \/ a = b
  \/ \E n \in 0 .. Len(a) :
       LET Rest(s, k) == SubSeq(s, k + 1, Len(s))
       IN /\ n <= Len(b) /\ SubSeq(a, 1, n) = SubSeq(b, 1, n)
          /\ \/ n < Len(a) /\ n < Len(b) /\ Rest(a, n + 1) = Rest(b, n + 1)
             \/ n < Len(a) /\ Rest(a, n + 1) = Rest(b, n)
             \/ n < Len(b) /\ Rest(a, n) = Rest(b, n + 1)

\* Mutant of TokenMatches: no word is left out of the fuzzy match.
TokenMatchesAny(heard, listed, minFuzzy) ==
  heard = listed \/ (Len(listed) >= minFuzzy /\ WithinEditDistance(heard, listed))

TokenMatches(heard, listed, minFuzzy) ==
  \/ heard = listed
  \/ /\ Len(listed) >= minFuzzy
     /\ heard \notin FUZZY_EXCLUSIONS
     /\ WithinEditDistance(heard, listed)

\* Where a phrase is heard.  Its words vouch for each other, so that shorter ones may
\* be misheard in a phrase than alone.
FindPhrase(tokens, phrase) ==
  LET minFuzzy == IF Len(phrase) >= 2 THEN MIN_FUZZY_LENGTH_IN_PHRASE
                  ELSE MIN_FUZZY_LENGTH_STANDALONE
  IN {[from |-> i, to |-> i + Len(phrase)] : i \in
        {i \in 1 .. Len(tokens) - Len(phrase) + 1 :
           \A j \in DOMAIN phrase : TokenMatches(tokens[i + j - 1], phrase[j], minFuzzy)}}

\* One span of each group, all of them within the rule's reach.
MatchRule(rule, tokens) ==
  LET Spans(g) == UNION {FindPhrase(tokens, Words(p, Letters)) : p \in rule.groups[g]}
  IN \E pick \in [DOMAIN rule.groups -> UNION {Spans(g) : g \in DOMAIN rule.groups}] :
       /\ \A g \in DOMAIN pick : pick[g] \in Spans(g)
       /\ Max({pick[g].to : g \in DOMAIN pick}) - Min({pick[g].from : g \in DOMAIN pick})
            <= rule.within

IsFreezing == \E t \in OutdoorTempF : t <= FREEZING_POINT_F

\* The category acted on, "none" without a hazard: of the most severe rules that fire,
\* the first by its id.
Classify(text) ==
  LET tokens == Words(text, Letters \cup Digits)
      firing == {i \in DOMAIN HAZARD_RULES :
                   /\ HAZARD_RULES[i].freezing => IsFreezing
                   /\ MatchRule(HAZARD_RULES[i], tokens)}
      Severity(i) == HAZARD_SEVERITY[HAZARD_RULES[i].category]
  IN IF firing = {} THEN "none"
     ELSE HAZARD_RULES[Min({i \in firing : \A j \in firing : Severity(j) <= Severity(i)})].category

=============================================================================
