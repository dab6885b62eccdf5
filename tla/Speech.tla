------------------------------- MODULE Speech -------------------------------
(***************************************************************************)
(* What our own code reads in a caller's words, before any model does: the *)
(* yes and the question of runtime/src/runtime.ts, the card number of      *)
(* compliance/src/pci.ts and the hazard of safety/src/{classifier,text}.   *)
(*                                                                         *)
(* A text is a string, in lower case and without accents.                  *)
(***************************************************************************)
EXTENDS Integers, Sequences, SequencesExt, FiniteSetsExt

Alphabet == "abcdefghijklmnopqrstuvwxyz"
Numerals == "0123456789"

At(s, i) == SubSeq(s, i, i)
Characters(s) == {At(s, i) : i \in 1 .. Len(s)}
Letters == Characters(Alphabet)
Digits == Characters(Numerals)

Includes(s, part) ==
  \E i \in 1 .. Len(s) - Len(part) + 1 : SubSeq(s, i, i + Len(part) - 1) = part

\* The longest stretches of the given characters, in order.
Words(s, characters) ==
  LET In(i) == i \in 1 .. Len(s) /\ At(s, i) \in characters
      starts == SelectSeq([i \in 1 .. Len(s) |-> i], LAMBDA i : In(i) /\ ~In(i - 1))
      EndOf(i) == Min({j \in i .. Len(s) : ~In(j + 1)})
  IN [n \in DOMAIN starts |-> SubSeq(s, starts[n], EndOf(starts[n]))]

Join(words, gap) == FoldLeft(LAMBDA text, w : text \o w \o gap, "", words)

-----------------------------------------------------------------------------
(* A yes, and a question *)

AFFIRMATIVES ==
  {"yes", "yeah", "yep", "yup", "correct", "right", "that's right", "thats right",
   "sounds good", "perfect", "exactly", "uh huh", "mm hmm", "confirm", "go ahead"}

NEGATIONS == {"no", "nope", "nah", "wrong", "incorrect", "not right", "isn't", "isnt"}

INTERROGATIVES ==
  {"what", "whats", "when", "where", "why", "who", "how", "do", "does", "did", "is", "are",
   "can", "could", "will", "would", "should", "am"}

\* A negation must stand alone; an affirmative may also be a part of another word.
IsAffirmative(text) ==
  LET normalized == " " \o Join(Words(text, Letters), " ")
  IN /\ \A n \in NEGATIONS : ~Includes(normalized, " " \o n \o " ")
     /\ \E a \in AFFIRMATIVES : Includes(normalized, a)

IsQuestion(text) ==
  LET words == Words(text, Letters)
  IN text # "" /\ \/ At(text, Len(text)) = "?"
                  \/ words # << >> /\ Head(words) \in INTERROGATIVES

-----------------------------------------------------------------------------
(* Card numbers *)

PAN_PLACEHOLDER == "[card number redacted]"
PanDigits == 13 .. 19
MAX_GROUP_DIGITS == 6

DigitValue(d) == (CHOOSE i \in 1 .. 10 : At(Numerals, i) = d) - 1

\* Every second digit from the right counts double, its own digits added up.
PassesLuhn(digits) ==
  LET n == Len(digits)
      Weighed(i) ==
        LET v == DigitValue(At(digits, i))
        IN IF (n - i) % 2 = 0 THEN v ELSE IF 2 * v > 9 THEN 2 * v - 9 ELSE 2 * v
  IN MapThenSumSet(Weighed, 1 .. n) % 10 = 0

\* Mutant of LooksLikePan: a card read out in one go must pass Luhn too.
LooksLikeValidPan(run) ==
  LET groups == Words(run, Digits)
  IN /\ Len(Join(groups, "")) \in PanDigits
     /\ \A i \in DOMAIN groups : Len(groups) = 1 \/ Len(groups[i]) <= MAX_GROUP_DIGITS
     /\ PassesLuhn(Join(groups, ""))

\* A run without a gap is always one; a run in groups must be grouped like a card and
\* pass Luhn.
LooksLikePan(run) ==
  LET groups == Words(run, Digits)
  IN /\ Len(Join(groups, "")) \in PanDigits
     /\ \/ Len(groups) = 1
        \/ /\ \A i \in DOMAIN groups : Len(groups[i]) <= MAX_GROUP_DIGITS
           /\ PassesLuhn(Join(groups, ""))

\* Where a run of enough digits, apart by single spaces or hyphens at most, may end if
\* it starts at i.
RunEnds(s, i) ==
  LET IsDigit(k) == k \in 1 .. Len(s) /\ At(s, k) \in Digits
  IN {j \in i .. Len(s) :
        /\ IsDigit(i) /\ ~IsDigit(i - 1) /\ IsDigit(j) /\ ~IsDigit(j + 1)
        /\ \A k \in i .. j : IsDigit(k) \/ (At(s, k) \in {" ", "-"} /\ IsDigit(k + 1))
        /\ Cardinality({k \in i .. j : IsDigit(k)}) \in PanDigits}

\* From left to right, the longest run first; what a run does not cover is kept.
RedactPan(s) ==
  LET From[i \in 1 .. Len(s) + 1] ==
        LET starts == {k \in i .. Len(s) : RunEnds(s, k) # {}}
            run == [first |-> Min(starts), last |-> Max(RunEnds(s, Min(starts)))]
            heard == SubSeq(s, run.first, run.last)
        IN IF starts = {} THEN SubSeq(s, i, Len(s))
           ELSE SubSeq(s, i, run.first - 1)
                  \o (IF LooksLikePan(heard) THEN PAN_PLACEHOLDER ELSE heard)
                  \o From[run.last + 1]
  IN From[1]

=============================================================================
