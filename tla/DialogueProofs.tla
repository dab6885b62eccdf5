---------------------------- MODULE DialogueProofs ----------------------------
(***************************************************************************)
(* What no words of a caller and no answers of a vendor can break, for     *)
(* every set of texts, replies, opening hours and committed answers.       *)
(*                                                                         *)
(* The invariant says that between turns the next answer is expected to be *)
(* about what the machine asks for, and of each answer under way whose     *)
(* fault it is so far.                                                     *)
(***************************************************************************)
EXTENDS Dialogue, CallMachineProofs

Phases == {"waiting", "over", "threw", "extract", "validate", "answer"}
Texts == Says \cup {""}
HeldTexts == {Held[said] : said \in Says} \cup {""}
AllObjects == UNION {Objects[k] : k \in SlotKeys}

Faults == {"none", "caller", "model", "vendor", "us"}

Turns ==
  [said : Texts, text : HeldTexts, phase : Phases, attempts : {0, 1},
   object : AllObjects \cup {Null}, fault : Faults]

Typed == done \in BOOLEAN /\ turn \in Turns

\* What the next turn is expected to answer is what the machine asks for.
Asked(c, e) ==
  \E prompt \in {"ASK_FOR", "READ_BACK"} :
    /\ NextPrompt(c) = << Effect(prompt, e.about) >>
    /\ e.type = (IF prompt = "ASK_FOR" THEN "extract" ELSE "confirm")
    /\ e.about \in SlotKeys

UnderWay(c, e) == PhaseOf(c) = "live" /\ c.state # "GREETING" /\ Asked(c, e)

\* A call not yet greeted, over, or at a question.
Stands ==
  IF turn.phase = "waiting" THEN ctx = initialContext /\ ~done /\ spoken = << >> /\ turn.said = ""
  ELSE IF done THEN turn.phase = "over" /\ Terminal(ctx.state)
  ELSE UnderWay(ctx, expecting)

\* A value being validated is one the caller gave for the slot that was asked about.
Answered ==
  turn.phase = "validate" =>
    turn.fault = "caller" /\ turn.object \in Objects[key] /\ ~Absent(turn.object)

GivenUp == ctx.escalation = "AGENT_ERROR" => done

\* An emergency is one the last turn raised, and it has been told its guidance.
Alarm ==
  IF ctx.outcome = "ESCALATED_EMERGENCY"
  THEN /\ turn.said \in Says /\ HazardIn[turn.said] # "none"
       /\ spoken = << << "guidance", HazardIn[turn.said] >>,
                      << "transfer", HAZARD_ACTIONS[HazardIn[turn.said]] >> >>
  ELSE turn.said = "" \/ (turn.said \in Says /\ HazardIn[turn.said] = "none")

\* The windows a model may hear, and what the book holds of them.
HeardWindows == {o.value : o \in {x \in Objects["appointment_window"] : ~Absent(x)}}

Window(book) == book["appointment_window"]

Agreed(book) ==
  Window(book) # Empty => Window(book).value \in HeardWindows /\ Staffed(Window(book).value)

IInv ==
  /\ Typed /\ MachineFits(ctx) /\ Stands /\ Answered /\ GivenUp /\ Alarm
  /\ Agreed(ctx.slots) /\ SpokenIsCommitted

-----------------------------------------------------------------------------
(* The lines of an effect. *)

\* Nothing in these lines is an answer.
Ours(lines) == \A i \in DOMAIN lines : lines[i][1] # "answer"

LEMMA LineIs ==
  ASSUME NEW c, NEW e, NEW hazard
  PROVE  /\ e.type = "GREET" =>
              Line(c, e, hazard) = << << "opening" >>, << "disclosure" >>, << "invitation" >> >>
         /\ e.type \in {"ASK_FOR", "READ_BACK", "CREATE_PENDING_BOOKING", "SAY_FILLER"} =>
              \E x : Line(c, e, hazard) = << x >> /\ x[1] # "answer"
         /\ e.type = "ESCALATE" =>
              Line(c, e, hazard) =
                << IF hazard # "none" THEN << "guidance", hazard >> ELSE << "escalation", e.about >>,
                   << "transfer", ActionFor(e.about, hazard) >> >>
<1>1. e.type = "GREET" =>
        Line(c, e, hazard) = << << "opening" >>, << "disclosure" >>, << "invitation" >> >>
  BY Zenon DEF Line
<1>2. e.type = "ESCALATE" =>
        Line(c, e, hazard) =
          << IF hazard # "none" THEN << "guidance", hazard >> ELSE << "escalation", e.about >>,
             << "transfer", ActionFor(e.about, hazard) >> >>
  BY Zenon DEF Line
<1>3. ASSUME e.type = "ASK_FOR" PROVE \E x : Line(c, e, hazard) = << x >> /\ x[1] # "answer"
  <2> DEFINE x == << "ask", e.about, IF c.failures[e.about] > 0 THEN "reprompt" ELSE "initial" >>
  <2>1. Line(c, e, hazard) = << x >>
    BY <1>3, Zenon DEF Line
  <2>2. x[1] = "ask"
    OBVIOUS
  <2>. QED
    BY <2>1, <2>2
<1>4. ASSUME e.type = "READ_BACK" PROVE \E x : Line(c, e, hazard) = << x >> /\ x[1] # "answer"
  <2> DEFINE x == << "readBack", e.about, SpeakSlot(e.about, c.slots[e.about].value) >>
  <2>1. Line(c, e, hazard) = << x >>
    BY <1>4, Zenon DEF Line
  <2>2. x[1] = "readBack"
    OBVIOUS
  <2>. QED
    BY <2>1, <2>2
<1>5. ASSUME e.type = "CREATE_PENDING_BOOKING"
      PROVE  \E x : Line(c, e, hazard) = << x >> /\ x[1] # "answer"
  <2> DEFINE x == << "closing", SpeakSlot("callback_phone", c.slots["callback_phone"].value) >>
  <2>1. Line(c, e, hazard) = << x >>
    BY <1>5, Zenon DEF Line
  <2>2. x[1] = "closing"
    OBVIOUS
  <2>. QED
    BY <2>1, <2>2
<1>6. ASSUME e.type = "SAY_FILLER" PROVE \E x : Line(c, e, hazard) = << x >> /\ x[1] # "answer"
  <2> DEFINE x == << "filler" >>
  <2>1. Line(c, e, hazard) = << x >>
    BY <1>6, Zenon DEF Line
  <2>2. x[1] = "filler"
    OBVIOUS
  <2>. QED
    BY <2>1, <2>2
<1>. QED
  BY <1>1, <1>2, <1>3, <1>4, <1>5, <1>6

LEMMA LinesAreOurs ==
  ASSUME NEW c, NEW e \in MachineEffect, NEW hazard
  PROVE  Ours(Line(c, e, hazard))
<1>1. CASE e.type = "GREET"
  BY <1>1, LineIs DEF Ours
<1>2. CASE e.type \in {"ASK_FOR", "READ_BACK", "CREATE_PENDING_BOOKING"}
  <2>1. PICK x : Line(c, e, hazard) = << x >> /\ x[1] # "answer"
    BY <1>2, LineIs
  <2>. QED
    BY <2>1 DEF Ours
<1>3. CASE e.type = "ESCALATE"
  <2> DEFINE x == IF hazard # "none" THEN << "guidance", hazard >> ELSE << "escalation", e.about >>
             y == << "transfer", ActionFor(e.about, hazard) >>
  <2>1. Line(c, e, hazard) = << x, y >>
    BY <1>3, LineIs
  <2>2. x[1] # "answer" /\ y[1] # "answer"
    OBVIOUS
  <2> HIDE DEF x, y
  <2>. QED
    BY <2>1, <2>2 DEF Ours
<1>. QED
  BY <1>1, <1>2, <1>3 DEF MachineEffect

\* What is said in one breath with something else is still one of the two.
LEMMA SaidTogether ==
  ASSUME NEW S, NEW a \in Seq(S), NEW b \in Seq(S), NEW i \in DOMAIN (a \o b)
  PROVE  \/ \E j \in DOMAIN a : (a \o b)[i] = a[j]
         \/ \E j \in DOMAIN b : (a \o b)[i] = b[j]
<1>1. i \in 1 .. Len(a) + Len(b)
  OBVIOUS
<1>2. CASE i <= Len(a)
  BY <1>1, <1>2
<1>3. CASE i > Len(a)
  <2>1. i - Len(a) \in DOMAIN b /\ (a \o b)[i] = b[i - Len(a)]
    BY <1>1, <1>3
  <2>. QED
    BY <2>1
<1>. QED
  BY <1>1, <1>2, <1>3

-----------------------------------------------------------------------------
(* The events of a turn. *)

LEMMA LiveStates ==
  ASSUME NEW c, Sound(c), PhaseOf(c) = "live"
  PROVE  ~Terminal(c.state) /\ Interruptible(c.state) /\ c.outcome = "none"
BY PhaseCases DEF Sound, Context, Ended, Interruptible, Terminal

\* An event that moves the call asks for something to be said of it.
Audible(c, a) == a.effects # << >> \/ a.ctx.state = c.state

\* The event does not give the call up as our error.
Blameless(c, a) == a.ctx.escalation = "AGENT_ERROR" => c.escalation = "AGENT_ERROR"

LEMMA ConfirmedIs ==
  ASSUME NEW c, MachineFits(c), NEW k \in SlotKeys
  PROVE  LET a == SlotConfirmed(c, k)
         IN  Audible(c, a) /\ Blameless(c, a) /\ a.ctx.failures = c.failures
<1>1. CASE ~CanConfirm(c.slots, k)
  BY <1>1 DEF SlotConfirmed, Reject, Audible, Blameless
<1>2. CASE CanConfirm(c.slots, k)
  <2> DEFINE d == [c EXCEPT !.slots = Confirm(@, k)]
  <2>1. d.state = c.state /\ d.escalation = c.escalation /\ d.failures = c.failures
    BY DEF MachineFits, Sound, Context
  <2> HIDE DEF d
  <2>2. SlotConfirmed(c, k) = Accept(d)
    BY <1>2 DEF SlotConfirmed, d
  <2>. QED
    BY <2>1, <2>2 DEF Accept, Audible, Blameless
<1>. QED
  BY <1>1, <1>2

LEMMA FailedIs ==
  ASSUME NEW c, MachineFits(c), NEW k \in SlotKeys
  PROVE  Audible(c, ExtractionFailed(c, k)) /\ Blameless(c, ExtractionFailed(c, k))
<1> DEFINE d == [c EXCEPT !.failures[k] = @ + 1]
<1>1. d \in Context /\ d.state = c.state /\ d.escalation = c.escalation
  BY DEF MachineFits, Sound, Context
<1> HIDE DEF d
<1>2. CASE d.failures[k] >= FailureLimit
  <2> DEFINE e == EscalateNow(d, "REPEATED_EXTRACTION_FAILURE")
             x == Effect("ESCALATE", "REPEATED_EXTRACTION_FAILURE")
  <2>1. e.escalation = "REPEATED_EXTRACTION_FAILURE"
    BY <1>1 DEF EscalateNow, Context
  <2> HIDE DEF e, x
  <2>2. ExtractionFailed(c, k) = [ctx |-> e, effects |-> << x >>, rejected |-> FALSE]
    BY <1>2, Zenon DEF ExtractionFailed, RecordFailure, Escalate, d, e, x
  <2>. QED
    BY <2>1, <2>2 DEF Audible, Blameless
<1>3. CASE ~(d.failures[k] >= FailureLimit)
  <2>1. ExtractionFailed(c, k) = [ctx |-> d, effects |-> << >>, rejected |-> FALSE]
    BY <1>3, Zenon DEF ExtractionFailed, RecordFailure, d
  <2>. QED
    BY <1>1, <2>1 DEF Audible, Blameless
<1>. QED
  BY <1>2, <1>3

LEMMA FilledIs ==
  ASSUME NEW c, MachineFits(c), NEW k \in SlotKeys, NEW r, SchemaAccepts(r)
  PROVE  LET a == SlotFilled(c, k, r)
         IN  /\ Audible(c, a) /\ Blameless(c, a)
             /\ a.ctx.failures = [c.failures EXCEPT ![k] = 0]
<1> DEFINE d == [c EXCEPT !.slots = Fill(@, k, r), !.failures[k] = 0]
<1>1. /\ d.state = c.state /\ d.escalation = c.escalation
      /\ d.failures = [c.failures EXCEPT ![k] = 0]
  BY DEF MachineFits, Sound, Context
<1> HIDE DEF d
<1>2. SlotFilled(c, k, r) = Accept(d)
  BY Zenon DEF SlotFilled, d
<1>. QED
  BY <1>1, <1>2 DEF Accept, Audible, Blameless

LEMMA AgentErrorIs ==
  ASSUME NEW c, MachineFits(c)
  PROVE  Audible(c, AgentError(c)) /\ AgentError(c).ctx.failures = c.failures
<1>1. EscalateNow(c, "AGENT_ERROR").failures = c.failures
  BY DEF MachineFits, Sound, Context, EscalateNow
<1> DEFINE x == Effect("ESCALATE", "AGENT_ERROR")
<1>2. << x >> # << >>
  OBVIOUS
<1>. QED
  BY <1>1, <1>2 DEF AgentError, Escalate, Audible

-----------------------------------------------------------------------------
(* Performing the one effect of an event of a live call. *)

LEMMA PerformIs ==
  ASSUME NEW c, NEW hazard, NEW e, Perform(c, << e >>, hazard)
  PROVE  /\ spoken' = Line(c, e, hazard)
         /\ ctx' = (IF hazard = "none" THEN c ELSE Transition(c, GuidanceDelivered(c)).ctx)
         /\ done' = (e.type \in {"ESCALATE", "CREATE_PENDING_BOOKING"})
         /\ e.type = "ASK_FOR" => expecting' = Effect("extract", e.about)
         /\ e.type = "READ_BACK" => expecting' = Effect("confirm", e.about)
<1> DEFINE effects == << e >>
           h == Head(effects)
<1>1. h = e /\ effects # << >>
  OBVIOUS
<1>2. Perform(c, effects, hazard)
  OBVIOUS
<1> HIDE DEF effects
<1>3. /\ spoken' = Line(c, h, hazard)
      /\ ctx' = (IF hazard = "none" THEN c ELSE Transition(c, GuidanceDelivered(c)).ctx)
      /\ done' = (h.type \in {"ESCALATE", "CREATE_PENDING_BOOKING"})
      /\ expecting' = CASE h.type = "ASK_FOR"   -> Effect("extract", h.about)
                        [] h.type = "READ_BACK" -> Effect("confirm", h.about)
                        [] OTHER                -> NotExpecting
  BY <1>1, <1>2, Zenon DEF Perform
<1> HIDE DEF h
<1>4. h.type = "ASK_FOR" => expecting' = Effect("extract", h.about)
  BY <1>3, Zenon
<1>5. h.type = "READ_BACK" => expecting' = Effect("confirm", h.about)
  BY <1>3, Zenon
<1>. QED
  BY <1>1, <1>3, <1>4, <1>5, Zenon

\* A prompt that fits the call is what the next turn is expected to answer.
LEMMA PromptAsks ==
  ASSUME NEW c, NEW e \in MachineEffect, Fits(e, c), e.type \in {"ASK_FOR", "READ_BACK"},
         NEW x, x = Effect(IF e.type = "ASK_FOR" THEN "extract" ELSE "confirm", e.about)
  PROVE  UnderWay(c, x)
<1>1. /\ PhaseOf(c) = "live" /\ NextPrompt(c) = << e >>
      /\ e.about \in SlotKeys /\ c.state # "GREETING"
  BY DEF Fits
<1>2. e = Effect(e.type, e.about)
  BY DEF MachineEffect, Effect
<1>3. x.about = e.about /\ x.type = (IF e.type = "ASK_FOR" THEN "extract" ELSE "confirm")
  BY DEF Effect
<1>4. NextPrompt(c) = << Effect(e.type, x.about) >>
  BY <1>1, <1>2, <1>3, Zenon
<1>. QED
  BY <1>1, <1>3, <1>4, Zenon DEF UnderWay, Asked

LEMMA DriveKeeps ==
  ASSUME MachineFits(ctx), UnderWay(ctx, expecting), done = FALSE,
         NEW a, Sendable(ctx, a), Audible(ctx, a), Drive(a, "none")
  PROVE  /\ MachineFits(ctx') /\ done' \in BOOLEAN
         /\ IF done' THEN Terminal(ctx'.state) ELSE UnderWay(ctx', expecting')
         /\ Carries(a.ctx, ctx') /\ ctx'.slots = a.ctx.slots
         /\ ctx'.outcome # "ESCALATED_EMERGENCY"
         /\ Ours(spoken')
<1> DEFINE t == Transition(ctx, a)
           d == t.ctx
<1>1. Sound(ctx) /\ ~CanLeave(ctx) /\ PhaseOf(ctx) = "live" /\ ctx.state # "GREETING"
      /\ ~Terminal(ctx.state) /\ ctx.outcome = "none"
  BY LiveStates DEF MachineFits, UnderWay
<1>2. GoodApplied(ctx, a) /\ Clean(a.ctx) /\ ~a.ctx.guided
  BY <1>1 DEF Sendable, MachineFits
<1>3. /\ MachineFits(d) /\ Evolves(ctx, d) /\ OneEffect(t.effects, d)
      /\ d.slots = a.ctx.slots
      /\ t.effects = << >> /\ PhaseOf(d) = "live" =>
           NextPrompt(d) = NextPrompt(ctx) /\ d.slots = ctx.slots
  BY <1>1, <1>2, DriveFits
<1>4. Carries(a.ctx, d)
  BY <1>1, <1>2, TransitionCarries
<1>5. t.effects = << >> => PhaseOf(d) = "live"
  <2>1. a.ctx.state = ctx.state => PhaseOf(a.ctx) = "live"
    BY <1>1, Zenon DEF PhaseOf
  <2>. QED
    BY <1>1, <1>2, <2>1, NoSilentEnding DEF Audible
<1>6. PhaseOf(d) = "live" => d.state # "GREETING"
  BY <1>1, <1>2, <1>4 DEF GoodApplied, Carries
<1>7. PhaseOf(d) \in {"live", "over"} /\ (PhaseOf(d) = "over" => Terminal(d.state))
  BY <1>1, <1>3, PhaseCases DEF Evolves, MachineFits, Sound, Context, Terminal
<1>8. d.outcome # "ESCALATED_EMERGENCY"
  <2>1. PhaseOf(d) = "live" => d.outcome = "none"
    BY <1>3, LiveStates DEF MachineFits
  <2>. QED
    BY <1>1, <1>3, <1>7, <2>1 DEF Evolves, EndsOf
<1>9. Perform(d, t.effects, "none")
  BY DEF Drive
<1> HIDE DEF t, d
<1>10. CASE t.effects = << >>
  <2>1. ctx' = d /\ expecting' = expecting /\ done' = done /\ spoken' = << >>
    BY <1>9, <1>10, Zenon DEF Perform
  <2>2. UnderWay(d, expecting)
    BY <1>3, <1>5, <1>6, <1>10 DEF UnderWay, Asked
  <2>3. Ours(<< >>)
    BY DEF Ours
  <2>. QED
    BY <1>3, <1>4, <1>8, <2>1, <2>2, <2>3
<1>11. CASE \E e \in MachineEffect : t.effects = << e >> /\ Fits(e, d)
  <2>1. PICK e \in MachineEffect : t.effects = << e >> /\ Fits(e, d)
    BY <1>11
  <2>2. /\ spoken' = Line(d, e, "none") /\ ctx' = d
        /\ done' = (e.type \in {"ESCALATE", "CREATE_PENDING_BOOKING"})
        /\ e.type = "ASK_FOR" => expecting' = Effect("extract", e.about)
        /\ e.type = "READ_BACK" => expecting' = Effect("confirm", e.about)
    BY <1>9, <2>1, PerformIs
  <2>3. Ours(spoken')
    BY <2>2, LinesAreOurs
  <2>4. CASE e.type \in {"ESCALATE", "CREATE_PENDING_BOOKING"}
    <3>1. PhaseOf(d) # "live"
      BY <1>3, <2>1, <2>4, LiveStates DEF Fits, MachineFits
    <3>. QED
      BY <1>3, <1>4, <1>7, <1>8, <2>2, <2>3, <2>4, <3>1
  <2>5. CASE e.type \in {"ASK_FOR", "READ_BACK"}
    <3>1. UnderWay(d, expecting')
      BY <2>1, <2>2, <2>5, PromptAsks
    <3>2. ~(e.type \in {"ESCALATE", "CREATE_PENDING_BOOKING"})
      BY <2>5
    <3>3. ~done'
      BY <2>2, <3>2
    <3>4. done' \in BOOLEAN
      BY <2>2
    <3>. QED
      BY <1>3, <1>4, <1>8, <2>2, <2>3, <3>1, <3>3, <3>4
  <2>6. e.type # "GREET"
    BY <1>6, <2>1 DEF Fits
  <2>. QED
    BY <2>4, <2>5, <2>6 DEF MachineEffect
<1>. QED
  BY <1>3, <1>10, <1>11 DEF OneEffect

-----------------------------------------------------------------------------
(* What our own code lets through of what was heard. *)

\* An address is sent back only when the geocoder has answered.
LEMMA NotFoundWasAnswered ==
  ASSUME NEW answer \in GeocoderAnswers, Geocode(answer) = "not_found"
  PROVE  answer.status = 200
<1> DEFINE down == answer.status \in {0, 429} \/ answer.status >= 500
           refused == answer.status \notin {0, 200, 429} /\ answer.status < 500
<1>1. SUFFICES ASSUME answer.status # 200
               PROVE  FALSE
  OBVIOUS
<1>2. /\ down \/ refused
      /\ ~(down /\ refused)
  <2>1. answer.status \in Nat
    BY DialogueAssumption
  <2>. QED
    BY <1>1, <2>1
<1>3. ASSUME down, ~refused PROVE Geocode(answer) = "unavailable"
  BY <1>1, <1>3, Zenon DEF Geocode
<1>4. ASSUME refused, ~down PROVE Geocode(answer) = "throws"
  BY <1>1, <1>4, Zenon DEF Geocode
<1>. QED
  BY <1>2, <1>3, <1>4

LEMMA Judged ==
  ASSUME NEW value
  PROVE  /\ Accepted(value) # Rejected /\ Unverified(value) # Rejected
         /\ Accepted(value).value = value
         /\ Accepted(value).verdict = "valid" /\ Unverified(value).verdict = "unavailable"
BY DEF Accepted, Unverified, Rejected

\* Only three slots are judged; of the rest everything stands as it was heard.
LEMMA ValidationIs ==
  ASSUME NEW k \in SlotKeys, NEW object \in Objects[k], ~Absent(object),
         NEW answer \in GeocoderAnswers
  PROVE  LET v == ValidateSlot(k, object.value, answer)
         IN  /\ v = Rejected /\ k = "service_address" => answer.status = 200
             /\ v # Rejected =>
                  /\ v.value \in Values /\ v.verdict \in {"valid", "unavailable"}
                  /\ k = "appointment_window" =>
                       v.value = object.value /\ Staffed(object.value)
<1> DEFINE raw == object.value
           v == ValidateSlot(k, raw, answer)
<1>1. v # Rejected => v.value \in Values
  BY DialogueAssumption
<1>2. CASE k = "service_address"
  <2>1. v = ValidateAddress(raw.heard, answer)
    BY <1>2, Zenon DEF ValidateSlot
  <2>2. ASSUME Geocode(answer) = "not_found" PROVE answer.status = 200
    BY <2>2, NotFoundWasAnswered
  <2>3. ASSUME Geocode(answer) # "not_found"
        PROVE  v # Rejected /\ v.verdict \in {"valid", "unavailable"}
    <3>1. \E x : v \in {Accepted(x), Unverified(x)}
      BY <2>1, <2>3, Zenon DEF ValidateAddress
    <3>. QED
      BY <3>1, Judged
  <2>4. Geocode(answer) = "not_found" => v = Rejected
    BY <2>1, Zenon DEF ValidateAddress
  <2>. QED
    BY <1>1, <1>2, <2>2, <2>3, <2>4
<1>3. CASE k = "callback_phone"
  <2>1. v = ValidatePhone(raw.heard)
    BY <1>3, Zenon DEF ValidateSlot
  <2>2. v = Rejected \/ \E x : v = Accepted(x)
    BY <2>1, Zenon DEF ValidatePhone
  <2>. QED
    BY <1>1, <1>3, <2>2, Judged
<1>4. CASE k = "appointment_window"
  <2>1. v = ValidateWindow(raw)
    BY <1>4, Zenon DEF ValidateSlot
  <2>2. v = Rejected \/ (v = Accepted(raw) /\ Staffed(raw))
    BY <2>1, Zenon DEF ValidateWindow
  <2>. QED
    BY <1>1, <1>4, <2>2, Judged
<1>5. CASE k \notin {"service_address", "callback_phone", "appointment_window"}
  <2>1. v = Accepted(raw)
    BY <1>5, Zenon DEF ValidateSlot
  <2>. QED
    BY <1>1, <1>5, <2>1, Judged
<1>. QED
  BY <1>2, <1>3, <1>4, <1>5

\* A window that was let through is what the book holds, for as long as it holds one.
LEMMA FillAgrees ==
  ASSUME NEW book \in Books, NEW k \in SlotKeys, NEW r, Agreed(book),
         k = "appointment_window" => r.value \in HeardWindows /\ Staffed(r.value)
  PROVE  Agreed(Fill(book, k, r))
<1> DEFINE e == IF book[k] # Empty /\ book[k].value = r.value
                THEN HeardAgain(book[k], r) ELSE Fresh(r)
           w == "appointment_window"
<1>1. Fill(book, k, r) = [book EXCEPT ![k] = e]
  BY DEF Fill
<1>2. e.value = r.value
  <2>1. book[k] # Empty => HeardAgain(book[k], r).value = book[k].value
    BY DEF HeardAgain, Books, Entry
  <2>2. Fresh(r).value = r.value
    BY DEF Fresh
  <2>. QED
    BY <2>1, <2>2
<1> HIDE DEF e
<1>3. w \in SlotKeys /\ DOMAIN book = SlotKeys
  BY SixSlots DEF Books
<1>4. CASE k = w
  <2>1. Fill(book, k, r)[w] = e
    BY <1>1, <1>3, <1>4
  <2>. QED
    BY <1>2, <1>4, <2>1 DEF Agreed, Window
<1>5. CASE k # w
  <2>1. Fill(book, k, r)[w] = book[w]
    BY <1>1, <1>3, <1>5
  <2>. QED
    BY <2>1 DEF Agreed, Window
<1>. QED
  BY <1>4, <1>5

LEMMA ConfirmAgrees ==
  ASSUME NEW book \in Books, NEW k \in SlotKeys, book[k] # Empty, Agreed(book)
  PROVE  Agreed([book EXCEPT ![k].confirmed = TRUE])
<1> DEFINE e == [book[k] EXCEPT !.confirmed = TRUE]
           w == "appointment_window"
<1>1. e.value = book[k].value
  BY DEF Books, Entry
<1>2. w \in SlotKeys /\ DOMAIN book = SlotKeys
  BY SixSlots DEF Books
<1> DEFINE new == [book EXCEPT ![k] = e]
<1>3. new[w] = IF k = w THEN e ELSE book[w]
  BY <1>2
<1> HIDE DEF e, new
<1>4. Agreed(new)
  BY <1>1, <1>3 DEF Agreed, Window
<1>. QED
  BY <1>4 DEF new, e

-----------------------------------------------------------------------------
(* Whose fault a reply is. *)

LEMMA ReplyIs ==
  ASSUME NEW objects, NEW reply \in RepliesWith(objects)
  PROVE  /\ FaultOf(reply) \in Faults
         /\ Read(vendor, reply) = "throws" => FaultOf(reply) = "us"
         /\ Outcome(reply) = "throws" => FaultOf(reply) = "us"
         /\ Outcome(reply) = "unavailable" => FaultOf(reply) = "vendor"
         /\ Outcome(reply) = "absent" => FaultOf(reply) \in {"caller", "model"}
         /\ Outcome(reply) = "filled" => FaultOf(reply) = "caller"
         /\ Outcome(reply) = "filled" => reply.object \in objects /\ ~Absent(reply.object)
<1>1. /\ reply.status \in {0, 200} \/ reply.status \in 400 .. 599
      /\ reply.status = 200 => reply.body \in {"object", "no call", "unparseable", "not an object"}
      /\ reply.body # "object" \/ reply.object \in objects \/ reply.status # 200
  <2>1. CASE reply \in Failures
    <3>1. /\ reply.status \in {NoAnswer, 200} \cup 400 .. 599
          /\ reply.status = 200 => reply.body \in {"no call", "unparseable", "not an object"}
      BY <2>1, DialogueAssumption, Zenon
    <3>. QED
      BY <3>1 DEF NoAnswer
  <2>2. CASE \E o \in objects : reply = Reply("object", o)
    BY <2>2 DEF Reply
  <2>. QED
    BY <2>1, <2>2 DEF RepliesWith
<1> DEFINE refusal == reply.status \in 400 .. 499 /\ reply.status # 429
<1>2. /\ ~Outage(reply) /\ reply.status # 200 => refusal
      /\ Outage(reply) => ~refusal /\ reply.status # 200
      /\ ModelFailure(vendor, reply) => reply.status # 200
  <2> DEFINE st == reply.status
  <2>1. st \in Int /\ (st \in {0, 200} \/ (400 <= st /\ st <= 599))
    <3>1. st \in {0, 200} \/ st \in 400 .. 599
      BY <1>1, Zenon
    <3> HIDE DEF st
    <3>2. CASE st \in {0, 200}
      BY <3>2
    <3>3. CASE st \in 400 .. 599
      BY <3>3
    <3>. QED
      BY <3>1, <3>2, <3>3
  <2>2. Outage(reply) <=> st = 0 \/ st = 429 \/ st >= 500
    BY Zenon DEF Outage, NoAnswer
  <2>3. refusal <=> 400 <= st /\ st <= 499 /\ st # 429
    BY <2>1
  <2>4. ModelFailure(vendor, reply) => st = 400
    BY DEF ModelFailure
  <2> HIDE DEF st, refusal
  <2>5. /\ ~Outage(reply) /\ st # 200 => refusal
        /\ Outage(reply) => ~refusal /\ st # 200
        /\ ModelFailure(vendor, reply) => st # 200
    BY <2>1, <2>2, <2>3, <2>4
  <2>. QED
    BY <2>5 DEF st
<1> HIDE DEF refusal
<1>3. FaultOf(reply) = IF reply.status = 200 /\ reply.body \in {"object", "not an object"}
                      THEN IF Unreadable(reply) THEN "model" ELSE "caller"
                      ELSE IF refusal /\ ~ModelFailure(vendor, reply) THEN "us" ELSE "vendor"
  BY Zenon DEF FaultOf, ModelFailure, refusal
<1>4. reply.status = 200 => ~refusal
  BY DEF refusal
<1>5. Read(vendor, reply) = "throws" => FaultOf(reply) = "us"
  BY <1>2, <1>3 DEF Read
<1>6. Read(vendor, reply) = "unavailable" => FaultOf(reply) = "vendor"
  BY <1>2, <1>3, <1>4 DEF Read
<1>7. Read(vendor, reply) = "parsed" =>
        reply.status = 200 /\ reply.body \in {"object", "not an object"}
  BY <1>1 DEF Read
<1>8. Read(vendor, reply) = "parsed" =>
        FaultOf(reply) = IF Unreadable(reply) THEN "model" ELSE "caller"
  BY <1>7 DEF FaultOf
<1>9. Read(vendor, reply) \in {"throws", "unavailable", "parsed"}
  BY DEF Read
<1>10. /\ Read(vendor, reply) # "parsed" => Outcome(reply) = Read(vendor, reply)
       /\ Read(vendor, reply) = "parsed" => Outcome(reply) \in {"absent", "filled"}
       /\ Outcome(reply) = "filled" => reply.body # "not an object" /\ ~Absent(reply.object)
  BY <1>9 DEF Outcome, ExtractionOutcome
<1>11. reply.body # "not an object" /\ ~Absent(reply.object) => ~Unreadable(reply)
  BY Zenon DEF Absent, Unreadable
<1>. QED
  <2>1. FaultOf(reply) \in Faults
    BY <1>3 DEF Faults
  <2>4. /\ Outcome(reply) = "filled" => Read(vendor, reply) = "parsed"
        /\ Outcome(reply) = "throws" => FaultOf(reply) = "us"
        /\ Outcome(reply) = "unavailable" => FaultOf(reply) = "vendor"
        /\ Outcome(reply) = "absent" => FaultOf(reply) \in {"caller", "model"}
        /\ Outcome(reply) = "filled" => FaultOf(reply) = "caller"
    <3> DEFINE r == Read(vendor, reply)
               o == Outcome(reply)
               f == FaultOf(reply)
               u == Unreadable(reply)
    <3>1. /\ r \in {"throws", "unavailable", "parsed"}
          /\ r # "parsed" => o = r
          /\ r = "parsed" => o \in {"absent", "filled"}
          /\ r = "throws" => f = "us"
          /\ r = "unavailable" => f = "vendor"
          /\ r = "parsed" => f = IF u THEN "model" ELSE "caller"
          /\ o = "filled" => ~u
      BY <1>5, <1>6, <1>8, <1>9, <1>10, <1>11, Zenon
    <3> HIDE DEF r, o, f, u
    <3>2. /\ o = "filled" => r = "parsed"
          /\ o = "throws" => f = "us"
          /\ o = "unavailable" => f = "vendor"
          /\ o = "absent" => f \in {"caller", "model"}
          /\ o = "filled" => f = "caller"
      BY <3>1
    <3>. QED
      BY <3>2, Zenon DEF r, o, f
  <2>2. ASSUME Outcome(reply) = "filled"
        PROVE  reply.object \in objects /\ ~Absent(reply.object)
    <3>1. reply.status = 200 /\ reply.body \in {"object", "not an object"}
      BY <1>7, <2>2, <2>4, Zenon
    <3>2. reply.body # "not an object" /\ ~Absent(reply.object)
      BY <1>10, <2>2, Zenon
    <3>. QED
      <4>1. reply.body = "object"
        BY <3>1, <3>2, Zenon
      <4>2. reply.object \in objects
        BY <1>1, <3>1, <4>1, Zenon
      <4>. QED
        BY <3>2, <4>2, Zenon
  <2>. QED
    BY <1>5, <2>1, <2>2, <2>4, Zenon

-----------------------------------------------------------------------------
(* The two shapes of a step. *)

\* What FailuresAreChargedFairly says of one step.
Fair ==
  /\ (\E k \in SlotKeys : ctx'.failures[k] > ctx.failures[k])
       => turn'.fault \in {"caller", "model"}
  /\ ctx'.escalation = "AGENT_ERROR" => turn'.fault = "vendor"
  /\ turn'.phase = "threw" => turn'.fault = "us"

LEMMA Between ==
  ASSUME IInv, turn.phase # "waiting", ~done
  PROVE  /\ UnderWay(ctx, expecting) /\ done = FALSE /\ key \in SlotKeys
         /\ Sound(ctx) /\ ~Terminal(ctx.state) /\ ctx.outcome = "none"
         /\ ctx.escalation # "AGENT_ERROR"
         /\ turn.said = "" \/ (turn.said \in Says /\ HazardIn[turn.said] = "none")
<1>1. UnderWay(ctx, expecting) /\ done = FALSE /\ MachineFits(ctx)
  BY DEF IInv, Stands, Typed
<1>2. key \in SlotKeys
  BY <1>1 DEF UnderWay, Asked, key
<1>3. Sound(ctx) /\ ~Terminal(ctx.state) /\ ctx.outcome = "none"
  BY <1>1, LiveStates DEF UnderWay, MachineFits
<1>. QED
  BY <1>1, <1>2, <1>3 DEF IInv, GivenUp, Alarm

\* What may be kept as the words of the turn: none yet, or words without a hazard.
Calm(said) == said = "" \/ (said \in Says /\ HazardIn[said] = "none")

\* A step that leaves the machine where it is.
LEMMA QuietKeeps ==
  ASSUME IInv, turn.phase # "waiting", ~done,
         UNCHANGED << ctx, expecting, done >>, turn' \in Turns,
         turn'.phase # "waiting", Calm(turn'.said), Answered', SpokenIsCommitted',
         turn'.phase = "threw" => turn'.fault = "us"
  PROVE  IInv' /\ Fair
<1>1. UnderWay(ctx, expecting) /\ ctx.outcome = "none" /\ ctx.escalation # "AGENT_ERROR"
  BY Between
<1>2. Stands' /\ GivenUp' /\ Alarm' /\ Typed' /\ MachineFits(ctx')
  BY <1>1 DEF IInv, Stands, GivenUp, Alarm, Typed, Calm
<1>3. \A k \in SlotKeys : ctx.failures[k] \in Nat
  BY Between DEF Sound, Context
<1>. QED
  BY <1>1, <1>2, <1>3 DEF IInv, Fair

\* A step that sends the machine an event, and ends the turn.
LEMMA EventKeeps ==
  ASSUME IInv, turn.phase # "waiting", ~done,
         NEW a, Sendable(ctx, a), Audible(ctx, a), Drive(a, "none"), Agreed(a.ctx.slots),
         turn' \in Turns, turn'.phase = "over", Calm(turn'.said),
         Blameless(ctx, a) \/ (Terminal(ctx'.state) /\ turn'.fault = "vendor"),
         (\E k \in SlotKeys : a.ctx.failures[k] > ctx.failures[k])
           => turn'.fault \in {"caller", "model"}
  PROVE  IInv' /\ Fair
<1>1. /\ UnderWay(ctx, expecting) /\ done = FALSE /\ ctx.escalation # "AGENT_ERROR"
  BY Between
<1>2. /\ MachineFits(ctx') /\ done' \in BOOLEAN
      /\ IF done' THEN Terminal(ctx'.state) ELSE UnderWay(ctx', expecting')
      /\ Carries(a.ctx, ctx') /\ ctx'.slots = a.ctx.slots
      /\ ctx'.outcome # "ESCALATED_EMERGENCY"
      /\ Ours(spoken')
  BY <1>1, DriveKeeps DEF IInv
<1>3. Stands' /\ Typed' /\ Answered'
  BY <1>2 DEF Stands, Typed, Answered
<1>4. SpokenIsCommitted'
  BY <1>2 DEF Ours, SpokenIsCommitted
<1>5. Alarm'
  BY <1>2 DEF Alarm, Calm
<1>6. ctx'.escalation = "AGENT_ERROR" => ~Blameless(ctx, a)
  BY <1>1, <1>2 DEF Carries, Blameless
<1>7. GivenUp'
  <2>1. Terminal(ctx'.state) => done'
    BY <1>2 DEF UnderWay, PhaseOf
  <2>. QED
    BY <1>6, <2>1 DEF GivenUp
<1>8. Fair
  BY <1>2, <1>6 DEF Fair, Carries
<1>. QED
  BY <1>2, <1>3, <1>4, <1>5, <1>7, <1>8 DEF IInv

-----------------------------------------------------------------------------
(* The actions. *)

LEMMA NewTurnIs ==
  ASSUME NEW said \in Says, NEW phase \in Phases
  PROVE  LET t == NewTurn(said, Held[said], phase)
         IN  t \in Turns /\ t.said = said /\ t.phase = phase /\ t.fault = "none"
BY DEF NewTurn, Turns, Faults, Texts, HeldTexts

\* A turn that goes on keeps what was said.
LEMMA TurnGoesOn ==
  ASSUME turn \in Turns, NEW phase \in Phases,
         NEW fault \in Faults, NEW object \in AllObjects \cup {Null}
  PROVE  /\ [turn EXCEPT !.phase = phase, !.fault = fault] \in Turns
         /\ [turn EXCEPT !.phase = phase, !.fault = fault].said = turn.said
         /\ [turn EXCEPT !.phase = phase, !.object = object, !.fault = fault] \in Turns
         /\ [turn EXCEPT !.phase = phase, !.object = object, !.fault = fault].said = turn.said
         /\ [turn EXCEPT !.attempts = 1, !.fault = fault] \in Turns
         /\ [turn EXCEPT !.attempts = 1, !.fault = fault].said = turn.said
BY DEF Turns

LEMMA SilenceIsCommitted ==
  ASSUME NEW lines, Ours(lines), spoken' = lines
  PROVE  SpokenIsCommitted'
BY DEF Ours, SpokenIsCommitted

LEMMA InitIInv == Init => IInv
<1> SUFFICES ASSUME Init
             PROVE  IInv
  OBVIOUS
<1>1. MachineFits(ctx)
  BY InitFits DEF Init
<1>2. /\ ctx.slots = EmptyBook /\ ctx.outcome = "none" /\ ctx.escalation = "none"
  BY DEF Init, initialContext
<1>3. turn = NewTurn("", "", "waiting") /\ spoken = << >> /\ done = FALSE /\ ctx = initialContext
  BY DEF Init
<1>4. turn \in Turns /\ turn.phase = "waiting" /\ turn.said = ""
  BY <1>3 DEF NewTurn, Turns, Faults, Texts, HeldTexts, Phases
<1>5. Window(ctx.slots) = Empty
  BY <1>2, SixSlots DEF Window, EmptyBook
<1>6. Typed /\ Stands
  <2>1. Typed
    BY <1>3, <1>4 DEF Typed
  <2>2. Stands
    BY <1>3, <1>4 DEF Stands
  <2>. QED
    BY <2>1, <2>2
<1>7. Answered /\ GivenUp /\ Alarm /\ Agreed(ctx.slots)
  <2>1. Answered
    BY <1>4 DEF Answered
  <2>2. GivenUp
    BY <1>2 DEF GivenUp
  <2>3. Alarm
    BY <1>2, <1>4 DEF Alarm
  <2>4. Agreed(ctx.slots)
    BY <1>5 DEF Agreed
  <2>. QED
    BY <2>1, <2>2, <2>3, <2>4
<1>8. SpokenIsCommitted
  <2>1. spoken = << >>
    BY DEF Init
  <2>. QED
    BY <2>1 DEF SpokenIsCommitted
<1>. QED
  BY <1>1, <1>6, <1>7, <1>8 DEF IInv

LEMMA HearYesKeeps ==
  ASSUME IInv, NEW said \in Says, HearYes(said)
  PROVE  IInv' /\ Fair
<1> DEFINE a == SlotConfirmed(ctx, key)
<1>1. /\ turn.phase # "waiting" /\ ~done /\ HazardIn[said] = "none"
      /\ Drive(a, "none") /\ turn' = NewTurn(said, Held[said], "over")
  BY DEF HearYes, Listening, key
<1>2. key \in SlotKeys /\ Sound(ctx) /\ ~Terminal(ctx.state)
  BY <1>1, Between
<1>3. turn' \in Turns /\ turn'.phase = "over" /\ Calm(turn'.said)
  BY <1>1, NewTurnIs DEF Phases, Calm
<1>4. /\ Sendable(ctx, a) /\ Audible(ctx, a) /\ Blameless(ctx, a)
      /\ a.ctx.failures = ctx.failures
  BY <1>2, ConfirmedSendable, ConfirmedIs DEF IInv
<1>5. Agreed(a.ctx.slots)
  <2>1. ctx.slots \in Books
    BY <1>2 DEF Sound, Context
  <2>. QED
    BY <1>2, <2>1, ConfirmedSendable, ConfirmAgrees DEF IInv
<1>6. ~(\E k \in SlotKeys : a.ctx.failures[k] > ctx.failures[k])
  BY <1>2, <1>4 DEF Sound, Context
<1> HIDE DEF a
<1>. QED
  BY <1>1, <1>3, <1>4, <1>5, <1>6, EventKeeps

LEMMA HearAnswerKeeps ==
  ASSUME IInv, NEW said \in Says, HearAnswer(said)
  PROVE  IInv' /\ Fair
<1>1. /\ turn.phase # "waiting" /\ ~done /\ HazardIn[said] = "none"
      /\ turn' = NewTurn(said, Held[said], "extract") /\ spoken' = << >>
      /\ UNCHANGED << ctx, expecting, done >>
  BY DEF HearAnswer, Listening
<1>2. turn' \in Turns /\ turn'.phase = "extract" /\ Calm(turn'.said)
  BY <1>1, NewTurnIs DEF Phases, Calm
<1>3. SpokenIsCommitted' /\ Answered'
  BY <1>1, <1>2 DEF SpokenIsCommitted, Answered
<1>. QED
  BY <1>1, <1>2, <1>3, QuietKeeps

LEMMA ThrowsKeeps ==
  ASSUME IInv, turn.phase \in {"extract", "answer"}, NEW reply, FaultOf(reply) = "us",
         turn' = [turn EXCEPT !.phase = "threw", !.fault = FaultOf(reply)],
         UNCHANGED << ctx, expecting, done, spoken >>
  PROVE  IInv' /\ Fair
<1>1. turn \in Turns /\ turn.phase # "waiting" /\ turn.phase # "over"
  BY DEF IInv, Typed
<1>2. ~done
  BY <1>1 DEF IInv, Stands
<1>3. turn' \in Turns /\ turn'.phase = "threw" /\ turn'.fault = "us" /\ turn'.said = turn.said
  <2> DEFINE t == [turn EXCEPT !.phase = "threw", !.fault = "us"]
  <2>1. turn' = t
    BY Zenon
  <2>2. t \in Turns /\ t.said = turn.said
    BY <1>1, TurnGoesOn DEF Phases, Faults
  <2>3. t.phase = "threw" /\ t.fault = "us"
    BY <1>1 DEF Turns
  <2>. QED
    BY <2>1, <2>2, <2>3, Zenon
<1>4. Calm(turn'.said)
  BY <1>1, <1>2, <1>3, Between DEF Calm
<1>5. SpokenIsCommitted' /\ Answered'
  <2>1. SpokenIsCommitted
    BY DEF IInv
  <2>. QED
    BY <1>3, <2>1 DEF SpokenIsCommitted, Answered
<1>. QED
  BY <1>1, <1>2, <1>3, <1>4, <1>5, QuietKeeps

LEMMA UnavailableKeeps ==
  ASSUME IInv, turn.phase = "extract", NEW objects, NEW reply \in RepliesWith(objects),
         ExtractorUnavailable(reply)
  PROVE  IInv' /\ Fair
<1>1. turn \in Turns /\ turn.phase # "waiting" /\ turn.phase # "over" /\ FaultOf(reply) = "vendor"
  BY ReplyIs DEF IInv, Typed, ExtractorUnavailable
<1>2. ~done
  BY <1>1 DEF IInv, Stands
<1>3. MachineFits(ctx) /\ ~Terminal(ctx.state) /\ Calm(turn.said)
  BY <1>1, <1>2, Between DEF IInv, Calm
<1>4. CASE turn.attempts = 0
  <2> DEFINE t == [turn EXCEPT !.attempts = 1, !.fault = "vendor"]
  <2>1. turn' = t /\ UNCHANGED << ctx, expecting, done, spoken >>
    BY <1>1, <1>4, Zenon DEF ExtractorUnavailable
  <2>2. t \in Turns /\ t.said = turn.said
    BY <1>1, TurnGoesOn DEF Phases, Faults
  <2>3. t.phase = "extract"
    BY <1>1 DEF Turns
  <2> HIDE DEF t
  <2>4. SpokenIsCommitted' /\ Answered'
    <3>1. SpokenIsCommitted
      BY DEF IInv
    <3>. QED
      BY <2>1, <2>2, <2>3, <3>1 DEF SpokenIsCommitted, Answered
  <2>. QED
    BY <1>1, <1>2, <1>3, <2>1, <2>2, <2>3, <2>4, QuietKeeps
<1>5. CASE turn.attempts # 0
  <2> DEFINE t == [turn EXCEPT !.phase = "over", !.fault = "vendor"]
             a == AgentError(ctx)
  <2>1. turn' = t /\ Drive(a, "none")
    BY <1>1, <1>5, Zenon DEF ExtractorUnavailable, Over
  <2>2. t \in Turns /\ t.said = turn.said
    BY <1>1, TurnGoesOn DEF Phases, Faults
  <2>3. t.phase = "over" /\ t.fault = "vendor"
    BY <1>1 DEF Turns
  <2> HIDE DEF t
  <2>4. /\ Sendable(ctx, a) /\ Audible(ctx, a) /\ a.ctx.slots = ctx.slots
        /\ a.ctx.failures = ctx.failures
    BY <1>3, EscalateSendable, AgentErrorIs DEF AgentError
  <2>5. Terminal(Transition(ctx, a).ctx.state)
    BY <1>3, EscalateEnds DEF AgentError
  <2>6. ctx' = Transition(ctx, a).ctx
    BY <2>1, Zenon DEF Drive, Perform
  <2>7. ~(\E k \in SlotKeys : a.ctx.failures[k] > ctx.failures[k])
    BY <1>3, <2>4 DEF MachineFits, Sound, Context
  <2>8. Agreed(a.ctx.slots)
    BY <2>4 DEF IInv
  <2> HIDE DEF a
  <2>. QED
    BY <1>1, <1>2, <1>3, <2>1, <2>2, <2>3, <2>4, <2>5, <2>6, <2>7, <2>8, EventKeeps
<1>. QED
  BY <1>4, <1>5

\* An extraction that came to nothing.
LEMMA FailureKeeps ==
  ASSUME IInv, turn.phase # "waiting", ~done, Drive(ExtractionFailed(ctx, key), "none"),
         turn' \in Turns, turn'.phase = "over", turn'.said = turn.said,
         turn'.fault \in {"caller", "model"}
  PROVE  IInv' /\ Fair
<1> DEFINE a == ExtractionFailed(ctx, key)
<1>1. /\ key \in SlotKeys /\ ~Terminal(ctx.state) /\ Calm(turn.said) /\ MachineFits(ctx)
  BY Between DEF IInv, Calm
<1>2. Sendable(ctx, a) /\ Audible(ctx, a) /\ Blameless(ctx, a) /\ a.ctx.slots = ctx.slots
  BY <1>1, FailedSendable, FailedIs
<1>3. Agreed(a.ctx.slots)
  BY <1>2 DEF IInv
<1> HIDE DEF a
<1>. QED
  BY <1>1, <1>2, <1>3, EventKeeps DEF a

LEMMA FoundNothingKeeps ==
  ASSUME IInv, turn.phase = "extract", NEW objects, NEW reply \in RepliesWith(objects),
         ExtractorFoundNothing(reply)
  PROVE  IInv' /\ Fair
<1>1. /\ turn \in Turns /\ turn.phase # "waiting" /\ turn.phase # "over"
      /\ FaultOf(reply) \in {"caller", "model"} /\ FaultOf(reply) \in Faults
  BY ReplyIs DEF IInv, Typed, ExtractorFoundNothing
<1>2. ~done
  BY <1>1 DEF IInv, Stands
<1> DEFINE t == [turn EXCEPT !.phase = "over", !.fault = FaultOf(reply)]
<1>3. turn' = t /\ Drive(ExtractionFailed(ctx, key), "none")
  BY <1>1, Zenon DEF ExtractorFoundNothing, Over
<1>4. t \in Turns /\ t.said = turn.said
  BY <1>1, TurnGoesOn DEF Phases
<1>5. t.phase = "over" /\ t.fault \in {"caller", "model"}
  BY <1>1 DEF Turns
<1> HIDE DEF t
<1>. QED
  BY <1>1, <1>2, <1>3, <1>4, <1>5, FailureKeeps

LEMMA QuestionKeeps ==
  ASSUME IInv, turn.phase = "extract", NEW objects, NEW reply \in RepliesWith(objects),
         QuestionAsked(reply)
  PROVE  IInv' /\ Fair
<1>1. /\ turn \in Turns /\ turn.phase # "waiting" /\ turn.phase # "over"
      /\ FaultOf(reply) \in {"caller", "model"} /\ FaultOf(reply) \in Faults
  BY ReplyIs DEF IInv, Typed, QuestionAsked
<1>2. ~done
  BY <1>1 DEF IInv, Stands
<1> DEFINE t == [turn EXCEPT !.phase = "answer", !.fault = FaultOf(reply)]
           e == Effect("SAY_FILLER", "none")
<1>3. /\ turn' = t /\ UNCHANGED << ctx, expecting, done >>
      /\ spoken' = Line(ctx, e, "none")
  BY <1>1, Zenon DEF QuestionAsked
<1>4. t \in Turns /\ t.said = turn.said
  BY <1>1, TurnGoesOn DEF Phases
<1>5. t.phase = "answer"
  BY <1>1 DEF Turns
<1>6. e.type = "SAY_FILLER"
  BY DEF Effect
<1> HIDE DEF t, e
<1>7. Ours(spoken')
  <2>1. PICK x : spoken' = << x >> /\ x[1] # "answer"
    BY <1>3, <1>6, LineIs
  <2>. QED
    BY <2>1 DEF Ours
<1>8. SpokenIsCommitted' /\ Answered'
  BY <1>3, <1>5, <1>7 DEF Ours, SpokenIsCommitted, Answered
<1>9. Calm(turn.said)
  BY <1>1, <1>2, Between DEF Calm
<1>. QED
  BY <1>1, <1>2, <1>3, <1>4, <1>5, <1>8, <1>9, QuietKeeps

LEMMA ValueKeeps ==
  ASSUME IInv, turn.phase = "extract", NEW reply \in RepliesWith(Objects[key]),
         ValueHeard(reply)
  PROVE  IInv' /\ Fair
<1>1. /\ turn \in Turns /\ turn.phase # "waiting" /\ turn.phase # "over"
      /\ FaultOf(reply) = "caller"
      /\ reply.object \in Objects[key] /\ ~Absent(reply.object)
  BY ReplyIs DEF IInv, Typed, ValueHeard
<1>2. ~done
  BY <1>1 DEF IInv, Stands
<1>3. key \in SlotKeys /\ Calm(turn.said)
  BY <1>1, <1>2, Between DEF Calm
<1> DEFINE o == reply.object
           t == [turn EXCEPT !.phase = "validate", !.object = o, !.fault = "caller"]
<1>4. turn' = t /\ UNCHANGED << ctx, expecting, done, spoken >>
  BY <1>1, Zenon DEF ValueHeard
<1>5. o \in AllObjects
  BY <1>1, <1>3 DEF AllObjects
<1>6. t \in Turns /\ t.said = turn.said
  BY <1>1, <1>5, TurnGoesOn DEF Phases, Faults
<1>7. t.phase = "validate" /\ t.fault = "caller" /\ t.object = o
  BY <1>1 DEF Turns
<1> HIDE DEF t
<1>8. key' = key
  BY <1>4 DEF key
<1>9. Answered'
  BY <1>1, <1>4, <1>7, <1>8 DEF Answered
<1>10. SpokenIsCommitted'
  <2>1. SpokenIsCommitted
    BY DEF IInv
  <2>. QED
    BY <1>4, <1>6, <2>1 DEF SpokenIsCommitted
<1>. QED
  BY <1>1, <1>2, <1>3, <1>4, <1>6, <1>7, <1>9, <1>10, QuietKeeps

LEMMA ValidatedKeeps ==
  ASSUME IInv, NEW answer \in GeocoderAnswers, Validated(answer)
  PROVE  IInv' /\ Fair
<1> DEFINE object == turn.object
           v == ValidateSlot(key, object.value, answer)
           r == [value |-> v.value, sure |-> Sure(object), verdict |-> v.verdict]
           spared == key = "service_address" /\ answer.status # 200
           t == [turn EXCEPT !.phase = "over", !.object = Null,
                   !.fault = IF spared THEN "vendor" ELSE @]
<1>1. /\ turn.phase = "validate" /\ turn' = t
      /\ v = Rejected => Drive(ExtractionFailed(ctx, key), "none")
      /\ v # Rejected => Drive(SlotFilled(ctx, key, r), "none")
  BY Zenon DEF Validated
<1>2. turn \in Turns /\ object \in Objects[key] /\ ~Absent(object) /\ turn.fault = "caller"
  BY <1>1 DEF IInv, Typed, Answered
<1>3. turn.phase # "waiting" /\ ~done
  BY <1>1 DEF IInv, Stands
<1>4. /\ key \in SlotKeys /\ ~Terminal(ctx.state) /\ Calm(turn.said) /\ MachineFits(ctx)
  BY <1>3, Between DEF IInv, Calm
<1>5. /\ v = Rejected /\ key = "service_address" => answer.status = 200
      /\ v # Rejected =>
           /\ v.value \in Values /\ v.verdict \in {"valid", "unavailable"}
           /\ key = "appointment_window" =>
                v.value = object.value /\ Staffed(object.value)
  BY <1>2, <1>4, ValidationIs
<1>6. /\ t \in Turns /\ t.said = turn.said /\ t.phase = "over"
      /\ ~spared => t.fault = "caller"
  BY <1>2 DEF Turns, Faults, Phases
<1>7. object.number \in BOOLEAN
  BY <1>2, <1>4, DialogueAssumption, Zenon
<1>8. key = "appointment_window" => object.value \in HeardWindows
  BY <1>2 DEF HeardWindows
<1> HIDE DEF v, t
<1>9. CASE v = Rejected
  <2>1. ~spared
    BY <1>5, <1>9
  <2> HIDE DEF spared
  <2>. QED
    BY <1>1, <1>3, <1>6, <1>9, <2>1, FailureKeeps
<1>10. CASE v # Rejected
  <2> DEFINE a == SlotFilled(ctx, key, r)
  <2>1. Sure(object) \in BOOLEAN
    BY <1>7 DEF Sure
  <2>2. /\ r \in Reading /\ SchemaAccepts(r) /\ r.verdict # "invalid"
        /\ key = "appointment_window" => r.value \in HeardWindows /\ Staffed(r.value)
    BY <1>5, <1>8, <1>10, <2>1 DEF Reading, Verdicts, SchemaAccepts
  <2> HIDE DEF r, spared
  <2>3. /\ Sendable(ctx, a) /\ a.ctx.slots \in {ctx.slots, Fill(ctx.slots, key, r)}
    BY <1>4, <2>2, FilledSendable
  <2>4. /\ Audible(ctx, a) /\ Blameless(ctx, a)
        /\ a.ctx.failures = [ctx.failures EXCEPT ![key] = 0]
    BY <1>4, <2>2, FilledIs
  <2>5. Agreed(a.ctx.slots)
    <3>1. ctx.slots \in Books /\ Agreed(ctx.slots)
      BY <1>4 DEF MachineFits, Sound, Context, IInv
    <3>2. Agreed(Fill(ctx.slots, key, r))
      BY <1>4, <2>2, <3>1, FillAgrees
    <3>. QED
      BY <2>3, <3>1, <3>2
  <2>6. ~(\E k \in SlotKeys : a.ctx.failures[k] > ctx.failures[k])
    <3>1. ctx.failures \in [SlotKeys -> Nat]
      BY <1>4 DEF MachineFits, Sound, Context
    <3>. QED
      BY <2>4, <3>1
  <2>7. Drive(a, "none")
    BY <1>1, <1>10
  <2> HIDE DEF a
  <2>. QED
    BY <1>1, <1>3, <1>4, <1>6, <2>3, <2>4, <2>5, <2>6, <2>7, EventKeeps
<1>. QED
  BY <1>9, <1>10

\* What is said to a question, and the question put again.
LEMMA SayKeeps ==
  ASSUME IInv, turn.phase = "answer",
         NEW fault \in Faults, Over(fault),
         NEW answer, SayAnswer(answer),
         answer # NoReply =>
           \E e \in FaqIndex : /\ e.tenant = Tenant /\ e.answer = answer
                               /\ Score[turn.said][e.id] >= SIMILARITY_FLOOR
  PROVE  IInv' /\ Fair
<1>1. turn \in Turns /\ turn.phase # "waiting" /\ turn.phase # "over"
  BY DEF IInv, Typed
<1>2. ~done
  BY <1>1 DEF IInv, Stands
<1>3. UnderWay(ctx, expecting) /\ Calm(turn.said)
  BY <1>1, <1>2, Between DEF Calm
<1> DEFINE t == [turn EXCEPT !.phase = "over", !.fault = fault]
<1>4. turn' = t /\ UNCHANGED << ctx, expecting, done >>
  BY DEF Over, SayAnswer
<1>5. t \in Turns /\ t.said = turn.said
  BY <1>1, TurnGoesOn DEF Phases
<1>6. t.phase = "over"
  BY <1>1 DEF Turns
<1> HIDE DEF t
<1>7. PICK x : Line(ctx, Head(NextPrompt(ctx)), "none") = << x >> /\ x[1] # "answer"
  <2>1. PICK prompt \in {"ASK_FOR", "READ_BACK"} :
          NextPrompt(ctx) = << Effect(prompt, expecting.about) >>
    BY <1>3 DEF UnderWay, Asked
  <2> DEFINE e == Effect(prompt, expecting.about)
             h == Head(<< e >>)
  <2>2. e.type = prompt
    BY DEF Effect
  <2>3. h = e
    OBVIOUS
  <2>4. Line(ctx, Head(NextPrompt(ctx)), "none") = Line(ctx, h, "none")
    BY <2>1, Zenon
  <2> HIDE DEF e, h
  <2>5. \E x : Line(ctx, e, "none") = << x >> /\ x[1] # "answer"
    BY <2>1, <2>2, LineIs
  <2>. QED
    BY <2>3, <2>4, <2>5, Zenon
<1>8. PICK y : /\ AnswerLine(answer) = << y >>
               /\ y[1] = "answer" => answer # NoReply /\ y[2] = answer
  <2>1. CASE answer = NoReply
    <3> DEFINE y == << "unknown" >>
    <3>1. AnswerLine(answer) = << y >> /\ y[1] = "unknown"
      BY <2>1 DEF AnswerLine
    <3>. QED
      BY <3>1
  <2>2. CASE answer # NoReply
    <3> DEFINE y == << "answer", answer >>
    <3>1. AnswerLine(answer) = << y >> /\ y[2] = answer
      BY <2>2 DEF AnswerLine
    <3>. QED
      BY <2>2, <3>1
  <2>. QED
    BY <2>1, <2>2
<1>9. ASSUME NEW i \in DOMAIN spoken' PROVE spoken'[i] \in {y, x}
  <2> DEFINE a == << y >>
             b == << x >>
  <2>1. spoken' = a \o b
    BY <1>7, <1>8, Zenon DEF SayAnswer
  <2>2. a \in Seq({y, x}) /\ b \in Seq({y, x})
    OBVIOUS
  <2>3. (\A j \in DOMAIN a : a[j] = y) /\ (\A j \in DOMAIN b : b[j] = x)
    OBVIOUS
  <2> HIDE DEF a, b
  <2>4. i \in DOMAIN (a \o b)
    BY <2>1, <1>9, Zenon
  <2>5. \/ \E j \in DOMAIN a : (a \o b)[i] = a[j]
        \/ \E j \in DOMAIN b : (a \o b)[i] = b[j]
    BY <2>2, <2>4, SaidTogether
  <2>. QED
    BY <2>1, <2>3, <2>5
<1>10. SpokenIsCommitted'
  <2> SUFFICES ASSUME NEW i \in DOMAIN spoken', spoken'[i][1] = "answer"
               PROVE  \E e \in FaqIndex : /\ e.tenant = Tenant /\ e.answer = spoken'[i][2]
                                          /\ Score[turn.said][e.id] >= SIMILARITY_FLOOR
    BY <1>4, <1>5, Zenon DEF SpokenIsCommitted
  <2>1. spoken'[i] = y
    BY <1>7, <1>9
  <2>. QED
    BY <1>8, <2>1
<1>11. Answered'
  BY <1>4, <1>6 DEF Answered
<1>. QED
  BY <1>1, <1>2, <1>3, <1>4, <1>5, <1>6, <1>10, <1>11, QuietKeeps

LEMMA SelectedKeeps ==
  ASSUME IInv, NEW reply \in RepliesWith(Selections), AnswerSelected(reply)
  PROVE  IInv' /\ Fair
<1> DEFINE selected == IF Read(vendor, reply) = "unavailable" THEN {}
                       ELSE Selected(reply, Candidates, FaqIndex)
           e == CHOOSE x \in selected : TRUE
           answer == IF selected = {} THEN NoReply ELSE e.answer
<1>1. turn.phase = "answer" /\ SayAnswer(answer) /\ Over("none")
  BY Zenon DEF AnswerSelected
<1>2. "none" \in Faults
  BY DEF Faults
<1>3. selected \subseteq Candidates
  BY DEF Selected
<1> HIDE DEF selected
<1>4. ASSUME answer # NoReply
      PROVE  \E f \in FaqIndex : /\ f.tenant = Tenant /\ f.answer = answer
                                 /\ Score[turn.said][f.id] >= SIMILARITY_FLOOR
  <2>1. selected # {} /\ e \in selected /\ answer = e.answer
    BY <1>4
  <2>2. e \in Candidates
    BY <1>3, <2>1
  <2> HIDE DEF e
  <2>3. /\ e \in FaqIndex /\ e.tenant = Tenant
        /\ Score[turn.said][e.id] >= SIMILARITY_FLOOR
    BY <2>2, Zenon DEF Candidates, Retrieve
  <2>. QED
    BY <2>1, <2>3, Zenon
<1> HIDE DEF answer
<1>. QED
  BY <1>1, <1>2, <1>4, SayKeeps

LEMMA HazardKeeps ==
  ASSUME IInv, NEW said \in Says, HazardHeard(said)
  PROVE  IInv' /\ Fair
<1> DEFINE hazard == HazardIn[said]
           t == Transition(ctx, HazardDetected(ctx))
           d == t.ctx
           e == Effect("ESCALATE", "EMERGENCY_HAZARD")
<1>1. /\ turn.phase # "waiting" /\ ~done /\ hazard # "none"
      /\ Perform(d, t.effects, hazard) /\ turn' = NewTurn(said, Held[said], "over")
  BY DEF HazardHeard, Listening, Drive
<1>2. turn' \in Turns /\ turn'.phase = "over" /\ turn'.said = said
  BY <1>1, NewTurnIs DEF Phases
<1>3. MachineFits(ctx) /\ PhaseOf(ctx) = "live" /\ Sound(ctx)
  BY <1>1, Between DEF IInv, UnderWay
<1>4. /\ MachineFits(d) /\ d.state = "EMERGENCY" /\ d.slots = ctx.slots
      /\ d.outcome = "none" /\ d.failures = ctx.failures
      /\ t.effects = << e >>
  BY <1>3, LiveStates, HazardSound, HazardFits DEF MachineFits
<1>5. PhaseOf(d) = "emergency" /\ ~Terminal(d.state) /\ d.escalation = "EMERGENCY_HAZARD"
  BY <1>4, PhaseCases DEF MachineFits, Sound, Context, Ended, Terminal
<1> HIDE DEF hazard, t, d
<1> DEFINE g == GuidanceDelivered(d)
           u == Transition(d, g)
<1>6. e.type = "ESCALATE" /\ e.about = "EMERGENCY_HAZARD"
  BY DEF Effect
<1>7. Perform(d, << e >>, hazard)
  BY <1>1, <1>4, Zenon
<1> HIDE DEF e
<1>8. /\ spoken' = Line(d, e, hazard)
      /\ ctx' = u.ctx
      /\ done' = (e.type \in {"ESCALATE", "CREATE_PENDING_BOOKING"})
  BY <1>1, <1>7, PerformIs
<1>9. /\ MachineFits(u.ctx) /\ Terminal(u.ctx.state) /\ u.ctx.slots = d.slots
  BY <1>4, <1>5, GuidanceEnds
<1>10. GoodApplied(d, g)
  BY <1>4, <1>5, GuidanceGood DEF MachineFits
<1>11. Evolves(d, u.ctx) /\ Carries(g.ctx, u.ctx)
  BY <1>4, <1>5, <1>10, TransitionSound, TransitionCarries DEF MachineFits
<1>12. g.ctx.failures = d.failures /\ g.ctx.escalation = d.escalation
  BY <1>4 DEF GuidanceDelivered, Accept, MachineFits, Sound, Context
<1> HIDE DEF g, u
<1>13. /\ ctx'.failures = ctx.failures
       /\ ctx'.escalation \in {"EMERGENCY_HAZARD", "OUT_OF_SERVICE_AREA"}
  BY <1>4, <1>5, <1>8, <1>11, <1>12 DEF Carries
<1>14. ctx'.outcome = "ESCALATED_EMERGENCY"
  <2>1. PhaseOf(u.ctx) = "over" /\ u.ctx.outcome # "none"
    BY <1>9, PhaseCases DEF Terminal, MachineFits, Sound, Context, Ended
  <2>2. u.ctx.outcome \in EndsOf("emergency")
    BY <1>5, <1>11, <2>1 DEF Evolves
  <2>3. g.ctx.outcome = "none"
    BY <1>4 DEF g, GuidanceDelivered, Accept, MachineFits, Sound, Context
  <2>. QED
    BY <1>8, <1>11, <2>1, <2>2, <2>3 DEF Carries, EndsOf
<1>15. spoken' = << << "guidance", hazard >>, << "transfer", HAZARD_ACTIONS[hazard] >> >>
  <2>1. Line(d, e, hazard) =
          << IF hazard # "none" THEN << "guidance", hazard >> ELSE << "escalation", e.about >>,
             << "transfer", ActionFor(e.about, hazard) >> >>
    BY <1>6, LineIs
  <2>2. ActionFor(e.about, hazard) = HAZARD_ACTIONS[hazard]
    BY <1>1, Zenon DEF ActionFor
  <2>3. (IF hazard # "none" THEN << "guidance", hazard >> ELSE << "escalation", e.about >>)
          = << "guidance", hazard >>
    BY <1>1
  <2>. QED
    BY <1>8, <2>1, <2>2, <2>3, Zenon
<1>16. Alarm'
  BY <1>1, <1>2, <1>14, <1>15, Zenon DEF Alarm, hazard
<1>17. Ours(spoken')
  <2> DEFINE x == << "guidance", hazard >>
             y == << "transfer", HAZARD_ACTIONS[hazard] >>
  <2>1. x[1] # "answer" /\ y[1] # "answer"
    OBVIOUS
  <2> HIDE DEF x, y
  <2>. QED
    BY <1>15, <2>1 DEF Ours, x, y
<1>18. SpokenIsCommitted'
  BY <1>17 DEF Ours, SpokenIsCommitted
<1>19. done' \in BOOLEAN /\ done'
  BY <1>6, <1>8
<1>20. Typed' /\ Stands' /\ Answered' /\ GivenUp'
  BY <1>2, <1>8, <1>9, <1>19 DEF Typed, Stands, Answered, GivenUp
<1>21. Agreed(ctx'.slots) /\ MachineFits(ctx')
  BY <1>4, <1>8, <1>9 DEF IInv
<1>22. Fair
  <2>1. \A k \in SlotKeys : ctx.failures[k] \in Nat
    BY <1>3 DEF Sound, Context
  <2>. QED
    BY <1>2, <1>13, <2>1 DEF Fair
<1>. QED
  BY <1>16, <1>18, <1>20, <1>21, <1>22 DEF IInv

\* The greeting leads to the first question and no further.
LEMMA GreetingLeads ==
  LET t == Transition(initialContext, Greeted(initialContext))
  IN  /\ MachineFits(t.ctx) /\ t.ctx.state = "IDENTIFY"
      /\ t.ctx.slots = EmptyBook /\ t.ctx.outcome = "none"
      /\ t.ctx.escalation = "none" /\ t.ctx.failures = initialContext.failures
      /\ \E e \in MachineEffect : /\ t.effects = << e >> /\ e.type = "ASK_FOR"
                                  /\ Fits(e, t.ctx)
<1> DEFINE c == initialContext
           a == Greeted(c)
           g == a.ctx
           t == Transition(c, a)
           d == t.ctx
<1>1. /\ c.state = "GREETING" /\ c.slots = EmptyBook /\ c.outcome = "none"
      /\ c.escalation = "none" /\ ~Terminal(c.state)
  BY DEF initialContext, Terminal
<1>2. c \in Context /\ MachineFits(c)
  BY InitFits DEF MachineFits, Sound
<1>3. /\ g.state = "GREETING" /\ g.slots = EmptyBook /\ g.outcome = "none" /\ g.greeted
      /\ g.escalation = "none" /\ g.failures = c.failures /\ g \in Context
      /\ a.rejected = FALSE
  BY <1>1, <1>2 DEF Greeted, Accept, Context
<1>4. Sendable(c, a)
  BY <1>2, GreetedSendable
<1>5. /\ MachineFits(d) /\ OneEffect(t.effects, d)
      /\ t.effects = << >> => PhaseOf(d) # "live"
  BY <1>1, <1>2, <1>3, <1>4, DriveFits DEF Sendable
<1>6. d = Advance(g)
  BY <1>1, <1>3, Zenon DEF Transition
<1> HIDE DEF a, t, c, d, g
<1> DEFINE h == Leave(g)
<1>7. /\ h.state = "IDENTIFY" /\ h.slots = EmptyBook /\ h.outcome = "none"
      /\ h.escalation = "none" /\ h.failures = c.failures
  <2>1. NextState["GREETING"] = "IDENTIFY"
    BY DEF NextState, States
  <2>2. OutcomeLeaving(g) = g.outcome
    BY <1>3, Zenon DEF OutcomeLeaving
  <2>. QED
    BY <1>3, <2>1, <2>2 DEF Leave, Context
<1>8. Step(g) = h
  <2>1. CanLeave(g)
    BY <1>3, Required DEF CanLeave, SlotsReady, Blocked, Terminal
  <2>2. ~OutsideServiceArea(g)
    BY <1>3 DEF OutsideServiceArea
  <2>. QED
    BY <2>1, <2>2, StepCases
<1> HIDE DEF h
<1>9. Step(h) = h
  <2>1. "caller_name" \in RequiredSlots[h.state] /\ "caller_name" \in SlotKeys
    BY <1>7, Required, SixSlots
  <2>2. h.slots["caller_name"] = Empty
    BY <1>7, <2>1 DEF EmptyBook
  <2>3. ~CanLeave(h)
    BY <2>1, <2>2 DEF CanLeave, SlotsReady, IsSatisfied
  <2>. QED
    BY <2>3, StepCases
<1>10. d = h
  BY <1>6, <1>8, <1>9, Zenon DEF Advance
<1>11. PhaseOf(d) = "live" /\ ~Terminal(d.state)
  BY <1>5, <1>7, <1>10, PhaseCases DEF MachineFits, Sound, Context, Terminal
<1>12. PICK e \in MachineEffect : t.effects = << e >> /\ Fits(e, d)
  BY <1>5, <1>11 DEF OneEffect
<1>13. e.type = "ASK_FOR"
  <2>1. e.type \in {"ASK_FOR", "READ_BACK"}
    BY <1>7, <1>10, <1>11, <1>12 DEF Fits, MachineEffect
  <2>2. NextPrompt(d) = PromptFor("ASK_FOR", Unmet(d)) /\ NextPrompt(d) = << e >>
    BY <1>7, <1>10, <1>11, <1>12, <2>1, NextPromptCases DEF Fits
  <2>3. Unmet(d) \subseteq SlotKeys
    BY <1>7, <1>10, RequiredSlotsType DEF Unmet, States
  <2>4. PICK f : PromptFor("ASK_FOR", Unmet(d)) = << f >> /\ f.type = "ASK_FOR"
    <3>1. PromptFor("ASK_FOR", Unmet(d)) # << >>
      BY <2>2
    <3>. QED
      BY <2>3, <3>1, PromptForIs
  <2>5. e = f
    BY <2>2, <2>4
  <2>. QED
    BY <2>4, <2>5
<1>. QED
  BY <1>5, <1>7, <1>10, <1>12, <1>13 DEF a, t, c, d, g

LEMMA StartKeeps ==
  ASSUME IInv, Start
  PROVE  IInv' /\ Fair
<1> DEFINE t == Transition(initialContext, Greeted(initialContext))
           d == t.ctx
<1>1. turn \in Turns /\ turn.phase = "waiting"
  BY DEF IInv, Typed, Start
<1>2. ctx = initialContext /\ done = FALSE /\ turn.said = ""
  BY <1>1 DEF IInv, Typed, Stands
<1>3. /\ MachineFits(d) /\ d.state = "IDENTIFY"
      /\ d.slots = EmptyBook /\ d.outcome = "none"
      /\ d.escalation = "none" /\ d.failures = ctx.failures
  BY <1>2, GreetingLeads
<1>4. PICK e \in MachineEffect : t.effects = << e >> /\ e.type = "ASK_FOR" /\ Fits(e, d)
  BY GreetingLeads
<1> DEFINE h == Head(<< e >>)
           p == Head(NextPrompt(initialContext))
           lines == Line(initialContext, p, "none")
           line == Line(d, h, "none")
<1>5. h = e
  OBVIOUS
<1>6. p.type = "GREET"
  <2>1. initialContext.state = "GREETING"
    BY DEF initialContext
  <2>2. NextPrompt(initialContext) = << Effect("GREET", "none") >>
    BY <2>1, NextPromptCases
  <2>. QED
    BY <2>2 DEF Effect
<1>7. /\ ctx' = d /\ spoken' = lines \o line
      /\ expecting' = Effect("extract", h.about) /\ done' = done
      /\ turn' = [turn EXCEPT !.phase = "over", !.fault = "none"]
  BY <1>2, <1>4, Zenon DEF Start, Over
<1>8. turn' \in Turns /\ turn'.phase = "over" /\ turn'.said = ""
  BY <1>1, <1>2, <1>7 DEF Turns, Faults, Phases
<1> HIDE DEF t, d, h, p
<1>9. UnderWay(d, expecting')
  BY <1>4, <1>5, <1>7, PromptAsks
<1>10. Ours(lines \o line)
  <2>1. lines = << << "opening" >>, << "disclosure" >>, << "invitation" >> >>
    BY <1>6, LineIs
  <2>2. PICK x : line = << x >> /\ x[1] # "answer"
    BY <1>4, <1>5, LineIs
  <2> DEFINE o == << "opening" >>
             q == << "disclosure" >>
             n == << "invitation" >>
             S == {o, q, n, x}
  <2>4. o[1] # "answer" /\ q[1] # "answer" /\ n[1] # "answer"
    OBVIOUS
  <2> HIDE DEF o, q, n
  <2>3. lines \in Seq(S) /\ line \in Seq(S)
    <3>1. lines = << o, q, n >>
      BY <2>1, Zenon DEF o, q, n
    <3>2. << o, q, n >> \in Seq(S) /\ << x >> \in Seq(S)
      OBVIOUS
    <3>. QED
      BY <2>2, <3>1, <3>2, Zenon
  <2>5. lines \o line \in Seq(S)
    <3> HIDE DEF S, lines, line
    <3>. QED
      BY <2>3
  <2>6. \A y \in S : y[1] # "answer"
    BY <2>2, <2>4
  <2> HIDE DEF S, lines, line
  <2>. QED
    BY <2>5, <2>6 DEF Ours
<1> HIDE DEF lines, line
<1>11. SpokenIsCommitted'
  BY <1>7, <1>10 DEF Ours, SpokenIsCommitted
<1>12. Typed' /\ Stands' /\ Answered' /\ GivenUp' /\ Alarm'
  BY <1>2, <1>3, <1>7, <1>8, <1>9 DEF Typed, Stands, Answered, GivenUp, Alarm
<1>13. Agreed(ctx'.slots)
  <2>1. Window(ctx'.slots) = Empty
    BY <1>3, <1>7, SixSlots DEF Window, EmptyBook
  <2>. QED
    BY <2>1 DEF Agreed
<1>14. Fair
  <2>1. \A k \in SlotKeys : ctx.failures[k] \in Nat
    BY DEF IInv, MachineFits, Sound, Context
  <2>2. /\ ctx'.failures = ctx.failures /\ ctx'.escalation = "none" /\ turn'.phase = "over"
    BY <1>3, <1>7, <1>8, Zenon
  <2>. QED
    BY <2>1, <2>2 DEF Fair
<1>. QED
  BY <1>3, <1>7, <1>11, <1>12, <1>13, <1>14 DEF IInv

-----------------------------------------------------------------------------
(* The theorems. *)

LEMMA NextKeeps == IInv /\ [Next]_vars => IInv' /\ [Fair]_vars
<1> SUFFICES ASSUME IInv, [Next]_vars
             PROVE  IInv' /\ [Fair]_vars
  OBVIOUS
<1>1. CASE UNCHANGED vars
  <2>1. IInv'
    BY <1>1 DEF vars, IInv, Typed, Stands, Answered, key, GivenUp, Alarm, SpokenIsCommitted
  <2>. QED
    BY <1>1, <2>1
<1>2. CASE Start
  BY <1>2, StartKeeps
<1>3. ASSUME NEW said \in Says, HazardHeard(said) \/ HearYes(said) \/ HearAnswer(said)
      PROVE  IInv' /\ Fair
  BY <1>3, HazardKeeps, HearYesKeeps, HearAnswerKeeps
<1>4. ASSUME turn.phase = "extract", NEW reply \in RepliesWith(Objects[key]),
             \/ ExtractorThrows(reply) \/ ExtractorUnavailable(reply)
             \/ ExtractorFoundNothing(reply) \/ QuestionAsked(reply) \/ ValueHeard(reply)
      PROVE  IInv' /\ Fair
  <2>1. CASE ExtractorThrows(reply)
    <3>1. FaultOf(reply) = "us"
      BY <2>1, ReplyIs DEF ExtractorThrows
    <3>. QED
      BY <1>4, <2>1, <3>1, ThrowsKeeps DEF ExtractorThrows
  <2>. QED
    BY <1>4, <2>1, UnavailableKeeps, FoundNothingKeeps, QuestionKeeps, ValueKeeps
<1>5. ASSUME NEW answer \in GeocoderAnswers, Validated(answer)
      PROVE  IInv' /\ Fair
  BY <1>5, ValidatedKeeps
<1>6. ASSUME NEW down \in BOOLEAN, NothingRetrieved(down)
      PROVE  IInv' /\ Fair
  BY <1>6, SayKeeps DEF NothingRetrieved, Faults
<1>7. ASSUME NEW reply \in RepliesWith(Selections), AnswererThrows(reply) \/ AnswerSelected(reply)
      PROVE  IInv' /\ Fair
  <2>1. CASE AnswererThrows(reply)
    <3>1. FaultOf(reply) = "us"
      BY <2>1, ReplyIs DEF AnswererThrows
    <3>. QED
      BY <2>1, <3>1, ThrowsKeeps DEF AnswererThrows
  <2>. QED
    BY <1>7, <2>1, SelectedKeeps
<1>. QED
  BY <1>1, <1>2, <1>3, <1>4, <1>5, <1>6, <1>7 DEF Next

THEOREM IInvHolds == Spec => []IInv
<1>1. Init => IInv
  BY InitIInv
<1>2. IInv /\ [Next]_vars => IInv'
  BY NextKeeps
<1>. QED
  BY <1>1, <1>2, PTL DEF Spec

\* What the agent says of the business it finds among the contractor's own answers, close
\* enough to the question, whatever a model selects.
THEOREM AnswersAreCommitted == Spec => []SpokenIsCommitted
<1>1. IInv => SpokenIsCommitted
  BY DEF IInv
<1>. QED
  BY <1>1, IInvHolds, PTL

\* No outage, refusal or defect of ours is charged to a caller, only a vendor's doing ends
\* a call as our error and turns die of our own defects, for every order of replies: what
\* extractAndApply() and answerQuestion() make of FaultOf.  A reply the model garbled is
\* charged like one in which nothing was said.
THEOREM FailuresHold == Spec => FailuresAreChargedFairly
<1>1. Init => IInv
  BY InitIInv
<1>2. IInv /\ [Next]_vars => IInv'
  BY NextKeeps
<1>3. IInv /\ [Next]_vars =>
        [/\ (\E k \in SlotKeys : ctx'.failures[k] > ctx.failures[k])
              => turn'.fault \in {"caller", "model"}
         /\ ctx'.escalation = "AGENT_ERROR" => turn'.fault = "vendor"
         /\ turn'.phase = "threw" => turn'.fault = "us"]_vars
  BY NextKeeps DEF Fair
<1>. QED
  BY <1>1, <1>2, <1>3, PTL DEF Spec, FailuresAreChargedFairly

LEMMA DayOf ==
  ASSUME NEW x \in Int
  PROVE  /\ x \div Day \in Int /\ (x % Day) \in 0 .. 1439
         /\ x = 1440 * (x \div Day) + (x % Day)
<1>1. Day = 1440
  BY DEF Day
<1>2. /\ x \div 1440 \in Int /\ (x % 1440) \in 0 .. 1439
      /\ x = 1440 * (x \div 1440) + (x % 1440)
  OBVIOUS
<1>. QED
  BY <1>1, <1>2

\* Times less than a week apart that have the day of the week in common have the day.
LEMMA OneDay ==
  ASSUME NEW a \in Int, NEW b \in Int, NEW x \in a .. b, b - a <= 6 * Day,
         (a \div Day) % 7 = (b \div Day) % 7
  PROVE  /\ x \div Day = a \div Day
         /\ a % Day <= x % Day /\ x % Day <= b % Day
<1> DEFINE i == a \div Day
           j == b \div Day
           k == x \div Day
           l == a % Day
           m == b % Day
           n == x % Day
<1>1. /\ i \in Int /\ l \in 0 .. 1439 /\ a = 1440 * i + l
      /\ j \in Int /\ m \in 0 .. 1439 /\ b = 1440 * j + m
      /\ k \in Int /\ n \in 0 .. 1439 /\ x = 1440 * k + n
  BY DayOf
<1>2. i % 7 = j % 7 /\ b - a <= 8640 /\ x \in a .. b
  BY DEF Day
<1> HIDE DEF i, j, k, l, m, n
<1>3. 0 <= j - i /\ j - i <= 6
  BY <1>1, <1>2
<1>4. i = j
  BY <1>1, <1>2, <1>3
<1>5. k = i
  BY <1>1, <1>2, <1>4
<1>6. l <= n /\ n <= m
  BY <1>1, <1>2, <1>4, <1>5
<1>. QED
  BY <1>5, <1>6 DEF i, k, l, m, n

\* The window a call agrees on has its ends in one opening, and if it is shorter than a
\* week, all of its minutes whose local time is between theirs: what validateWindow() sees
\* to by comparing days of the week and minutes of the day.
THEOREM WindowsHold ==
  ASSUME \A t \in Int : UtcOffset(t) \in Int
  PROVE  Spec => []WindowsAreStaffed
<1>1. ASSUME IInv, NEW slot, slot = ctx.slots["appointment_window"], slot # Empty
      PROVE  LET w == slot.value
             IN \E h \in Hours :
                  /\ Dow(w.from) = h.dow /\ MinuteOfDay(w.from) >= h.open
                  /\ Dow(w.to) = h.dow /\ MinuteOfDay(w.to) <= h.close
                  /\ LocalTime(w.to) - LocalTime(w.from) <= 6 * Day =>
                       \A t \in w.from .. w.to :
                         LocalTime(t) \in LocalTime(w.from) .. LocalTime(w.to) =>
                           Dow(t) = h.dow /\ MinuteOfDay(t) \in h.open .. h.close
  <2> DEFINE w == slot.value
             a == LocalTime(w.from)
             b == LocalTime(w.to)
  <2>1. w \in HeardWindows /\ Staffed(w)
    BY <1>1 DEF IInv, Agreed, Window
  <2>2. w.from \in Int /\ w.to \in Int
    <3>1. PICK o \in Objects["appointment_window"] : ~Absent(o) /\ w = o.value
      BY <2>1 DEF HeardWindows
    <3>2. "appointment_window" \in SlotKeys
      BY SixSlots
    <3>3. o.value \in [from : Int, to : Int]
      BY <3>1, <3>2, DialogueAssumption, Zenon
    <3>. QED
      BY <3>1, <3>3
  <2>3. a \in Int /\ b \in Int
    BY <2>2 DEF LocalTime
  <2>4. PICK h \in Hours : /\ h.dow = Dow(w.from)
                           /\ MinuteOfDay(w.from) >= h.open
                           /\ MinuteOfDay(w.to) <= h.close
    BY <2>1 DEF Staffed
  <2>5. Dow(w.to) = Dow(w.from) /\ h.open \in Int /\ h.close \in Int
    BY <2>1, ValidatorsAssumption DEF Staffed
  <2>6. ASSUME b - a <= 6 * Day, NEW t \in w.from .. w.to, LocalTime(t) \in a .. b
        PROVE  Dow(t) = h.dow /\ MinuteOfDay(t) \in h.open .. h.close
    <3> DEFINE x == LocalTime(t)
    <3>1. /\ h.dow = (a \div Day) % 7 /\ (a \div Day) % 7 = (b \div Day) % 7
          /\ a % Day >= h.open /\ b % Day <= h.close
      BY <2>4, <2>5 DEF Dow, MinuteOfDay
    <3>2. Dow(t) = (x \div Day) % 7 /\ MinuteOfDay(t) = x % Day
      BY DEF Dow, MinuteOfDay
    <3>3. x \in a .. b
      BY <2>6
    <3> HIDE DEF a, b, x
    <3>4. x \div Day = a \div Day /\ a % Day <= x % Day /\ x % Day <= b % Day
      BY <2>3, <2>6, <3>1, <3>3, OneDay
    <3>5. a % Day \in Int /\ b % Day \in Int /\ x % Day \in Int
      BY <2>3, <3>3 DEF Day
    <3>6. (x \div Day) % 7 = h.dow
      BY <3>1, <3>4
    <3>7. x % Day \in h.open .. h.close
      BY <2>5, <3>1, <3>4, <3>5
    <3>. QED
      BY <3>2, <3>6, <3>7
  <2>. QED
    BY <2>4, <2>5, <2>6
<1>2. IInv => WindowsAreStaffed
  BY <1>1 DEF WindowsAreStaffed
<1>. QED
  BY <1>2, IInvHolds, PTL

-----------------------------------------------------------------------------
(* What the classifier says of a text. *)

Fires(i, text) ==
  /\ HAZARD_RULES[i].freezing => IsFreezing
  /\ MatchRule(HAZARD_RULES[i], Words(text, Letters \cup Digits))

Firing(text) == {i \in DOMAIN HAZARD_RULES : Fires(i, text)}

Severity(i) == HAZARD_SEVERITY[HAZARD_RULES[i].category]

\* The caller is told to dial 911 for the four hazards that rank at 90 or more.
LEMMA ActionsFollowSeverity ==
  /\ "none" \notin HAZARD_CATEGORIES
  /\ \A h \in HAZARD_CATEGORIES :
       /\ HAZARD_SEVERITY[h] \in {100, 95, 90, 60, 50, 45, 40}
       /\ HAZARD_ACTIONS[h] =
            IF HAZARD_SEVERITY[h] >= 90 THEN "DIAL_911_GUIDANCE" ELSE "WARM_TRANSFER"
BY DEF HAZARD_CATEGORIES, HAZARD_ACTIONS, HAZARD_SEVERITY

LEMMA TwelveRules ==
  /\ DOMAIN HAZARD_RULES = 1 .. 12
  /\ \A i \in 1 .. 12 : HAZARD_RULES[i].category \in HAZARD_CATEGORIES
<1>1. DOMAIN HAZARD_RULES = 1 .. 12
  BY DEF HAZARD_RULES
<1>2. /\ HAZARD_RULES[1].category = "CARBON_MONOXIDE"
      /\ HAZARD_RULES[2].category = "NO_HEAT_FREEZING"
      /\ HAZARD_RULES[3].category = "NO_HEAT_FREEZING"
      /\ HAZARD_RULES[4].category = "ELECTRICAL_ARC"
      /\ HAZARD_RULES[5].category = "FIRE"
      /\ HAZARD_RULES[6].category = "FIRE"
  BY DEF HAZARD_RULES, Rule
<1>3. /\ HAZARD_RULES[7].category = "GAS_LEAK"
      /\ HAZARD_RULES[8].category = "GAS_LEAK"
      /\ HAZARD_RULES[9].category = "GAS_LEAK"
      /\ HAZARD_RULES[10].category = "SEWAGE_BACKUP"
      /\ HAZARD_RULES[11].category = "VULNERABLE_PERSON_AT_RISK"
      /\ HAZARD_RULES[12].category = "FLOODING"
  BY DEF HAZARD_RULES, Rule
<1>4. {"GAS_LEAK", "CARBON_MONOXIDE", "FIRE", "ELECTRICAL_ARC", "VULNERABLE_PERSON_AT_RISK",
       "FLOODING", "NO_HEAT_FREEZING", "SEWAGE_BACKUP"} \subseteq HAZARD_CATEGORIES
  BY DEF HAZARD_CATEGORIES, HAZARD_SEVERITY
<1>5. ASSUME NEW i \in 1 .. 12 PROVE HAZARD_RULES[i].category \in HAZARD_CATEGORIES
  <2>1. \/ i = 1 \/ i = 2 \/ i = 3 \/ i = 4 \/ i = 5 \/ i = 6
        \/ i = 7 \/ i = 8 \/ i = 9 \/ i = 10 \/ i = 11 \/ i = 12
    OBVIOUS
  <2>. QED
    BY <1>2, <1>3, <1>4, <2>1
<1>. QED
  BY <1>1, <1>5

LEMMA FirstOfTwelve ==
  ASSUME NEW T \in SUBSET (1 .. 12), T # {}
  PROVE  Min(T) \in T
<1>1. \E x \in T : \A y \in T : x <= y
  <2> SUFFICES ASSUME \A x \in T : \E y \in T : y < x
               PROVE  FALSE
    OBVIOUS
  <2>1. 1 \notin T /\ 2 \notin T /\ 3 \notin T /\ 4 \notin T
    <3>1. 1 \notin T
      OBVIOUS
    <3>2. 2 \notin T
      BY <3>1
    <3>3. 3 \notin T
      BY <3>1, <3>2
    <3>4. 4 \notin T
      BY <3>1, <3>2, <3>3
    <3>. QED
      BY <3>1, <3>2, <3>3, <3>4
  <2>2. 5 \notin T /\ 6 \notin T /\ 7 \notin T /\ 8 \notin T
    <3>1. 5 \notin T
      BY <2>1
    <3>2. 6 \notin T
      BY <2>1, <3>1
    <3>3. 7 \notin T
      BY <2>1, <3>1, <3>2
    <3>4. 8 \notin T
      BY <2>1, <3>1, <3>2, <3>3
    <3>. QED
      BY <3>1, <3>2, <3>3, <3>4
  <2>3. 9 \notin T /\ 10 \notin T /\ 11 \notin T /\ 12 \notin T
    <3>1. 9 \notin T
      BY <2>1, <2>2
    <3>2. 10 \notin T
      BY <2>1, <2>2, <3>1
    <3>3. 11 \notin T
      BY <2>1, <2>2, <3>1, <3>2
    <3>4. 12 \notin T
      BY <2>1, <2>2, <3>1, <3>2, <3>3
    <3>. QED
      BY <3>1, <3>2, <3>3, <3>4
  <2>4. PICK x : x \in T
    OBVIOUS
  <2>5. x \in 1 .. 4 \/ x \in 5 .. 8 \/ x \in 9 .. 12
    BY <2>4
  <2>6. CASE x \in 1 .. 4
    <3>1. x = 1 \/ x = 2 \/ x = 3 \/ x = 4
      BY <2>6
    <3>. QED
      BY <2>1, <2>4, <3>1
  <2>7. CASE x \in 5 .. 8
    <3>1. x = 5 \/ x = 6 \/ x = 7 \/ x = 8
      BY <2>7
    <3>. QED
      BY <2>2, <2>4, <3>1
  <2>8. CASE x \in 9 .. 12
    <3>1. x = 9 \/ x = 10 \/ x = 11 \/ x = 12
      BY <2>8
    <3>. QED
      BY <2>3, <2>4, <3>1
  <2>. QED
    BY <2>5, <2>6, <2>7, <2>8
<1>. QED
  BY <1>1 DEF Min

\* One of the most severe rules that fire is the one acted on.
LEMMA WorstIsClassified ==
  ASSUME NEW text
  PROVE  IF Firing(text) = {} THEN Classify(text) = "none"
         ELSE \E i \in Firing(text) :
                /\ Classify(text) = HAZARD_RULES[i].category
                /\ \A j \in Firing(text) : Severity(j) <= Severity(i)
<1> DEFINE F == Firing(text)
           Top == {i \in F : \A j \in F : Severity(j) <= Severity(i)}
<1>1. Classify(text) = IF F = {} THEN "none" ELSE HAZARD_RULES[Min(Top)].category
  BY Zenon DEF Classify, Firing, Fires, Severity
<1>2. F \subseteq 1 .. 12
  BY TwelveRules DEF Firing
<1>3. \A i \in F : Severity(i) \in {100, 95, 90, 60, 50, 45, 40}
  BY <1>2, TwelveRules, ActionsFollowSeverity DEF Severity
<1> HIDE DEF F
<1>4. F # {} => Top # {}
  <2> DEFINE OneOf(v) == \E i \in F : Severity(i) = v
  <2>1. ASSUME NEW v \in Nat, OneOf(v), \A i \in F : Severity(i) <= v
        PROVE  Top # {}
    BY <2>1
  <2>2. F # {} => OneOf(100) \/ OneOf(95) \/ OneOf(90) \/ OneOf(60) \/ OneOf(50) \/ OneOf(45) \/ OneOf(40)
    BY <1>3
  <2>3. CASE OneOf(100)
    BY <1>3, <2>1, <2>3
  <2>4. CASE ~OneOf(100) /\ OneOf(95)
    BY <1>3, <2>1, <2>4
  <2>5. CASE ~OneOf(100) /\ ~OneOf(95) /\ OneOf(90)
    BY <1>3, <2>1, <2>5
  <2>6. CASE ~OneOf(100) /\ ~OneOf(95) /\ ~OneOf(90) /\ OneOf(60)
    BY <1>3, <2>1, <2>6
  <2>7. CASE ~OneOf(100) /\ ~OneOf(95) /\ ~OneOf(90) /\ ~OneOf(60) /\ OneOf(50)
    BY <1>3, <2>1, <2>7
  <2>8. CASE ~OneOf(100) /\ ~OneOf(95) /\ ~OneOf(90) /\ ~OneOf(60) /\ ~OneOf(50) /\ OneOf(45)
    BY <1>3, <2>1, <2>8
  <2>9. CASE ~OneOf(100) /\ ~OneOf(95) /\ ~OneOf(90) /\ ~OneOf(60) /\ ~OneOf(50) /\ ~OneOf(45) /\ OneOf(40)
    BY <1>3, <2>1, <2>9
  <2>. QED
    BY <2>2, <2>3, <2>4, <2>5, <2>6, <2>7, <2>8, <2>9
<1>5. Top \in SUBSET (1 .. 12)
  BY <1>2
<1> HIDE DEF Top
<1>6. F # {} => Min(Top) \in Top
  BY <1>4, <1>5, FirstOfTwelve
<1>7. ASSUME F # {}
      PROVE  \E i \in F : /\ Classify(text) = HAZARD_RULES[i].category
                          /\ \A j \in F : Severity(j) <= Severity(i)
  <2>1. Min(Top) \in F /\ \A j \in F : Severity(j) <= Severity(Min(Top))
    BY <1>6, <1>7 DEF Top
  <2>. QED
    BY <1>1, <1>7, <2>1
<1>. QED
  BY <1>1, <1>7 DEF F

\* Words on which a rule fires end the call as an emergency, and a call ends so on no other
\* words; the agent then says the guidance and the transfer of the worst rule that fires.
WorstRuleActs ==
  /\ turn.said \in Says \ {""} /\ Firing(Held[turn.said]) # {}
       => ctx.outcome = "ESCALATED_EMERGENCY"
  /\ ctx.outcome = "ESCALATED_EMERGENCY" =>
       turn.said \in Says /\ \E i \in Firing(Held[turn.said]) :
         /\ \A j \in Firing(Held[turn.said]) : Severity(j) <= Severity(i)
         /\ spoken = << << "guidance", HAZARD_RULES[i].category >>,
                        << "transfer", IF Severity(i) >= 90
                                       THEN "DIAL_911_GUIDANCE" ELSE "WARM_TRANSFER" >> >>

\* Whatever is said and whatever was being asked, the classifier's worst rule has the last
\* word: hear() and hearPartial() classify before they do anything else.  That the rules
\* hear what a listener would is for WorstHazardActs to say, over the texts of a run.
THEOREM HazardsHold == Spec => []WorstRuleActs
<1>1. ASSUME NEW said \in Says
      PROVE  HazardIn[said] = Classify(Held[said])
  BY <1>1 DEF HazardIn
<1>2. ASSUME IInv, ctx.outcome = "ESCALATED_EMERGENCY"
      PROVE  WorstRuleActs
  <2> DEFINE text == Held[turn.said]
             hazard == HazardIn[turn.said]
  <2>1. /\ turn.said \in Says /\ hazard # "none"
        /\ spoken = << << "guidance", hazard >>, << "transfer", HAZARD_ACTIONS[hazard] >> >>
    BY <1>2, Zenon DEF IInv, Alarm
  <2>2. Classify(text) = hazard
    BY <1>1, <2>1
  <2> HIDE DEF text, hazard
  <2>3. PICK i \in Firing(text) : /\ hazard = HAZARD_RULES[i].category
                                  /\ \A j \in Firing(text) : Severity(j) <= Severity(i)
    BY <2>1, <2>2, WorstIsClassified
  <2>4. hazard \in HAZARD_CATEGORIES /\ Severity(i) = HAZARD_SEVERITY[hazard]
    BY <2>3, TwelveRules DEF Firing, Severity
  <2>5. HAZARD_ACTIONS[hazard] =
          IF Severity(i) >= 90 THEN "DIAL_911_GUIDANCE" ELSE "WARM_TRANSFER"
    BY <2>4, ActionsFollowSeverity
  <2>6. spoken = << << "guidance", HAZARD_RULES[i].category >>,
                    << "transfer", IF Severity(i) >= 90
                                   THEN "DIAL_911_GUIDANCE" ELSE "WARM_TRANSFER" >> >>
    BY <2>1, <2>3, <2>5, Zenon
  <2>. QED
    BY <1>2, <2>1, <2>3, <2>6, Zenon DEF WorstRuleActs, text
<1>3. ASSUME IInv, ctx.outcome # "ESCALATED_EMERGENCY"
      PROVE  WorstRuleActs
  <2>1. turn.said = "" \/ (turn.said \in Says /\ HazardIn[turn.said] = "none")
    BY <1>3, Zenon DEF IInv, Alarm
  <2>2. turn.said \in Says \ {""} => Classify(Held[turn.said]) = "none"
    BY <1>1, <2>1
  <2>3. \A text : Classify(text) = "none" => Firing(text) = {}
    <3> SUFFICES ASSUME NEW text, Classify(text) = "none", Firing(text) # {}
                 PROVE  FALSE
      OBVIOUS
    <3>1. PICK i \in Firing(text) : Classify(text) = HAZARD_RULES[i].category
      BY WorstIsClassified
    <3>2. "none" \in HAZARD_CATEGORIES
      BY <3>1, TwelveRules DEF Firing
    <3>. QED
      BY <3>2, ActionsFollowSeverity
  <2>. QED
    BY <1>3, <2>2, <2>3, Zenon DEF WorstRuleActs
<1>4. IInv => WorstRuleActs
  BY <1>2, <1>3
<1>. QED
  BY <1>4, IInvHolds, PTL

=============================================================================
