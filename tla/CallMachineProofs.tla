-------------------------- MODULE CallMachineProofs --------------------------
(***************************************************************************)
(* What every event of the machine does to a context, for every set of     *)
(* values and service area and every failure limit.  The invariant of a    *)
(* context is an operator, so that it can follow a context through the     *)
(* turns of advance(), and both Conversation and CallRuntime can use it.   *)
(***************************************************************************)
EXTENDS CallMachine, TLAPS

\* What every context machine.ts produces satisfies.
Booked(c) == c.outcome = "BOOKED" =>
               \A k \in SlotKeys : IsSatisfied(c.slots, k) /\ ~NeedsConfirmation(c.slots, k)

Ended(c) ==
  /\ c.outcome = "none" <=> ~Terminal(c.state)
  /\ c.state = "HANDOFF" => c.escalation # "none" /\ c.outcome = OutcomeFor[c.escalation]
  /\ c.state = "CLOSE" => c.outcome \in {"BOOKED", "CALLER_HUNG_UP"}
  /\ c.state = "EMERGENCY" => c.escalation = "EMERGENCY_HAZARD"

Failed(c) == ~Terminal(c.state) => \A k \in SlotKeys : c.failures[k] < FailureLimit

Sound(c) == c \in Context /\ Booked(c) /\ Ended(c) /\ Failed(c)

\* What a call has been told by the time it stands in a state.
Passed(c) ==
  /\ c.state \in {"TRIAGE", "QUALIFY", "SCHEDULE", "CONFIRM"} =>
       c.slots["caller_name"] # Empty /\ c.slots["callback_phone"] # Empty
  /\ c.state \in {"QUALIFY", "SCHEDULE", "CONFIRM"} =>
       c.slots["problem_description"] # Empty /\ c.slots["urgency"] # Empty
  /\ c.state \in {"SCHEDULE", "CONFIRM"} => c.slots["service_address"] # Empty
  /\ c.state = "CONFIRM" => c.slots["appointment_window"] # Empty

\* The endings a call can come to from each phase.
EndsOf(phase) ==
  {"ESCALATED_OTHER", "AGENT_ERROR", "CALLER_HUNG_UP"}
    \cup (IF phase = "live" THEN {"BOOKED", "OUT_OF_SERVICE_AREA"} ELSE {"ESCALATED_EMERGENCY"})

\* How a context may change when no hazard is raised: it keeps its phase, or it ends
\* in an outcome its phase allows.  A context that is over does not change.
Evolves(c, d) ==
  IF PhaseOf(c) = "over" THEN d = c
  ELSE \/ PhaseOf(d) = PhaseOf(c)
       \/ PhaseOf(d) = "over" /\ d.outcome \in EndsOf(PhaseOf(c))

LEMMA OutcomeTypes ==
  /\ \A r \in Reasons : OutcomeFor[r] \in Outcomes \ {"none", "BOOKED", "CALLER_HUNG_UP"}
  /\ {"BOOKED", "CALLER_HUNG_UP", "none", "ESCALATED_EMERGENCY"} \subseteq Outcomes
  /\ OutcomeFor["EMERGENCY_HAZARD"] = "ESCALATED_EMERGENCY"
  /\ OutcomeFor["OUT_OF_SERVICE_AREA"] = "OUT_OF_SERVICE_AREA"
BY DEF Outcomes, OutcomeFor, Reasons

LEMMA NextStateType == \A s \in States : NextState[s] \in States
BY DEF NextState, States

\* Escalating a live context ends it soundly.
LEMMA EscalateSound ==
  ASSUME NEW c \in Context, NEW r \in Reasons
  PROVE  Sound(EscalateNow(c, r))
<1> DEFINE d == EscalateNow(c, r)
<1>1. d \in Context
  BY OutcomeTypes DEF EscalateNow, Context, States
<1>2. d.state = "HANDOFF" /\ d.escalation = r /\ d.outcome = OutcomeFor[r]
  BY DEF EscalateNow, Context
<1>3. Booked(d)
  BY <1>2, OutcomeTypes DEF Booked
<1>4. Ended(d)
  BY <1>2, OutcomeTypes DEF Ended, Terminal, Reasons
<1>5. Failed(d)
  BY <1>2 DEF Failed, Terminal
<1>. QED
  BY <1>1, <1>3, <1>4, <1>5 DEF Sound

LEMMA StepCases ==
  ASSUME NEW c
  PROVE  /\ ~CanLeave(c) => Step(c) = c
         /\ CanLeave(c) /\ OutsideServiceArea(c)
              => Step(c) = EscalateNow(c, "OUT_OF_SERVICE_AREA")
         /\ CanLeave(c) /\ ~OutsideServiceArea(c) => Step(c) = Leave(c)
BY Zenon DEF Step

LEMMA PhaseCases ==
  ASSUME NEW c, c.state \in States
  PROVE  /\ PhaseOf(c) = "over" <=> c.state \in {"CLOSE", "HANDOFF"}
         /\ PhaseOf(c) = "emergency" <=> c.state = "EMERGENCY"
         /\ PhaseOf(c) \in {"live", "emergency", "over"}
BY DEF PhaseOf, Terminal, States

LEMMA EvolvesTransitive ==
  ASSUME NEW c, NEW d, NEW e, Evolves(c, d), Evolves(d, e)
  PROVE  Evolves(c, e)
BY DEF Evolves

\* One turn of advance() keeps a context sound, keeps its slots, and only ends a
\* call as its phase allows.
LEMMA StepSound ==
  ASSUME NEW c, Sound(c)
  PROVE  /\ Sound(Step(c))
         /\ Step(c).slots = c.slots /\ Step(c).guided = c.guided
         /\ Evolves(c, Step(c))
<1> DEFINE d == Step(c)
<1>1. c \in Context /\ c.state \in States
  BY DEF Sound, Context
<1>2. CASE ~CanLeave(c)
  BY <1>2, StepCases DEF Evolves
<1>3. CASE CanLeave(c) /\ OutsideServiceArea(c)
  <2>1. d = EscalateNow(c, "OUT_OF_SERVICE_AREA")
    BY <1>3, StepCases
  <2>2. Sound(d)
    BY <1>1, <2>1, EscalateSound DEF Reasons
  <2>3. d.slots = c.slots /\ d.state = "HANDOFF" /\ d.outcome = "OUT_OF_SERVICE_AREA"
    BY <1>1, <2>1, OutcomeTypes DEF EscalateNow, Context
  <2>5. d.guided = c.guided
    BY <1>1, <2>1 DEF EscalateNow, Context
  <2>4. PhaseOf(c) = "live" /\ PhaseOf(d) = "over"
    BY <1>3, <1>1, <2>3 DEF PhaseOf, OutsideServiceArea, Terminal
  <2>. QED
    BY <2>2, <2>3, <2>4, <2>5 DEF Evolves, EndsOf
<1>4. CASE CanLeave(c) /\ ~OutsideServiceArea(c)
  <2>1. d = Leave(c)
    BY <1>4, StepCases
  <2>2. /\ d.state = NextState[c.state]
        /\ d.outcome = OutcomeLeaving(c)
        /\ d.slots = c.slots /\ d.escalation = c.escalation /\ d.failures = c.failures
        /\ d.guided = c.guided
    BY <1>1, <2>1 DEF Context, Leave
  <2>3. d \in Context
    BY <1>1, <2>1, OutcomeTypes, NextStateType DEF Context, Leave, OutcomeLeaving
  <2>4. ~Terminal(c.state) /\ c.outcome = "none"
    BY <1>4 DEF Sound, Ended, CanLeave
  <2>5. Booked(d)
    <3>1. CASE c.state = "CONFIRM"
      BY <1>4, <1>1, <2>2, <3>1
      DEF Booked, CanLeave, SlotsReady, RequiredSlots, Blocked, PendingConfirmations, States
    <3>2. CASE c.state # "CONFIRM"
      BY <2>2, <2>4, <3>2 DEF Booked, OutcomeLeaving
    <3>. QED
      BY <3>1, <3>2
  <2>6. Ended(d)
    BY <1>1, <2>2, <2>4, OutcomeTypes
    DEF Ended, Sound, Terminal, OutcomeLeaving, NextState, States, Reasons
  <2>7. Failed(d)
    BY <2>2, <2>4 DEF Failed, Sound
  <2>8. Evolves(c, d)
    <3>1. CASE c.state \in {"CONFIRM", "EMERGENCY"}
      <4>1. d.state \in {"CLOSE", "HANDOFF"} /\ d.outcome \in {"BOOKED", "ESCALATED_EMERGENCY"}
            /\ (d.outcome = "BOOKED" <=> c.state = "CONFIRM")
        BY <2>2, <3>1 DEF NextState, OutcomeLeaving, States
      <4>. QED
        BY <3>1, <4>1 DEF Evolves, PhaseOf, Terminal, EndsOf
    <3>2. CASE c.state \notin {"CONFIRM", "EMERGENCY"}
      <4>1. d.state \in States \ {"CLOSE", "HANDOFF", "EMERGENCY"}
        BY <1>1, <2>2, <2>4, <3>2 DEF NextState, States, Terminal
      <4>. QED
        BY <2>4, <3>2, <4>1 DEF Evolves, PhaseOf, Terminal
    <3>. QED
      BY <3>1, <3>2
  <2>. QED
    BY <2>2, <2>3, <2>5, <2>6, <2>7, <2>8 DEF Sound
<1>. QED
  BY <1>2, <1>3, <1>4

LEMMA Required ==
  /\ RequiredSlots["GREETING"] = {} /\ RequiredSlots["EMERGENCY"] = {}
  /\ RequiredSlots["IDENTIFY"] = {"caller_name", "callback_phone"}
  /\ RequiredSlots["TRIAGE"] = {"problem_description", "urgency"}
  /\ RequiredSlots["QUALIFY"] = {"service_address"}
  /\ RequiredSlots["SCHEDULE"] = {"appointment_window"}
  /\ RequiredSlots["CONFIRM"] = SlotKeys
BY DEF RequiredSlots, States

LEMMA SixSlots ==
  SlotKeys = {"caller_name", "callback_phone", "service_address", "problem_description",
              "urgency", "appointment_window"}
<1>1. DOMAIN SLOT_KEYS = 1 .. 6
  BY DEF SLOT_KEYS
<1>. QED
  BY <1>1 DEF SlotKeys, SLOT_KEYS

\* A state is left only with what it asks for.
LEMMA StepPassed ==
  ASSUME NEW c, Sound(c), Passed(c)
  PROVE  Passed(Step(c))
<1>1. c \in Context /\ c.state \in States
  BY DEF Sound, Context
<1>2. CASE ~CanLeave(c)
  BY <1>2, StepCases
<1>3. CASE CanLeave(c) /\ OutsideServiceArea(c)
  <2>1. Step(c).state = "HANDOFF"
    BY <1>1, <1>3, StepCases DEF EscalateNow, Context
  <2>. QED
    BY <2>1 DEF Passed
<1>4. CASE CanLeave(c) /\ ~OutsideServiceArea(c)
  <2>1. Step(c).state = NextState[c.state] /\ Step(c).slots = c.slots
    BY <1>1, <1>4, StepCases DEF Leave, Context
  <2>2. \A k \in RequiredSlots[c.state] : c.slots[k] # Empty
    BY <1>4 DEF CanLeave, SlotsReady, IsSatisfied
  <2>3. c.state \notin {"CLOSE", "HANDOFF"}
    BY <1>4 DEF CanLeave, Terminal
  <2>4. /\ NextState["GREETING"] = "IDENTIFY" /\ NextState["IDENTIFY"] = "TRIAGE"
        /\ NextState["TRIAGE"] = "QUALIFY" /\ NextState["QUALIFY"] = "SCHEDULE"
        /\ NextState["SCHEDULE"] = "CONFIRM" /\ NextState["CONFIRM"] = "CLOSE"
        /\ NextState["EMERGENCY"] = "HANDOFF"
    BY DEF NextState, States
  <2>. QED
    BY <1>1, <2>1, <2>2, <2>3, <2>4, Required DEF Passed, States
<1>. QED
  BY <1>2, <1>3, <1>4

\* The longest chain of states a call can still walk through.
StepsLeft(s) ==
  IF s = "GREETING" THEN 6
  ELSE IF s = "IDENTIFY" THEN 5
  ELSE IF s = "TRIAGE" THEN 4
  ELSE IF s = "QUALIFY" THEN 3
  ELSE IF s = "SCHEDULE" THEN 2
  ELSE IF s \in {"CONFIRM", "EMERGENCY"} THEN 1
  ELSE 0

\* After n more turns the context has come to rest.
RestsIn(c, n) == ~CanLeave(c) \/ StepsLeft(c.state) <= n

LEMMA StepDescends ==
  ASSUME NEW c, Sound(c), NEW n \in Nat, RestsIn(c, n + 1)
  PROVE  RestsIn(Step(c), n)
<1>1. c \in Context /\ c.state \in States
  BY DEF Sound, Context
<1>2. CASE ~CanLeave(c)
  BY <1>2, StepCases DEF RestsIn
<1>3. CASE CanLeave(c) /\ OutsideServiceArea(c)
  <2>1. Step(c).state = "HANDOFF"
    BY <1>1, <1>3, StepCases DEF EscalateNow, Context
  <2>. QED
    BY <2>1 DEF RestsIn, StepsLeft
<1>4. CASE CanLeave(c) /\ ~OutsideServiceArea(c)
  <2>1. Step(c).state = NextState[c.state]
    BY <1>1, <1>4, StepCases DEF Leave, Context
  <2>2. StepsLeft(c.state) <= n + 1 /\ c.state \notin {"CLOSE", "HANDOFF"}
    BY <1>4 DEF RestsIn, CanLeave, Terminal
  <2>3. StepsLeft(NextState[c.state]) < StepsLeft(c.state)
    BY <1>1, <2>2 DEF StepsLeft, NextState, States
  <2>4. StepsLeft(c.state) \in 0 .. 6 /\ StepsLeft(NextState[c.state]) \in 0 .. 6
    BY DEF StepsLeft
  <2>. QED
    BY <2>1, <2>2, <2>3, <2>4 DEF RestsIn
<1>. QED
  BY <1>2, <1>3, <1>4

\* advance() keeps a context sound and its slots, and six turns bring it to rest.
LEMMA AdvanceSound ==
  ASSUME NEW c, Sound(c)
  PROVE  /\ Sound(Advance(c))
         /\ Advance(c).slots = c.slots /\ Advance(c).guided = c.guided
         /\ Evolves(c, Advance(c))
         /\ ~CanLeave(Advance(c))
         /\ Passed(c) => Passed(Advance(c))
<1> DEFINE Good(d, n) == /\ Sound(d) /\ d.slots = c.slots /\ d.guided = c.guided
                         /\ Evolves(c, d)
                         /\ Passed(c) => Passed(d)
                         /\ RestsIn(d, n)
<1>1. ASSUME NEW d, NEW n \in Nat, Good(d, n + 1)
      PROVE  Good(Step(d), n)
  BY <1>1, StepSound, StepDescends, StepPassed, EvolvesTransitive
<1>2. Good(c, 6)
  <2>1. StepsLeft(c.state) <= 6
    BY DEF StepsLeft
  <2>2. Evolves(c, c)
    BY DEF Evolves
  <2>. QED
    BY <2>1, <2>2 DEF RestsIn
<1> HIDE DEF Good
<1>3. Good(Step(c), 5)
  BY <1>1, <1>2, 6 = 5 + 1
<1>4. Good(Step(Step(c)), 4)
  BY <1>1, <1>3, 5 = 4 + 1
<1>5. Good(Step(Step(Step(c))), 3)
  BY <1>1, <1>4, 4 = 3 + 1
<1>6. Good(Step(Step(Step(Step(c)))), 2)
  BY <1>1, <1>5, 3 = 2 + 1
<1>7. Good(Step(Step(Step(Step(Step(c))))), 1)
  BY <1>1, <1>6, 2 = 1 + 1
<1>8. Good(Advance(c), 0)
  BY <1>1, <1>7, 1 = 0 + 1 DEF Advance
<1>9. ~CanLeave(Advance(c))
  <2> DEFINE s == Advance(c).state
  <2>1. s \in States
    BY <1>8 DEF Good, Sound, Context
  <2>2. CanLeave(Advance(c)) => StepsLeft(s) <= 0 /\ s \notin {"CLOSE", "HANDOFF"}
    BY <1>8 DEF Good, RestsIn, CanLeave, Terminal
  <2>3. s \notin {"CLOSE", "HANDOFF"} => StepsLeft(s) >= 1
    BY <2>1 DEF StepsLeft, States
  <2>4. StepsLeft(s) \in 0 .. 6
    BY DEF StepsLeft
  <2>. QED
    BY <2>2, <2>3, <2>4
<1>. QED
  BY <1>8, <1>9 DEF Good

-----------------------------------------------------------------------------
(* What the events and transition() do to a sound, live context. *)

\* A slot is never emptied.
NothingForgotten(old, new) == \A k \in SlotKeys : old[k] # Empty => new[k] # Empty

\* The event escalates, which ends the call or leaves it waiting for the guidance.
Yields(d, reason) ==
  /\ d.state \in {"HANDOFF", "EMERGENCY"}
  /\ reason # "EMERGENCY_HAZARD" => d.state = "HANDOFF"
  /\ d.outcome \notin {"BOOKED", "OUT_OF_SERVICE_AREA"}
  /\ ~CanLeave(d)

\* An event asks for nothing itself, or for the escalation it is.
Asks(a) ==
  \/ a.effects = << >>
  \/ \E r \in Reasons : a.effects = << Effect("ESCALATE", r) >> /\ Yields(a.ctx, r)

\* A rejected event changes nothing a prompt depends on.
Ignored(c, a) ==
  ~CanLeave(a.ctx) /\ a.effects = << >> /\ a.ctx.state = c.state /\ a.ctx.slots = c.slots

GoodApplied(c, a) ==
  /\ Sound(a.ctx)
  /\ Evolves(c, a.ctx)
  /\ a.ctx.state \in {c.state, "HANDOFF", "CLOSE"}
  /\ NothingForgotten(c.slots, a.ctx.slots)
  /\ Asks(a)
  /\ a.rejected \in BOOLEAN
  /\ a.rejected => Ignored(c, a)

\* The least slot of a set is one of its slots.
LEMMA FirstOfType ==
  ASSUME NEW keys, keys \subseteq SlotKeys, keys # {}
  PROVE  FirstOf(keys) \in keys
<1> DEFINE First(i) == SLOT_KEYS[i] \in keys /\ \A j \in 1 .. i - 1 : SLOT_KEYS[j] \notin keys
<1>1. DOMAIN SLOT_KEYS = 1 .. 6
  BY DEF SLOT_KEYS
<1>2. \E i \in 1 .. 6 : SLOT_KEYS[i] \in keys
  BY <1>1 DEF SlotKeys
<1>3. \E i \in 1 .. 6 : First(i)
  BY <1>2
<1>4. FirstOf(keys) = SLOT_KEYS[CHOOSE i \in 1 .. 6 : First(i)]
  BY <1>1 DEF FirstOf
<1>. QED
  BY <1>3, <1>4

LEMMA RequiredSlotsType == \A s \in States : RequiredSlots[s] \subseteq SlotKeys
BY DEF RequiredSlots, States, SlotKeys, SLOT_KEYS

\* An effect says what the context it comes with calls for.
Fits(e, d) ==
  /\ e.type = "CREATE_PENDING_BOOKING" => d.outcome = "BOOKED"
  /\ e.type = "ESCALATE" =>
       /\ PhaseOf(d) # "live" /\ d.outcome # "BOOKED" /\ e.about \in Reasons
       /\ e.about # "EMERGENCY_HAZARD" => Terminal(d.state)
  /\ e.type \in {"GREET", "ASK_FOR", "READ_BACK"} =>
       PhaseOf(d) = "live" /\ NextPrompt(d) = << e >>
  /\ e.type \in {"ASK_FOR", "READ_BACK"} => e.about \in SlotKeys /\ d.state # "GREETING"
  /\ e.type = "GREET" => e.about = "none" /\ d.state = "GREETING"

OneEffect(effects, d) ==
  \/ effects = << >>
  \/ \E e \in MachineEffect : effects = << e >> /\ Fits(e, d)

\* The calls that have nothing to ask the caller.
NothingToAsk(d) ==
  \/ PhaseOf(d) # "live"
  \/ \E k \in SlotKeys : d.slots[k] # Empty /\ d.slots[k].verdict = "invalid"

LEMMA NextPromptCases ==
  ASSUME NEW c
  PROVE  /\ Terminal(c.state) => NextPrompt(c) = << >>
         /\ c.state = "GREETING" => NextPrompt(c) = << Effect("GREET", "none") >>
         /\ c.state = "CONFIRM" =>
              NextPrompt(c) = PromptFor("READ_BACK", PendingConfirmations(c.slots))
         /\ ~Terminal(c.state) /\ c.state \notin {"GREETING", "CONFIRM"} =>
              NextPrompt(c) = PromptFor("ASK_FOR", Unmet(c))
<1>1. Terminal(c.state) => NextPrompt(c) = << >>
  BY Zenon DEF NextPrompt, Terminal
<1>2. ASSUME c.state = "GREETING" PROVE NextPrompt(c) = << Effect("GREET", "none") >>
  <2>1. ~Terminal(c.state)
    BY <1>2 DEF Terminal
  <2>. QED
    BY <1>2, <2>1, Zenon DEF NextPrompt
<1>3. ASSUME c.state = "CONFIRM"
      PROVE  NextPrompt(c) = PromptFor("READ_BACK", PendingConfirmations(c.slots))
  <2>1. ~Terminal(c.state) /\ c.state # "GREETING"
    BY <1>3 DEF Terminal
  <2>. QED
    BY <1>3, <2>1, Zenon DEF NextPrompt
<1>4. ASSUME ~Terminal(c.state), c.state # "GREETING", c.state # "CONFIRM"
      PROVE  NextPrompt(c) = PromptFor("ASK_FOR", Unmet(c))
  BY <1>4, Zenon DEF NextPrompt
<1>. QED
  BY <1>1, <1>2, <1>3, <1>4

LEMMA PromptForIs ==
  ASSUME NEW type \in {"ASK_FOR", "READ_BACK"}, NEW keys, keys \subseteq SlotKeys
  PROVE  \/ keys = {} /\ PromptFor(type, keys) = << >>
         \/ /\ keys # {}
            /\ \E e \in MachineEffect :
                 PromptFor(type, keys) = << e >> /\ e.type = type /\ e.about \in SlotKeys
<1>1. CASE keys = {}
  BY <1>1 DEF PromptFor
<1>2. CASE keys # {}
  <2> DEFINE e == Effect(type, FirstOf(keys))
  <2>1. FirstOf(keys) \in SlotKeys
    BY <1>2, FirstOfType
  <2>2. e \in MachineEffect /\ e.type = type /\ e.about \in SlotKeys
    BY <2>1 DEF Effect, MachineEffect
  <2>3. PromptFor(type, keys) = << e >>
    BY <1>2, Zenon DEF PromptFor
  <2>. QED
    BY <1>2, <2>2, <2>3
<1>. QED
  BY <1>1, <1>2

\* What is said next fits the call it is said in.
LEMMA PromptFits ==
  ASSUME NEW d \in Context
  PROVE  /\ OneEffect(NextPrompt(d), d)
         /\ PhaseOf(d) # "live" => NextPrompt(d) = << >>
<1>1. PendingConfirmations(d.slots) \subseteq SlotKeys /\ Unmet(d) \subseteq SlotKeys
  BY RequiredSlotsType DEF PendingConfirmations, Unmet, Context
<1>2. CASE Terminal(d.state)
  BY <1>2, NextPromptCases DEF OneEffect
<1>3. CASE d.state = "EMERGENCY"
  <2>1. Unmet(d) = {} /\ ~Terminal(d.state)
    BY <1>3, Required DEF Unmet, Terminal
  <2>2. NextPrompt(d) = PromptFor("ASK_FOR", {})
    BY <1>3, <2>1, NextPromptCases
  <2>. QED
    BY <2>2 DEF OneEffect, PromptFor
<1>4. CASE ~Terminal(d.state) /\ d.state # "EMERGENCY"
  <2>1. PhaseOf(d) = "live"
    BY <1>4 DEF PhaseOf
  <2>2. CASE d.state = "GREETING"
    <3> DEFINE e == Effect("GREET", "none")
    <3>1. NextPrompt(d) = << e >>
      BY <2>2, NextPromptCases
    <3>2. e \in MachineEffect /\ e.type = "GREET" /\ e.about = "none"
      BY DEF Effect, MachineEffect
    <3> HIDE DEF e
    <3>3. Fits(e, d)
      BY <2>1, <2>2, <3>1, <3>2 DEF Fits
    <3>. QED
      BY <2>1, <3>1, <3>2, <3>3 DEF OneEffect
  <2>3. CASE d.state # "GREETING"
    <3>1. \/ NextPrompt(d) = << >>
          \/ \E e \in MachineEffect :
               /\ NextPrompt(d) = << e >> /\ e.type \in {"ASK_FOR", "READ_BACK"}
               /\ e.about \in SlotKeys
      BY <1>1, <1>4, <2>3, NextPromptCases, PromptForIs
    <3>2. ASSUME NEW e \in MachineEffect, NextPrompt(d) = << e >>,
                 e.type \in {"ASK_FOR", "READ_BACK"}, e.about \in SlotKeys
          PROVE  Fits(e, d)
      BY <2>1, <2>3, <3>2 DEF Fits
    <3>. QED
      BY <2>1, <3>1, <3>2 DEF OneEffect
  <2>. QED
    BY <2>2, <2>3
<1>. QED
  BY <1>2, <1>3, <1>4

\* No dead air: a call at rest that has been told what its state supposes, and whose
\* validators refused nothing, has something to ask.
LEMMA SomethingToAsk ==
  ASSUME NEW d, Sound(d), ~CanLeave(d), Passed(d), ~NothingToAsk(d)
  PROVE  NextPrompt(d) # << >>
<1>1. d \in Context /\ d.state \in States /\ PhaseOf(d) = "live"
  BY DEF Sound, Context, NothingToAsk
<1>2. ~Terminal(d.state) /\ d.state # "EMERGENCY"
  BY <1>1 DEF PhaseOf, Terminal
<1>3. \A k \in SlotKeys : d.slots[k] # Empty => IsSatisfied(d.slots, k)
  BY DEF NothingToAsk, IsSatisfied
<1>4. CASE d.state = "GREETING"
  BY <1>4, NextPromptCases
<1>5. CASE d.state = "CONFIRM"
  <2>1. \A k \in SlotKeys : d.slots[k] # Empty
    BY <1>5, SixSlots DEF Passed
  <2>2. SlotsReady(d)
    BY <1>3, <1>5, <2>1, Required DEF SlotsReady
  <2>3. PendingConfirmations(d.slots) # {}
    BY <1>2, <1>5, <2>2 DEF CanLeave, Blocked
  <2>4. PendingConfirmations(d.slots) \subseteq SlotKeys
    BY DEF PendingConfirmations
  <2>. QED
    BY <1>5, <2>3, <2>4, NextPromptCases, PromptForIs
<1>6. CASE d.state \notin {"GREETING", "CONFIRM"}
  <2>1. ~SlotsReady(d)
    BY <1>2, <1>6 DEF CanLeave, Blocked
  <2>2. Unmet(d) # {} /\ Unmet(d) \subseteq SlotKeys
    BY <1>1, <2>1, RequiredSlotsType DEF SlotsReady, Unmet
  <2>. QED
    BY <1>2, <1>6, <2>2, NextPromptCases, PromptForIs
<1>. QED
  BY <1>4, <1>5, <1>6

\* advance() asks for something only when it ends the call.
LEMMA AdvanceEffectsFit ==
  ASSUME NEW d, Sound(d)
  PROVE  /\ OneEffect(AdvanceEffects(d), d)
         /\ d.outcome \notin {"BOOKED", "OUT_OF_SERVICE_AREA"} => AdvanceEffects(d) = << >>
         /\ AdvanceEffects(d) # << >> => Terminal(d.state)
<1>1. CASE d.outcome \notin {"BOOKED", "OUT_OF_SERVICE_AREA"}
  <2>1. AdvanceEffects(d) = << >>
    BY <1>1, Zenon DEF AdvanceEffects
  <2>. QED
    BY <2>1 DEF OneEffect
<1>2. CASE d.outcome \in {"BOOKED", "OUT_OF_SERVICE_AREA"}
  <2>1. Terminal(d.state) /\ PhaseOf(d) # "live"
    BY <1>2 DEF Sound, Ended, PhaseOf
  <2>2. CASE d.outcome = "BOOKED"
    <3> DEFINE e == Effect("CREATE_PENDING_BOOKING", "none")
    <3>1. AdvanceEffects(d) = << e >>
      BY <2>2, Zenon DEF AdvanceEffects
    <3>2. e \in MachineEffect /\ e.type = "CREATE_PENDING_BOOKING"
      BY DEF Effect, MachineEffect
    <3> HIDE DEF e
    <3>. QED
      BY <2>1, <2>2, <3>1, <3>2 DEF OneEffect, Fits
  <2>3. CASE d.outcome = "OUT_OF_SERVICE_AREA"
    <3> DEFINE e == Effect("ESCALATE", "OUT_OF_SERVICE_AREA")
    <3>1. AdvanceEffects(d) = << e >>
      BY <2>3, Zenon DEF AdvanceEffects
    <3>2. e \in MachineEffect /\ e.type = "ESCALATE" /\ e.about \in Reasons
      BY DEF Effect, MachineEffect, Reasons
    <3> HIDE DEF e
    <3>. QED
      BY <2>1, <2>3, <3>1, <3>2 DEF OneEffect, Fits
  <2>. QED
    BY <1>2, <2>1, <2>2, <2>3
<1>. QED
  BY <1>1, <1>2

LEMMA RestsStill ==
  ASSUME NEW d, ~CanLeave(d)
  PROVE  Advance(d) = d
<1>1. Step(d) = d
  BY StepCases
<1>. QED
  BY <1>1, Zenon DEF Advance

\* Everything a transition asks for is one thing.
LEMMA EffectsFit ==
  ASSUME NEW a, Sound(a.ctx), Asks(a), Sound(Advance(a.ctx))
  PROVE  LET d == Advance(a.ctx)
             e == a.effects \o AdvanceEffects(d) \o NextPrompt(d)
         IN  /\ OneEffect(e, d)
             /\ e = << >> => NextPrompt(d) = << >>
<1> DEFINE d == Advance(a.ctx)
           e == a.effects \o AdvanceEffects(d) \o NextPrompt(d)
<1>1. d \in Context
  BY DEF Sound
<1>2. CASE a.effects = << >>
  <2>1. \/ AdvanceEffects(d) = << >>
        \/ NextPrompt(d) = << >> /\ \E x \in MachineEffect : AdvanceEffects(d) = << x >>
    BY AdvanceEffectsFit, NextPromptCases DEF OneEffect
  <2>2. \/ NextPrompt(d) = << >>
        \/ \E x \in MachineEffect : NextPrompt(d) = << x >>
    BY <1>1, PromptFits DEF OneEffect
  <2>3. \/ e = NextPrompt(d)
        \/ e = AdvanceEffects(d) /\ NextPrompt(d) = << >>
    <3> DEFINE p == NextPrompt(d)
               q == AdvanceEffects(d)
    <3>1. /\ e = << >> \o q \o p
          /\ p = << >> \/ \E x \in MachineEffect : p = << x >>
          /\ q = << >> \/ (p = << >> /\ \E x \in MachineEffect : q = << x >>)
      BY <1>2, <2>1, <2>2
    <3> HIDE DEF p, q, e
    <3>2. p \in Seq(MachineEffect) /\ q \in Seq(MachineEffect)
      <4>1. << >> \in Seq(MachineEffect) /\ \A x \in MachineEffect : << x >> \in Seq(MachineEffect)
        OBVIOUS
      <4>. QED
        BY <3>1, <4>1, Zenon
    <3>3. e = q \o p
      BY <3>1, <3>2
    <3>4. q = << >> => e = p
      BY <3>2, <3>3
    <3>5. p = << >> => e = q
      BY <3>2, <3>3
    <3>. QED
      BY <3>1, <3>4, <3>5 DEF p, q
  <2> HIDE DEF e
  <2>. QED
    BY <1>1, <2>3, AdvanceEffectsFit, PromptFits DEF e
<1>3. CASE \E r \in Reasons : a.effects = << Effect("ESCALATE", r) >> /\ Yields(a.ctx, r)
  <2>1. PICK r \in Reasons : a.effects = << Effect("ESCALATE", r) >> /\ Yields(a.ctx, r)
    BY <1>3
  <2>2. d = a.ctx
    BY <2>1, RestsStill DEF Yields
  <2>3. /\ PhaseOf(d) # "live" /\ d.outcome # "BOOKED"
        /\ r # "EMERGENCY_HAZARD" => Terminal(d.state)
    BY <2>1, <2>2 DEF Yields, PhaseOf, Terminal
  <2>4. AdvanceEffects(d) = << >> /\ NextPrompt(d) = << >>
    BY <1>1, <2>1, <2>2, <2>3, AdvanceEffectsFit, PromptFits DEF Yields
  <2> DEFINE x == Effect("ESCALATE", r)
  <2>5. x \in MachineEffect /\ x.type = "ESCALATE" /\ x.about = r
    BY DEF Effect, MachineEffect
  <2>6. Fits(x, d)
    <3> HIDE DEF x, d
    <3>. QED
      BY <2>3, <2>5 DEF Fits
  <2>7. e = << x >>
    <3>1. e = << x >> \o << >> \o << >>
      BY <2>1, <2>4
    <3> HIDE DEF x, e
    <3>. QED
      BY <3>1
  <2>. QED
    BY <2>4, <2>5, <2>6, <2>7 DEF OneEffect
<1>. QED
  BY <1>2, <1>3 DEF Asks

LEMMA TransitionSound ==
  ASSUME NEW c, Sound(c), ~CanLeave(c),
         NEW a, ~Terminal(c.state) => GoodApplied(c, a)
  PROVE  LET t == Transition(c, a)
         IN  /\ Sound(t.ctx) /\ Evolves(c, t.ctx) /\ ~CanLeave(t.ctx)
             /\ Passed(c) => Passed(t.ctx)
             /\ OneEffect(t.effects, t.ctx)
             /\ t.effects = << >> => \/ NextPrompt(t.ctx) = << >>
                                     \/ t.rejected /\ NextPrompt(t.ctx) = NextPrompt(c)
             /\ t.effects # << >> => ~Terminal(c.state)
             /\ t.rejected \in BOOLEAN
             /\ ~Terminal(c.state) => t.rejected = a.rejected
             /\ ~t.rejected => ~Terminal(c.state) /\ ~a.rejected
             /\ IF Terminal(c.state) THEN t.ctx = c
                ELSE t.ctx.slots = a.ctx.slots /\ t.ctx.guided = a.ctx.guided
<1>1. CASE Terminal(c.state)
  <2>1. Transition(c, a) = Reject(c)
    BY <1>1 DEF Transition
  <2>2. Evolves(c, c)
    BY DEF Evolves
  <2>. QED
    BY <1>1, <2>1, <2>2 DEF Reject, OneEffect
<1>2. CASE ~Terminal(c.state) /\ a.rejected
  <2>1. Transition(c, a) = a
    BY <1>2 DEF Transition
  <2>2. GoodApplied(c, a) /\ Ignored(c, a)
    BY <1>2 DEF GoodApplied
  <2>3. NextPrompt(a.ctx) = NextPrompt(c)
    BY <2>2, Zenon DEF Ignored, NextPrompt, Unmet
  <2>4. Passed(c) => Passed(a.ctx)
    BY <2>2 DEF Ignored, Passed
  <2>. QED
    BY <1>2, <2>1, <2>2, <2>3, <2>4 DEF GoodApplied, Ignored, OneEffect
<1>3. CASE ~Terminal(c.state) /\ ~a.rejected
  <2> DEFINE d == Advance(a.ctx)
             e == a.effects \o AdvanceEffects(d) \o NextPrompt(d)
  <2>1. Transition(c, a) = [ctx |-> d, rejected |-> FALSE, effects |-> e]
    BY <1>3 DEF Transition
  <2>2. /\ Sound(d) /\ d.slots = a.ctx.slots /\ d.guided = a.ctx.guided
        /\ Evolves(a.ctx, d) /\ ~CanLeave(d)
        /\ Passed(a.ctx) => Passed(d)
    BY <1>3, AdvanceSound DEF GoodApplied
  <2>3. Evolves(c, d)
    BY <1>3, <2>2, EvolvesTransitive DEF GoodApplied
  <2>4. OneEffect(e, d) /\ (e = << >> => NextPrompt(d) = << >>)
    BY <1>3, <2>2, EffectsFit DEF GoodApplied
  <2>5. Passed(c) => Passed(a.ctx)
    BY <1>3, SixSlots DEF GoodApplied, NothingForgotten, Passed
  <2>6. a.rejected = FALSE
    BY <1>3 DEF GoodApplied
  <2> HIDE DEF d, e
  <2>7. Transition(c, a).rejected = a.rejected
    <3>1. Transition(c, a).rejected = FALSE
      BY <2>1
    <3>. QED
      BY <2>6, <3>1, Zenon
  <2>8. Transition(c, a).ctx = d /\ Transition(c, a).effects = e
    BY <2>1
  <2>. QED
    BY <1>3, <2>2, <2>3, <2>4, <2>5, <2>6, <2>7, <2>8
<1>. QED
  BY <1>1, <1>2, <1>3

-----------------------------------------------------------------------------
(* One lemma per event. *)

\* A context that differs only in its slots, flags or failures stays sound while live.
LEMMA LiveSound ==
  ASSUME NEW c, Sound(c), ~Terminal(c.state),
         NEW d \in Context, d.state = c.state, d.outcome = c.outcome,
         d.escalation = c.escalation, Failed(d), NothingForgotten(c.slots, d.slots)
  PROVE  GoodApplied(c, Accept(d))
<1>1. c.outcome = "none" /\ d.outcome # "BOOKED"
  BY DEF Sound, Ended
<1>2. Sound(d)
  BY <1>1 DEF Sound, Booked, Ended
<1>3. Evolves(c, d)
  BY DEF Evolves, PhaseOf, Terminal
<1>. QED
  BY <1>2, <1>3 DEF GoodApplied, Accept, Asks

LEMMA EscalateGood ==
  ASSUME NEW c, ~Terminal(c.state), NEW d \in Context, d.state = c.state,
         NothingForgotten(c.slots, d.slots),
         NEW r \in {"CALLER_REQUESTED_HUMAN", "REPEATED_EXTRACTION_FAILURE", "AGENT_ERROR"}
  PROVE  GoodApplied(c, Escalate(d, r))
<1> DEFINE e == EscalateNow(d, r)
<1>1. r \in Reasons /\ OutcomeFor[r] \in {"ESCALATED_OTHER", "AGENT_ERROR"}
  BY DEF Reasons, OutcomeFor
<1>2. /\ Sound(e) /\ e.state = "HANDOFF" /\ e.outcome = OutcomeFor[r]
      /\ e.slots = d.slots
  BY <1>1, EscalateSound DEF EscalateNow, Context
<1>3. PhaseOf(e) = "over"
  BY <1>2 DEF PhaseOf, Terminal
<1>4. PhaseOf(c) # "over"
  BY DEF PhaseOf
<1>5. Evolves(c, e)
  BY <1>1, <1>2, <1>3, <1>4 DEF Evolves, EndsOf
<1>6. Yields(e, r)
  BY <1>1, <1>2 DEF Yields, CanLeave, Terminal
<1> HIDE DEF e
<1>7. Escalate(d, r) = [ctx |-> e, effects |-> << Effect("ESCALATE", r) >>, rejected |-> FALSE]
  BY DEF Escalate, e
<1>. QED
  BY <1>1, <1>2, <1>5, <1>6, <1>7 DEF GoodApplied, Asks

LEMMA RejectGood ==
  ASSUME NEW c, Sound(c), ~CanLeave(c)
  PROVE  GoodApplied(c, Reject(c))
BY DEF GoodApplied, Reject, Evolves, Asks, Ignored, NothingForgotten

LEMMA GreetedGood ==
  ASSUME NEW c, Sound(c), ~Terminal(c.state)
  PROVE  GoodApplied(c, Greeted(c))
<1> DEFINE d == [c EXCEPT !.greeted = TRUE]
<1>1. /\ d \in Context /\ d.state = c.state /\ d.outcome = c.outcome
      /\ d.escalation = c.escalation /\ Failed(d) /\ NothingForgotten(c.slots, d.slots)
  BY DEF Sound, Context, Failed, NothingForgotten
<1> HIDE DEF d
<1>. QED
  BY <1>1, LiveSound DEF Greeted, d

LEMMA GuidanceGood ==
  ASSUME NEW c, Sound(c), ~Terminal(c.state)
  PROVE  GoodApplied(c, GuidanceDelivered(c))
<1> DEFINE d == [c EXCEPT !.guided = TRUE]
<1>1. /\ d \in Context /\ d.state = c.state /\ d.outcome = c.outcome
      /\ d.escalation = c.escalation /\ Failed(d) /\ NothingForgotten(c.slots, d.slots)
  BY DEF Sound, Context, Failed, NothingForgotten
<1> HIDE DEF d
<1>. QED
  BY <1>1, LiveSound DEF GuidanceDelivered, d

LEMMA HungUpGood ==
  ASSUME NEW c, Sound(c), ~Terminal(c.state)
  PROVE  GoodApplied(c, HungUp(c))
<1> DEFINE d == [c EXCEPT !.state = "CLOSE", !.outcome = "CALLER_HUNG_UP"]
<1>1. d \in Context /\ d.state = "CLOSE" /\ d.outcome = "CALLER_HUNG_UP" /\ d.slots = c.slots
  BY OutcomeTypes DEF Sound, Context, States
<1> HIDE DEF d
<1>2. Sound(d)
  BY <1>1 DEF Sound, Booked, Ended, Failed, Terminal
<1>3. Evolves(c, d)
  BY <1>1 DEF Evolves, PhaseOf, Terminal, EndsOf
<1>. QED
  BY <1>1, <1>2, <1>3 DEF GoodApplied, HungUp, Accept, d, Asks, NothingForgotten

LEMMA ConfirmedGood ==
  ASSUME NEW c, Sound(c), ~CanLeave(c), ~Terminal(c.state), NEW k \in SlotKeys
  PROVE  /\ GoodApplied(c, SlotConfirmed(c, k))
         /\ ~SlotConfirmed(c, k).rejected =>
              /\ c.slots[k] # Empty
              /\ SlotConfirmed(c, k).ctx.slots = [c.slots EXCEPT ![k].confirmed = TRUE]
         /\ SlotConfirmed(c, k).rejected => SlotConfirmed(c, k).ctx = c
         /\ SlotConfirmed(c, k).ctx.guided = c.guided
<1>1. CASE ~CanConfirm(c.slots, k)
  BY <1>1, RejectGood DEF SlotConfirmed, Reject
<1>2. CASE CanConfirm(c.slots, k)
  <2> DEFINE d == [c EXCEPT !.slots = Confirm(@, k)]
  <2>1. c \in Context /\ c.slots[k] \in Entry
    BY <1>2 DEF Sound, Context, Books, CanConfirm
  <2>2. Confirm(c.slots, k) \in Books
    BY <2>1 DEF Context, Books, Confirm, Entry
  <2>3. /\ d \in Context /\ d.state = c.state /\ d.outcome = c.outcome
        /\ d.escalation = c.escalation /\ Failed(d) /\ d.guided = c.guided
        /\ d.slots = [c.slots EXCEPT ![k].confirmed = TRUE]
    BY <2>1, <2>2 DEF Sound, Context, Failed, Confirm
  <2>4. SlotConfirmed(c, k) = Accept(d)
    BY <1>2 DEF SlotConfirmed
  <2> HIDE DEF d
  <2>6. NothingForgotten(c.slots, d.slots)
    <3>1. [c.slots[k] EXCEPT !.confirmed = TRUE] \in Entry
      BY <2>1 DEF Entry
    <3>2. c.slots \in [SlotKeys -> Entry \cup {Empty}]
      BY <2>1 DEF Context, Books
    <3>3. \A j \in SlotKeys : d.slots[j] = c.slots[j] \/ d.slots[j] \in Entry
      BY <2>3, <3>1, <3>2
    <3>. QED
      BY <3>3, SlotBookAssumption DEF NothingForgotten
  <2>5. GoodApplied(c, Accept(d))
    BY <2>3, <2>6, LiveSound
  <2>. QED
    BY <1>2, <2>3, <2>4, <2>5 DEF Accept, CanConfirm
<1>. QED
  BY <1>1, <1>2

LEMMA RetractedGood ==
  ASSUME NEW c, Sound(c), ~Terminal(c.state), NEW k \in SlotKeys
  PROVE  /\ GoodApplied(c, SlotRetracted(c, k))
         /\ SlotRetracted(c, k).ctx.slots = Unconfirm(c.slots, k)
         /\ SlotRetracted(c, k).ctx.guided = c.guided
<1> DEFINE d == [c EXCEPT !.slots = Unconfirm(@, k)]
<1>1. c \in Context
  BY DEF Sound
<1>2. Unconfirm(c.slots, k) \in Books
  BY <1>1 DEF Context, Books, Unconfirm, Entry
<1>3. /\ d \in Context /\ d.state = c.state /\ d.outcome = c.outcome
      /\ d.escalation = c.escalation /\ Failed(d) /\ d.guided = c.guided
      /\ d.slots = Unconfirm(c.slots, k)
  BY <1>1, <1>2 DEF Sound, Context, Failed
<1>5. NothingForgotten(c.slots, d.slots)
  BY <1>1, <1>2, <1>3, SlotBookAssumption DEF NothingForgotten, Context, Books, Entry, Unconfirm
<1> HIDE DEF d
<1>4. GoodApplied(c, Accept(d))
  BY <1>3, <1>5, LiveSound
<1>. QED
  BY <1>3, <1>4 DEF SlotRetracted, Accept, d

\* Whether a failure is counted or is one too many.
LEMMA RecordFailureGood ==
  ASSUME NEW c, Sound(c), ~CanLeave(c), ~Terminal(c.state), NEW k \in SlotKeys,
         NEW garbled \in BOOLEAN
  PROVE  LET a == RecordFailure(c, k, garbled)
         IN  GoodApplied(c, a) /\ a.ctx.slots = c.slots /\ a.ctx.guided = c.guided
<1> DEFINE d == [c EXCEPT !.failures[k] = @ + 1]
<1>1. /\ d \in Context /\ d.state = c.state /\ d.outcome = c.outcome
      /\ d.escalation = c.escalation /\ d.guided = c.guided /\ d.greeted = c.greeted
      /\ d.slots = c.slots
      /\ d.failures = [c.failures EXCEPT ![k] = @ + 1]
  BY DEF Sound, Context
<1>2. ~CanLeave(d)
  BY <1>1 DEF CanLeave, SlotsReady, Blocked
<1>3. d.failures[k] < FailureLimit => Failed(d)
  BY <1>1 DEF Failed, Sound, Context
<1>4. d.failures[k] \in Nat /\ FailureLimit \in Nat
  BY <1>1, CallMachineAssumption DEF Context
<1> HIDE DEF d
<1>7. NothingForgotten(c.slots, d.slots)
  BY <1>1 DEF NothingForgotten
<1>5. CASE d.failures[k] >= FailureLimit
  <2>1. RecordFailure(c, k, garbled) = Escalate(d, "REPEATED_EXTRACTION_FAILURE")
    BY <1>5, Zenon DEF RecordFailure, d
  <2>2. GoodApplied(c, Escalate(d, "REPEATED_EXTRACTION_FAILURE"))
    BY <1>1, <1>7, EscalateGood
  <2>3. /\ Escalate(d, "REPEATED_EXTRACTION_FAILURE").ctx.slots = d.slots
        /\ Escalate(d, "REPEATED_EXTRACTION_FAILURE").ctx.guided = d.guided
    BY <1>1 DEF Escalate, EscalateNow, Context
  <2>. QED
    BY <1>1, <2>1, <2>2, <2>3
<1>6. CASE d.failures[k] < FailureLimit
  <2>1. RecordFailure(c, k, garbled) =
          [ctx |-> d, effects |-> << >>, rejected |-> garbled]
    <3>1. ~(d.failures[k] >= FailureLimit)
      BY <1>4, <1>6
    <3>. QED
      BY <3>1, Zenon DEF RecordFailure, d
  <2>2. GoodApplied(c, Accept(d))
    BY <1>1, <1>3, <1>6, <1>7, LiveSound
  <2>. QED
    BY <1>1, <1>2, <2>1, <2>2 DEF GoodApplied, Accept, Asks, Ignored
<1>. QED
  BY <1>4, <1>5, <1>6

\* Every confirmation in `new` was already in `old`, for the same value.
Inherits(new, old) ==
  \A j \in SlotKeys :
    new[j] # Empty /\ new[j].confirmed =>
      old[j] # Empty /\ old[j].confirmed /\ old[j].value = new[j].value

\* A value heard starts over unless it is the value already held.
LEMMA FillKeepsAgreement ==
  ASSUME NEW book \in Books, NEW k \in SlotKeys, NEW r \in Reading, SchemaAccepts(r)
  PROVE  /\ Fill(book, k, r) \in Books
         /\ Inherits(Fill(book, k, r), book)
         /\ NothingForgotten(book, Fill(book, k, r))
<1>1. CASE book[k] # Empty /\ book[k].value = r.value
  <2> DEFINE e == HeardAgain(book[k], r)
  <2>1. Fill(book, k, r) = [book EXCEPT ![k] = e]
    BY <1>1, Zenon DEF Fill
  <2>2. book[k] \in Entry
    BY <1>1 DEF Books
  <2>3. (book[k].sure \/ r.sure) \in BOOLEAN /\ r.verdict \in Verdicts
    BY <2>2 DEF Entry, Reading
  <2>4. e \in Entry /\ e.confirmed = book[k].confirmed /\ e.value = book[k].value
    BY <2>2, <2>3 DEF Entry, HeardAgain
  <2> HIDE DEF e
  <2>. QED
    BY <1>1, <2>1, <2>2, <2>4, SlotBookAssumption DEF Books, Inherits, NothingForgotten
<1>2. CASE ~(book[k] # Empty /\ book[k].value = r.value)
  <2> DEFINE e == Fresh(r)
  <2>1. Fill(book, k, r) = [book EXCEPT ![k] = e]
    BY <1>2, Zenon DEF Fill
  <2>2. e \in Entry /\ e.confirmed = FALSE
    BY DEF Fresh, Entry, Reading, SchemaAccepts
  <2> HIDE DEF e
  <2>. QED
    BY <2>1, <2>2, SlotBookAssumption DEF Books, Inherits, NothingForgotten
<1>. QED
  BY <1>1, <1>2

LEMMA FilledGood ==
  ASSUME NEW c, Sound(c), ~CanLeave(c), ~Terminal(c.state), NEW k \in SlotKeys,
         NEW r \in Reading
  PROVE  LET a == SlotFilled(c, k, r)
         IN  /\ GoodApplied(c, a) /\ a.ctx.guided = c.guided
             /\ Inherits(a.ctx.slots, c.slots)
<1>1. CASE SchemaAccepts(r)
  <2> DEFINE d == [c EXCEPT !.slots = Fill(@, k, r), !.failures[k] = 0]
  <2>1. c \in Context /\ c.slots \in Books
    BY DEF Sound, Context
  <2>2. Fill(c.slots, k, r) \in Books
    BY <1>1, <2>1, FillKeepsAgreement
  <2>3. /\ d \in Context /\ d.state = c.state /\ d.outcome = c.outcome
        /\ d.escalation = c.escalation /\ d.guided = c.guided
        /\ d.slots = Fill(c.slots, k, r)
        /\ d.failures = [c.failures EXCEPT ![k] = 0]
    BY <2>1, <2>2 DEF Context
  <2> HIDE DEF d
  <2>4. Failed(d)
    BY <2>1, <2>3, CallMachineAssumption DEF Failed, Sound, Context
  <2>7. NothingForgotten(c.slots, d.slots)
    BY <1>1, <2>1, <2>3, FillKeepsAgreement
  <2>5. GoodApplied(c, Accept(d))
    BY <2>3, <2>4, <2>7, LiveSound
  <2>6. SlotFilled(c, k, r) = Accept(d)
    BY <1>1, Zenon DEF SlotFilled, d
  <2>. QED
    BY <1>1, <2>1, <2>3, <2>5, <2>6, FillKeepsAgreement DEF Accept
<1>2. CASE ~SchemaAccepts(r)
  <2>1. SlotFilled(c, k, r) = RecordFailure(c, k, TRUE)
    BY <1>2, Zenon DEF SlotFilled
  <2>2. /\ GoodApplied(c, RecordFailure(c, k, TRUE))
        /\ RecordFailure(c, k, TRUE).ctx.slots = c.slots
        /\ RecordFailure(c, k, TRUE).ctx.guided = c.guided
    BY RecordFailureGood
  <2>. QED
    BY <2>1, <2>2 DEF Inherits
<1>. QED
  BY <1>1, <1>2

\* A hazard holds a call in EMERGENCY until its guidance has been read.
LEMMA HazardSound ==
  ASSUME NEW c, Sound(c), ~CanLeave(c), Interruptible(c.state), ~c.guided
  PROVE  LET t == Transition(c, HazardDetected(c))
         IN  /\ Sound(t.ctx) /\ t.ctx.state = "EMERGENCY"
             /\ ~CanLeave(t.ctx) /\ t.ctx.slots = c.slots /\ ~t.ctx.guided
             /\ OneEffect(t.effects, t.ctx)
             /\ t.effects = << Effect("ESCALATE", "EMERGENCY_HAZARD") >>
             /\ t.rejected = FALSE
             /\ t.ctx.outcome = "none" /\ t.ctx.failures = c.failures
<1> DEFINE d == [c EXCEPT !.state = "EMERGENCY", !.escalation = "EMERGENCY_HAZARD"]
           a == HazardDetected(c)
<1>1. /\ d \in Context /\ d.state = "EMERGENCY" /\ d.escalation = "EMERGENCY_HAZARD"
      /\ d.outcome = c.outcome /\ d.failures = c.failures
      /\ d.slots = c.slots /\ d.guided = c.guided
  BY DEF Sound, Context, States, Reasons
<1>2. ~Terminal(c.state)
  BY DEF Interruptible
<1> HIDE DEF d
<1>3. a = [ctx |-> d, effects |-> << Effect("ESCALATE", "EMERGENCY_HAZARD") >>,
           rejected |-> FALSE]
  BY Zenon DEF HazardDetected, d
<1> HIDE DEF a
<1>4. Sound(d)
  BY <1>1, <1>2 DEF Sound, Booked, Ended, Failed, Terminal
<1>5. ~CanLeave(d)
  BY <1>1 DEF CanLeave, Blocked
<1>6. Step(d) = d
  BY <1>5, StepCases
<1>7. Advance(d) = d
  BY <1>6, Zenon DEF Advance
<1>8. Transition(c, a) = [ctx |-> d, rejected |-> FALSE,
                          effects |-> a.effects \o AdvanceEffects(d) \o NextPrompt(d)]
  BY <1>2, <1>3, <1>7 DEF Transition
<1>9. Yields(d, "EMERGENCY_HAZARD") /\ "EMERGENCY_HAZARD" \in Reasons
  BY <1>1, <1>2, <1>5 DEF Yields, Sound, Ended, Reasons
<1>10. Asks(a)
  BY <1>3, <1>9 DEF Asks
<1>11. OneEffect(a.effects \o AdvanceEffects(d) \o NextPrompt(d), d)
  BY <1>3, <1>4, <1>7, <1>10, EffectsFit
<1>12. AdvanceEffects(d) = << >> /\ NextPrompt(d) = << >>
  BY <1>1, <1>4, <1>9, AdvanceEffectsFit, PromptFits DEF Yields, PhaseOf, Terminal
<1>13. a.effects \o AdvanceEffects(d) \o NextPrompt(d) = a.effects
  <2> DEFINE x == Effect("ESCALATE", "EMERGENCY_HAZARD")
  <2>1. a.effects = << x >>
    BY <1>3
  <2> HIDE DEF x
  <2>. QED
    BY <1>12, <2>1
<1> DEFINE e == a.effects \o AdvanceEffects(d) \o NextPrompt(d)
<1>14. e = << Effect("ESCALATE", "EMERGENCY_HAZARD") >> /\ OneEffect(e, d)
  BY <1>3, <1>11, <1>13
<1>15. Transition(c, a) = [ctx |-> d, rejected |-> FALSE, effects |-> e]
  BY <1>8
<1> HIDE DEF e
<1>. QED
  BY <1>1, <1>2, <1>4, <1>5, <1>14, <1>15 DEF a, Sound, Ended

-----------------------------------------------------------------------------
(* A call at rest, as the runtime keeps one, and what an event does to it. *)

\* No validator's refusal is ever filed.
Clean(c) == \A k \in SlotKeys : c.slots[k] # Empty => c.slots[k].verdict # "invalid"

MachineFits(c) ==
  /\ Sound(c) /\ ~CanLeave(c) /\ Passed(c) /\ Clean(c)
  /\ c.guided => PhaseOf(c) # "live"

\* How the machine moves: as its phases allow, or into an emergency.
Goes(c, d) ==
  \/ Evolves(c, d)
  \/ PhaseOf(c) = "live" /\ PhaseOf(d) = "emergency"

\* Seen as CallLifecycle sees it, the machine stands still, is interrupted, or ends.
LEMMA GoesCases ==
  ASSUME NEW c, NEW d, Sound(c), Sound(d), Goes(c, d)
  PROVE  \/ PhaseOf(d) = PhaseOf(c) /\ d.outcome = c.outcome
         \/ PhaseOf(c) = "live" /\ PhaseOf(d) = "emergency" /\ d.outcome = c.outcome
         \/ PhaseOf(c) # "over" /\ PhaseOf(d) = "over" /\ d.outcome \in EndsOf(PhaseOf(c))
<1>1. ASSUME NEW e, Sound(e), PhaseOf(e) # "over"
      PROVE  e.outcome = "none"
  <2>1. ~Terminal(e.state)
    BY <1>1 DEF PhaseOf, Terminal
  <2>. QED
    BY <1>1, <2>1 DEF Sound, Ended
<1>. QED
  BY <1>1 DEF Goes, Evolves

LEMMA InitFits == MachineFits(initialContext)
<1>1. /\ initialContext \in Context /\ initialContext.state = "GREETING"
      /\ initialContext.outcome = "none" /\ ~initialContext.greeted /\ ~initialContext.guided
      /\ \A k \in SlotKeys : initialContext.slots[k] = Empty /\ initialContext.failures[k] = 0
  BY DEF initialContext, Context, States, Books, EmptyBook, Outcomes
<1>. QED
  BY <1>1, CallMachineAssumption
  DEF MachineFits, Sound, Booked, Ended, Failed, Terminal, CanLeave, Blocked, Passed, Clean

LEMMA DriveFits ==
  ASSUME NEW c, MachineFits(c),
         NEW a, ~Terminal(c.state) => /\ GoodApplied(c, a) /\ Clean(a.ctx)
                                      /\ a.ctx.guided => PhaseOf(c) # "live"
  PROVE  LET t == Transition(c, a)
         IN  /\ MachineFits(t.ctx) /\ Goes(c, t.ctx) /\ Evolves(c, t.ctx)
             /\ OneEffect(t.effects, t.ctx)
             /\ t.effects # << >> => ~Terminal(c.state)
             /\ IF Terminal(c.state) THEN t.ctx = c ELSE t.ctx.slots = a.ctx.slots
             /\ t.effects = << >> /\ PhaseOf(t.ctx) = "live" =>
                  a.rejected /\ NextPrompt(t.ctx) = NextPrompt(c) /\ t.ctx.slots = c.slots
<1> DEFINE t == Transition(c, a)
<1>1. /\ Sound(t.ctx) /\ Evolves(c, t.ctx) /\ ~CanLeave(t.ctx) /\ Passed(t.ctx)
      /\ OneEffect(t.effects, t.ctx)
      /\ t.effects = << >> => \/ NextPrompt(t.ctx) = << >>
                              \/ t.rejected /\ NextPrompt(t.ctx) = NextPrompt(c)
      /\ ~Terminal(c.state) => t.rejected = a.rejected
      /\ t.effects # << >> => ~Terminal(c.state)
      /\ IF Terminal(c.state) THEN t.ctx = c
         ELSE t.ctx.slots = a.ctx.slots /\ t.ctx.guided = a.ctx.guided
  BY TransitionSound DEF MachineFits
<1>2. Clean(t.ctx)
  BY <1>1 DEF MachineFits, Clean
<1>3. PhaseOf(c) # "live" => PhaseOf(t.ctx) # "live"
  BY <1>1 DEF Evolves
<1>4. t.ctx.guided => PhaseOf(t.ctx) # "live"
  BY <1>1, <1>3 DEF MachineFits
<1>5. ASSUME t.effects = << >>, PhaseOf(t.ctx) = "live"
      PROVE  a.rejected /\ NextPrompt(t.ctx) = NextPrompt(c) /\ t.ctx.slots = c.slots
  <2>1. ~NothingToAsk(t.ctx)
    BY <1>2, <1>5 DEF NothingToAsk, Clean
  <2>2. NextPrompt(t.ctx) # << >>
    BY <1>1, <2>1, SomethingToAsk
  <2>3. ~Terminal(c.state)
    BY <1>1, <1>5 DEF PhaseOf
  <2>4. a.rejected
    BY <1>1, <1>5, <2>2, <2>3
  <2>. QED
    BY <1>1, <1>5, <2>2, <2>3, <2>4 DEF GoodApplied, Ignored
<1> HIDE DEF t
<1>. QED
  BY <1>1, <1>2, <1>4, <1>5 DEF MachineFits, Goes, t

\* A hazard: ignored, or the call is in an emergency and its guidance is asked for.
LEMMA HazardFits ==
  ASSUME NEW c, MachineFits(c)
  PROVE  LET t == Transition(c, HazardDetected(c))
         IN  /\ MachineFits(t.ctx) /\ Goes(c, t.ctx)
             /\ OneEffect(t.effects, t.ctx)
             /\ t.effects # << >> => ~Terminal(c.state)
             /\ t.ctx.slots = c.slots /\ PhaseOf(t.ctx) # "live"
             /\ \/ t.ctx = c
                \/ /\ t.ctx.state = "EMERGENCY" /\ PhaseOf(c) = "live"
                   /\ t.effects = << Effect("ESCALATE", "EMERGENCY_HAZARD") >>
<1> DEFINE t == Transition(c, HazardDetected(c))
<1>1. c \in Context /\ c.state \in States
  BY DEF MachineFits, Sound, Context
<1>2. CASE Interruptible(c.state)
  <2>1. PhaseOf(c) = "live" /\ ~Terminal(c.state)
    BY <1>2 DEF Interruptible, PhaseOf
  <2>2. /\ Sound(t.ctx) /\ t.ctx.state = "EMERGENCY"
        /\ ~CanLeave(t.ctx) /\ t.ctx.slots = c.slots /\ ~t.ctx.guided
        /\ OneEffect(t.effects, t.ctx)
        /\ t.effects = << Effect("ESCALATE", "EMERGENCY_HAZARD") >>
    BY <1>2, <2>1, HazardSound DEF MachineFits
  <2>3. PhaseOf(t.ctx) = "emergency"
    BY <2>2 DEF PhaseOf, Terminal
  <2>4. Passed(t.ctx) /\ Clean(t.ctx)
    BY <2>2 DEF Passed, Clean, MachineFits
  <2> HIDE DEF t
  <2>. QED
    BY <2>1, <2>2, <2>3, <2>4 DEF MachineFits, Goes, t
<1>3. CASE ~Interruptible(c.state)
  <2>1. HazardDetected(c) = Reject(c)
    BY <1>3, Zenon DEF HazardDetected
  <2>4. Reject(c).rejected = TRUE
    BY DEF Reject
  <2>2. t = Reject(c)
    BY <2>1, <2>4, Zenon DEF Transition
  <2>3. t.ctx = c /\ t.effects = << >>
    BY <2>2 DEF Reject
  <2>5. PhaseOf(c) # "live"
    BY <1>1, <1>3, PhaseCases DEF Interruptible, Terminal
  <2> HIDE DEF t
  <2>. QED
    BY <2>3, <2>5 DEF MachineFits, Goes, Evolves, OneEffect, t
<1>. QED
  BY <1>2, <1>3

\* The guidance, once read, ends an emergency.
LEMMA GuidanceEnds ==
  ASSUME NEW c, MachineFits(c), PhaseOf(c) # "live"
  PROVE  LET t == Transition(c, GuidanceDelivered(c))
         IN  /\ MachineFits(t.ctx) /\ Goes(c, t.ctx) /\ Terminal(t.ctx.state)
             /\ t.ctx.slots = c.slots
<1> DEFINE a == GuidanceDelivered(c)
           t == Transition(c, a)
<1>1. c \in Context /\ c.state \in States
  BY DEF MachineFits, Sound, Context
<1>2. a.ctx.guided = TRUE /\ a.ctx.slots = c.slots
  BY <1>1 DEF GuidanceDelivered, Accept, Context
<1>3. Clean(a.ctx)
  BY <1>2 DEF MachineFits, Clean
<1>4. ~Terminal(c.state) => GoodApplied(c, a)
  BY GuidanceGood DEF MachineFits
<1> HIDE DEF a
<1>5. MachineFits(t.ctx) /\ Goes(c, t.ctx)
  BY <1>3, <1>4, DriveFits
<1>6. IF Terminal(c.state) THEN t.ctx = c
      ELSE t.ctx.slots = a.ctx.slots /\ t.ctx.guided = a.ctx.guided
  BY <1>4, TransitionSound DEF MachineFits
<1>7. ASSUME ~Terminal(c.state) PROVE Terminal(t.ctx.state)
  <2>1. PhaseOf(c) = "emergency"
    BY <1>1, <1>7, PhaseCases DEF Terminal
  <2>2. PhaseOf(t.ctx) \in {"emergency", "over"} /\ t.ctx.state \in States
    BY <1>5, <2>1 DEF Goes, Evolves, MachineFits, Sound, Context
  <2>3. t.ctx.guided
    BY <1>2, <1>6, <1>7
  <2>4. t.ctx.state # "EMERGENCY"
    BY <1>5, <2>3, Required DEF MachineFits, CanLeave, Blocked, SlotsReady, Terminal
  <2>. QED
    BY <2>2, <2>4, PhaseCases DEF Terminal
<1>. QED
  BY <1>2, <1>5, <1>6, <1>7 DEF a

\* A hang-up ends the call there and then.
LEMMA HangUpEnds ==
  ASSUME NEW c, MachineFits(c)
  PROVE  LET t == Transition(c, HungUp(c))
         IN  /\ MachineFits(t.ctx) /\ Goes(c, t.ctx) /\ Terminal(t.ctx.state)
             /\ t.ctx.slots = c.slots
<1> DEFINE a == HungUp(c)
           t == Transition(c, a)
<1>1. c \in Context
  BY DEF MachineFits, Sound
<1>2. /\ a.ctx.slots = c.slots /\ a.ctx.guided = c.guided /\ a.ctx.state = "CLOSE"
      /\ a.rejected = FALSE
  BY <1>1 DEF HungUp, Accept, Context
<1>3. Clean(a.ctx) /\ (a.ctx.guided => PhaseOf(c) # "live")
  BY <1>2 DEF MachineFits, Clean
<1>4. ~Terminal(c.state) => GoodApplied(c, a)
  BY HungUpGood DEF MachineFits
<1> HIDE DEF a
<1>5. MachineFits(t.ctx) /\ Goes(c, t.ctx)
  BY <1>3, <1>4, DriveFits
<1>6. IF Terminal(c.state) THEN t.ctx = c ELSE t.ctx.slots = a.ctx.slots
  BY <1>4, TransitionSound DEF MachineFits
<1>7. ASSUME ~Terminal(c.state) PROVE Terminal(t.ctx.state)
  <2>1. ~CanLeave(a.ctx)
    BY <1>2 DEF CanLeave, Terminal
  <2>2. Advance(a.ctx) = a.ctx
    BY <2>1, RestsStill
  <2>3. t.ctx = a.ctx
    BY <1>2, <1>7, <2>2 DEF Transition
  <2>. QED
    BY <1>2, <2>3 DEF Terminal
<1>. QED
  BY <1>2, <1>5, <1>6, <1>7 DEF a

\* So does a request for a human, or an outage.
LEMMA EscalateEnds ==
  ASSUME NEW c, MachineFits(c), NEW r \in {"CALLER_REQUESTED_HUMAN", "AGENT_ERROR"}
  PROVE  Terminal(Transition(c, Escalate(c, r)).ctx.state)
<1> DEFINE a == Escalate(c, r)
           t == Transition(c, a)
<1>1. a.ctx.state = "HANDOFF" /\ a.rejected = FALSE
  <2>1. EscalateNow(c, r).state = "HANDOFF"
    BY DEF EscalateNow, MachineFits, Sound, Context
  <2>. QED
    BY <2>1 DEF Escalate
<1>2. Advance(a.ctx) = a.ctx
  BY <1>1, RestsStill DEF CanLeave, Terminal
<1> HIDE DEF a
<1>3. ASSUME Terminal(c.state) PROVE Terminal(t.ctx.state)
  BY <1>3 DEF Transition, Reject
<1>4. ASSUME ~Terminal(c.state) PROVE Terminal(t.ctx.state)
  <2>1. ~a.rejected
    BY <1>1
  <2>2. t = [ctx |-> Advance(a.ctx), rejected |-> FALSE,
             effects |-> a.effects \o AdvanceEffects(Advance(a.ctx)) \o NextPrompt(Advance(a.ctx))]
    BY <1>4, <2>1, Zenon DEF Transition
  <2>3. t.ctx = Advance(a.ctx)
    BY <2>2
  <2> HIDE DEF t
  <2>. QED
    BY <1>1, <1>2, <2>3 DEF Terminal
<1>. QED
  BY <1>3, <1>4 DEF a

\* The context an event leaves is clean, and no event but the guidance marks it guided.
Sendable(c, a) ==
  ~Terminal(c.state) => /\ GoodApplied(c, a) /\ Clean(a.ctx)
                        /\ a.ctx.guided => PhaseOf(c) # "live"

LEMMA GreetedSendable ==
  ASSUME NEW c, MachineFits(c)
  PROVE  Sendable(c, Greeted(c)) /\ Greeted(c).ctx.slots = c.slots
<1>1. Greeted(c).ctx.slots = c.slots /\ Greeted(c).ctx.guided = c.guided
  BY DEF Greeted, Accept, MachineFits, Sound, Context
<1>. QED
  BY <1>1, GreetedGood DEF Sendable, MachineFits, Clean

LEMMA EscalateSendable ==
  ASSUME NEW c, MachineFits(c), NEW r \in {"CALLER_REQUESTED_HUMAN", "AGENT_ERROR"}
  PROVE  Sendable(c, Escalate(c, r)) /\ Escalate(c, r).ctx.slots = c.slots
<1>1. Escalate(c, r).ctx.slots = c.slots /\ Escalate(c, r).ctx.guided = c.guided
  BY DEF Escalate, EscalateNow, MachineFits, Sound, Context
<1>2. ~Terminal(c.state) => GoodApplied(c, Escalate(c, r))
  BY EscalateGood DEF MachineFits, Sound, NothingForgotten
<1>. QED
  BY <1>1, <1>2 DEF Sendable, MachineFits, Clean

LEMMA FailedSendable ==
  ASSUME NEW c, MachineFits(c), NEW k \in SlotKeys
  PROVE  /\ Sendable(c, ExtractionFailed(c, k))
         /\ ~Terminal(c.state) => ExtractionFailed(c, k).ctx.slots = c.slots
<1>1. ~Terminal(c.state) =>
        /\ GoodApplied(c, ExtractionFailed(c, k))
        /\ ExtractionFailed(c, k).ctx.slots = c.slots
        /\ ExtractionFailed(c, k).ctx.guided = c.guided
  BY RecordFailureGood DEF MachineFits, ExtractionFailed
<1>. QED
  BY <1>1 DEF Sendable, MachineFits, Clean

LEMMA ConfirmedSendable ==
  ASSUME NEW c, MachineFits(c), NEW k \in SlotKeys
  PROVE  /\ Sendable(c, SlotConfirmed(c, k))
         /\ ~Terminal(c.state) =>
              \/ SlotConfirmed(c, k).ctx.slots = c.slots
              \/ /\ SlotConfirmed(c, k).ctx.slots = [c.slots EXCEPT ![k].confirmed = TRUE]
                 /\ c.slots[k] # Empty
<1>1. SUFFICES ASSUME ~Terminal(c.state)
               PROVE  /\ Sendable(c, SlotConfirmed(c, k))
                      /\ \/ SlotConfirmed(c, k).ctx.slots = c.slots
                         \/ /\ SlotConfirmed(c, k).ctx.slots = [c.slots EXCEPT ![k].confirmed = TRUE]
                            /\ c.slots[k] # Empty
  BY DEF Sendable
<1> DEFINE a == SlotConfirmed(c, k)
<1>2. /\ GoodApplied(c, a)
      /\ ~a.rejected => /\ c.slots[k] # Empty
                        /\ a.ctx.slots = [c.slots EXCEPT ![k].confirmed = TRUE]
      /\ a.rejected => a.ctx = c
      /\ a.ctx.guided = c.guided
  BY <1>1, ConfirmedGood DEF MachineFits
<1> HIDE DEF a
<1>3. c.slots \in [SlotKeys -> Entry \cup {Empty}]
  BY DEF MachineFits, Sound, Context, Books
<1>4. Clean(a.ctx)
  <2>1. CASE a.rejected
    BY <1>2, <2>1 DEF MachineFits
  <2>2. CASE ~a.rejected
    <3>1. c.slots[k] \in Entry /\ c.slots[k].verdict # "invalid"
      BY <1>2, <1>3, <2>2 DEF MachineFits, Clean
    <3>2. [c.slots[k] EXCEPT !.confirmed = TRUE].verdict = c.slots[k].verdict
      BY <3>1 DEF Entry
    <3>3. \A j \in SlotKeys : a.ctx.slots[j] =
            IF j = k THEN [c.slots[k] EXCEPT !.confirmed = TRUE] ELSE c.slots[j]
      BY <1>2, <1>3, <2>2
    <3>. QED
      BY <3>1, <3>2, <3>3 DEF MachineFits, Clean
  <2>. QED
    BY <2>1, <2>2
<1>. QED
  BY <1>1, <1>2, <1>4 DEF Sendable, MachineFits, a

LEMMA FilledSendable ==
  ASSUME NEW c, MachineFits(c), NEW k \in SlotKeys, NEW r \in Reading,
         r.verdict # "invalid"
  PROVE  LET a == SlotFilled(c, k, r)
         IN  /\ Sendable(c, a)
             /\ ~Terminal(c.state) =>
                  /\ Inherits(a.ctx.slots, c.slots)
                  /\ a.ctx.slots \in {c.slots, Fill(c.slots, k, r)}
<1>1. SUFFICES ASSUME ~Terminal(c.state)
               PROVE  LET a == SlotFilled(c, k, r)
                      IN  /\ Sendable(c, a)
                          /\ Inherits(a.ctx.slots, c.slots)
                          /\ a.ctx.slots \in {c.slots, Fill(c.slots, k, r)}
  BY DEF Sendable
<1> DEFINE a == SlotFilled(c, k, r)
<1>2. GoodApplied(c, a) /\ a.ctx.guided = c.guided /\ Inherits(a.ctx.slots, c.slots)
  BY <1>1, FilledGood DEF MachineFits
<1>3. c \in Context /\ c.slots \in [SlotKeys -> Entry \cup {Empty}]
  BY DEF MachineFits, Sound, Context, Books
<1>4. Clean(a.ctx) /\ a.ctx.slots \in {c.slots, Fill(c.slots, k, r)}
  <2>1. CASE SchemaAccepts(r)
    <3> DEFINE d == [c EXCEPT !.slots = Fill(@, k, r), !.failures[k] = 0]
    <3>1. d.slots = Fill(c.slots, k, r)
      BY <1>3 DEF Context
    <3>2. a = Accept(d)
      BY <2>1, Zenon DEF SlotFilled
    <3> HIDE DEF d
    <3>3. a.ctx.slots = Fill(c.slots, k, r)
      BY <3>1, <3>2 DEF Accept
    <3> DEFINE e == IF c.slots[k] # Empty /\ c.slots[k].value = r.value
                    THEN HeardAgain(c.slots[k], r) ELSE Fresh(r)
    <3>4. Fill(c.slots, k, r) = [c.slots EXCEPT ![k] = e]
      BY DEF Fill
    <3>5. e.verdict = r.verdict
      <4>1. c.slots[k] # Empty => HeardAgain(c.slots[k], r).verdict = r.verdict
        BY <1>3 DEF HeardAgain, Entry
      <4>2. Fresh(r).verdict = r.verdict
        BY DEF Fresh
      <4>. QED
        BY <4>1, <4>2
    <3> HIDE DEF a, e
    <3>. QED
      BY <1>3, <3>3, <3>4, <3>5 DEF MachineFits, Clean
  <2>2. CASE ~SchemaAccepts(r)
    <3>1. a = RecordFailure(c, k, TRUE)
      BY <2>2, Zenon DEF SlotFilled
    <3>2. RecordFailure(c, k, TRUE).ctx.slots = c.slots
      BY <1>1, RecordFailureGood DEF MachineFits
    <3>. QED
      BY <3>1, <3>2 DEF MachineFits, Clean
  <2>. QED
    BY <2>1, <2>2
<1>. QED
  BY <1>1, <1>2, <1>4 DEF Sendable, MachineFits

-----------------------------------------------------------------------------
(* What advance() leaves alone, and that it ends no call in silence. *)

Carries(c, d) ==
  /\ d.failures = c.failures /\ d.greeted = c.greeted
  /\ d.escalation \in {c.escalation, "OUT_OF_SERVICE_AREA"}
  /\ d.outcome \in {c.outcome, "BOOKED", "OUT_OF_SERVICE_AREA", "ESCALATED_EMERGENCY"}
  /\ c.state # "GREETING" => d.state # "GREETING"

LEMMA StepCarries ==
  ASSUME NEW c \in Context
  PROVE  Carries(c, Step(c))
<1>1. c.state \in States
  BY DEF Context
<1>2. CASE ~CanLeave(c)
  BY <1>2, StepCases DEF Carries
<1>3. CASE CanLeave(c) /\ OutsideServiceArea(c)
  <2> DEFINE d == EscalateNow(c, "OUT_OF_SERVICE_AREA")
  <2>1. Step(c) = d
    BY <1>3, StepCases
  <2>2. /\ d.failures = c.failures /\ d.greeted = c.greeted /\ d.state = "HANDOFF"
        /\ d.escalation = "OUT_OF_SERVICE_AREA" /\ d.outcome = "OUT_OF_SERVICE_AREA"
    BY OutcomeTypes DEF EscalateNow, Context
  <2> HIDE DEF d
  <2>. QED
    BY <2>1, <2>2 DEF Carries
<1>4. CASE CanLeave(c) /\ ~OutsideServiceArea(c)
  <2>1. /\ Step(c).failures = c.failures /\ Step(c).greeted = c.greeted
        /\ Step(c).escalation = c.escalation
        /\ Step(c).outcome = OutcomeLeaving(c) /\ Step(c).state = NextState[c.state]
    BY <1>4, StepCases DEF Leave, Context
  <2>2. OutcomeLeaving(c) \in {c.outcome, "BOOKED", "ESCALATED_EMERGENCY"}
    BY Zenon DEF OutcomeLeaving
  <2>3. c.state # "GREETING" => NextState[c.state] # "GREETING"
    BY <1>1 DEF NextState, States
  <2>. QED
    BY <2>1, <2>2, <2>3 DEF Carries
<1>. QED
  BY <1>2, <1>3, <1>4

LEMMA AdvanceCarries ==
  ASSUME NEW c, Sound(c)
  PROVE  Carries(c, Advance(c))
<1> DEFINE Kept(d) == Sound(d) /\ Carries(c, d)
<1>1. ASSUME NEW d, Kept(d) PROVE Kept(Step(d))
  <2>1. Sound(Step(d)) /\ Carries(d, Step(d))
    BY <1>1, StepSound, StepCarries DEF Sound
  <2>. QED
    BY <1>1, <2>1 DEF Carries
<1>2. Kept(c)
  BY DEF Carries
<1> HIDE DEF Kept
<1>3. Kept(Step(Step(Step(c))))
  BY <1>1, <1>2
<1>4. Kept(Advance(c))
  BY <1>1, <1>3 DEF Advance
<1>. QED
  BY <1>4 DEF Kept

LEMMA TransitionCarries ==
  ASSUME NEW c, ~Terminal(c.state), NEW a, GoodApplied(c, a)
  PROVE  Carries(a.ctx, Transition(c, a).ctx)
<1>1. CASE a.rejected
  BY <1>1 DEF Transition, Carries
<1>2. CASE ~a.rejected
  <2>1. Carries(a.ctx, Advance(a.ctx))
    BY AdvanceCarries DEF GoodApplied
  <2>2. Transition(c, a).ctx = Advance(a.ctx)
    BY <1>2 DEF Transition
  <2>. QED
    BY <2>1, <2>2
<1>. QED
  BY <1>1, <1>2

\* A live call that ends says so: an event that does not end it itself, or that asks to
\* escalate, leaves an effect to perform.
LEMMA NoSilentEnding ==
  ASSUME NEW c, Sound(c), ~CanLeave(c), PhaseOf(c) = "live",
         NEW a, GoodApplied(c, a), a.effects # << >> \/ PhaseOf(a.ctx) = "live",
         Transition(c, a).effects = << >>
  PROVE  PhaseOf(Transition(c, a).ctx) = "live"
<1>1. ~Terminal(c.state)
  BY DEF PhaseOf
<1>2. CASE a.rejected
  <2>1. Transition(c, a) = a /\ a.ctx.state = c.state
    BY <1>1, <1>2 DEF Transition, GoodApplied, Ignored
  <2>. QED
    BY <2>1, Zenon DEF PhaseOf
<1>3. CASE ~a.rejected
  <2> DEFINE d == Advance(a.ctx)
             p == NextPrompt(d)
             q == AdvanceEffects(d)
  <2>1. Sound(a.ctx) /\ Sound(d) /\ Evolves(a.ctx, d) /\ Carries(a.ctx, d) /\ Asks(a)
    BY AdvanceSound, AdvanceCarries DEF GoodApplied
  <2>2. Transition(c, a).ctx = d /\ a.effects \o q \o p = << >>
    BY <1>1, <1>3 DEF Transition
  <2>3. OneEffect(q, d) /\ OneEffect(p, d)
    BY <2>1, AdvanceEffectsFit, PromptFits DEF Sound
  <2> DEFINE All == MachineEffect \cup {Effect("ESCALATE", r) : r \in Reasons}
             r == a.effects
  <2>4. q \in Seq(All) /\ p \in Seq(All) /\ r \in Seq(All)
    <3>1. << >> \in Seq(All) /\ \A x \in All : << x >> \in Seq(All)
      OBVIOUS
    <3> HIDE DEF p, q
    <3>2. q \in Seq(All) /\ p \in Seq(All)
      BY <2>3, <3>1 DEF OneEffect
    <3>3. r = << >> \/ \E x \in All : r = << x >>
      BY <2>1 DEF Asks
    <3>. QED
      BY <3>1, <3>2, <3>3
  <2>5. q = << >> /\ r = << >>
    <3> HIDE DEF p, q, r, All
    <3>1. r \o q \o p = << >>
      BY <2>2 DEF r
    <3>2. Len(r \o q \o p) = Len(r) + Len(q) + Len(p)
      BY <2>4
    <3>3. Len(r) = 0 /\ Len(q) = 0
      BY <2>4, <3>1, <3>2
    <3>. QED
      BY <2>4, <3>3
  <2>6. PhaseOf(a.ctx) = "live" /\ a.ctx.outcome = "none"
    <3>1. PhaseOf(a.ctx) = "live"
      BY <2>5
    <3>2. ~Terminal(a.ctx.state)
      BY <3>1 DEF PhaseOf
    <3>. QED
      BY <2>1, <3>1, <3>2 DEF Sound, Ended
  <2>7. ASSUME PhaseOf(d) # "live" PROVE FALSE
    <3>1. PhaseOf(d) = "over" /\ d.outcome \in EndsOf("live")
      BY <2>1, <2>6, <2>7 DEF Evolves
    <3>2. d.outcome # "none"
      BY <2>1, <3>1, PhaseCases DEF Sound, Ended, Terminal, Context
    <3>3. d.outcome \in {"BOOKED", "OUT_OF_SERVICE_AREA"}
      BY <2>1, <2>6, <3>1, <3>2 DEF Carries, EndsOf
    <3>4. q # << >>
      <4>1. d.outcome = "BOOKED" => q = << Effect("CREATE_PENDING_BOOKING", "none") >>
        BY Zenon DEF AdvanceEffects
      <4>2. d.outcome = "OUT_OF_SERVICE_AREA" => q = << Effect("ESCALATE", "OUT_OF_SERVICE_AREA") >>
        BY Zenon DEF AdvanceEffects
      <4>. QED
        BY <3>3, <4>1, <4>2
    <3>. QED
      BY <2>5, <3>4
  <2>. QED
    BY <2>2, <2>7
<1>. QED
  BY <1>2, <1>3 DEF GoodApplied

=============================================================================
