----------------------------- MODULE CallMachine -----------------------------
(***************************************************************************)
(* The pure transition function of conversation/src/machine.ts, over the   *)
(* state table of contracts/src/states.ts.                                 *)
(*                                                                         *)
(* Each event is an operator that returns what applyEvent returns: the     *)
(* context, the effects and whether the event was rejected.  Transition    *)
(* then advances the call and appends the next prompt, as the code does.   *)
(***************************************************************************)
EXTENDS SlotBook

CONSTANTS
  OutOfArea,      \* the addresses the tenant's service-area guard escalates
  FailureLimit    \* maxExtractionFailures

ASSUME CallMachineAssumption ==
  OutOfArea \subseteq Values /\ FailureLimit \in Nat \ {0}

States == {"GREETING", "IDENTIFY", "TRIAGE", "QUALIFY", "SCHEDULE", "CONFIRM",
           "CLOSE", "EMERGENCY", "HANDOFF"}

Terminal(s) == s \in {"CLOSE", "HANDOFF"}

\* How far a call has come, as CallLifecycle sees it.
PhaseOf(c) == CASE Terminal(c.state)     -> "over"
                [] c.state = "EMERGENCY" -> "emergency"
                [] OTHER                 -> "live"

Interruptible(s) == ~Terminal(s) /\ s # "EMERGENCY"

RequiredSlots ==
  [s \in States |->
     CASE s = "IDENTIFY" -> {"caller_name", "callback_phone"}
       [] s = "TRIAGE"   -> {"problem_description", "urgency"}
       [] s = "QUALIFY"  -> {"service_address"}
       [] s = "SCHEDULE" -> {"appointment_window"}
       [] s = "CONFIRM"  -> SlotKeys
       [] OTHER          -> {}]

NextState ==
  [s \in States |->
     CASE s = "GREETING"  -> "IDENTIFY"
       [] s = "IDENTIFY"  -> "TRIAGE"
       [] s = "TRIAGE"    -> "QUALIFY"
       [] s = "QUALIFY"   -> "SCHEDULE"
       [] s = "SCHEDULE"  -> "CONFIRM"
       [] s = "CONFIRM"   -> "CLOSE"
       [] s = "EMERGENCY" -> "HANDOFF"
       [] OTHER           -> s]

Reasons == {"EMERGENCY_HAZARD", "OUT_OF_SERVICE_AREA", "CALLER_REQUESTED_HUMAN",
            "REPEATED_EXTRACTION_FAILURE", "AGENT_ERROR"}

OutcomeFor ==
  [r \in Reasons |->
     CASE r = "EMERGENCY_HAZARD"    -> "ESCALATED_EMERGENCY"
       [] r = "OUT_OF_SERVICE_AREA" -> "OUT_OF_SERVICE_AREA"
       [] r = "AGENT_ERROR"         -> "AGENT_ERROR"
       [] OTHER                     -> "ESCALATED_OTHER"]

Outcomes == {OutcomeFor[r] : r \in Reasons} \cup {"BOOKED", "CALLER_HUNG_UP", "none"}

Context ==
  [state : States, slots : Books, outcome : Outcomes, escalation : Reasons \cup {"none"},
   greeted : BOOLEAN, guided : BOOLEAN, failures : [SlotKeys -> Nat]]

initialContext ==
  [state |-> "GREETING", slots |-> EmptyBook, outcome |-> "none", escalation |-> "none",
   greeted |-> FALSE, guided |-> FALSE, failures |-> [k \in SlotKeys |-> 0]]

\* An effect is what the machine asks the runtime to perform, and about what.
Effect(type, about) == [type |-> type, about |-> about]

MachineEffect ==
  [type : {"GREET", "ASK_FOR", "READ_BACK", "ESCALATE", "CREATE_PENDING_BOOKING"},
   about : SlotKeys \cup Reasons \cup {"none"}]

-----------------------------------------------------------------------------
(* advance() *)

\* Mutant of EscalateNow: the outcome is forgotten.
EscalateWithoutOutcome(c, reason) == [c EXCEPT !.state = "HANDOFF", !.escalation = reason]

EscalateNow(c, reason) ==
  [c EXCEPT !.state = "HANDOFF", !.outcome = OutcomeFor[reason], !.escalation = reason]

\* Mutant of SlotsReady: one of a state's slots will do.
SlotsReadyIfAny(c) ==
  RequiredSlots[c.state] = {} \/ \E k \in RequiredSlots[c.state] : IsSatisfied(c.slots, k)

SlotsReady(c) == \A k \in RequiredSlots[c.state] : IsSatisfied(c.slots, k)

\* The guards that hold a call where it is.
Blocked(c) ==
  \/ c.state = "GREETING" /\ ~c.greeted
  \/ c.state = "EMERGENCY" /\ ~c.guided
  \/ c.state = "CONFIRM" /\ PendingConfirmations(c.slots) # {}

\* The guard that ends the happy path instead.
OutsideServiceArea(c) ==
  /\ c.state = "QUALIFY"
  /\ c.slots["service_address"] # Empty
  /\ c.slots["service_address"].value \in OutOfArea

\* Leaving CONFIRM books the call; leaving EMERGENCY hands it off as one.
OutcomeLeaving(c) ==
  CASE c.state = "CONFIRM"   -> "BOOKED"
    [] c.state = "EMERGENCY" -> "ESCALATED_EMERGENCY"
    [] OTHER                 -> c.outcome

CanLeave(c) == ~Terminal(c.state) /\ SlotsReady(c) /\ ~Blocked(c)

Leave(c) == [c EXCEPT !.state = NextState[c.state], !.outcome = OutcomeLeaving(c)]

\* One turn of advance()'s loop; a call that cannot move is returned as it is.
Step(c) ==
  IF ~CanLeave(c) THEN c
  ELSE IF OutsideServiceArea(c) THEN EscalateNow(c, "OUT_OF_SERVICE_AREA")
  ELSE Leave(c)

\* Mutant of Advance: one edge per event.
AdvanceOnce(c) == Step(c)

\* The longest walk, GREETING to CLOSE, is six edges; the code's cap of 16 turns
\* is never reached, and a turn beyond the last changes nothing.
Advance(c) == Step(Step(Step(Step(Step(Step(c))))))

\* BOOKED and OUT_OF_SERVICE_AREA are outcomes only advance() gives.
AdvanceEffects(c) ==
  CASE c.outcome = "BOOKED" -> << Effect("CREATE_PENDING_BOOKING", "none") >>
    [] c.outcome = "OUT_OF_SERVICE_AREA" -> << Effect("ESCALATE", "OUT_OF_SERVICE_AREA") >>
    [] OTHER -> << >>

Unmet(c) == {k \in RequiredSlots[c.state] : ~IsSatisfied(c.slots, k)}

\* A prompt about the first of the slots it could be about, if there is one.
PromptFor(type, keys) == IF keys = {} THEN << >> ELSE << Effect(type, FirstOf(keys)) >>

\* What the agent says next: at most one prompt.
NextPrompt(c) ==
  CASE Terminal(c.state)    -> << >>
    [] c.state = "GREETING" -> << Effect("GREET", "none") >>
    [] c.state = "CONFIRM"  -> PromptFor("READ_BACK", PendingConfirmations(c.slots))
    [] OTHER                -> PromptFor("ASK_FOR", Unmet(c))

-----------------------------------------------------------------------------
(* applyEvent() *)

Accept(c) == [ctx |-> c, effects |-> << >>, rejected |-> FALSE]
Reject(c) == [ctx |-> c, effects |-> << >>, rejected |-> TRUE]

Escalate(c, reason) ==
  [ctx |-> EscalateNow(c, reason), effects |-> << Effect("ESCALATE", reason) >>,
   rejected |-> FALSE]

Greeted(c) == Accept([c EXCEPT !.greeted = TRUE])

GuidanceDelivered(c) == Accept([c EXCEPT !.guided = TRUE])

\* Mutant of HazardDetected: the hazard is noted, and the call goes on.
HazardNoted(c) ==
  IF ~Interruptible(c.state) THEN Reject(c)
  ELSE [ctx |-> [c EXCEPT !.escalation = "EMERGENCY_HAZARD"],
        effects |-> << Effect("ESCALATE", "EMERGENCY_HAZARD") >>,
        rejected |-> FALSE]

HazardDetected(c) ==
  IF ~Interruptible(c.state) THEN Reject(c)
  ELSE [ctx |-> [c EXCEPT !.state = "EMERGENCY", !.escalation = "EMERGENCY_HAZARD"],
        effects |-> << Effect("ESCALATE", "EMERGENCY_HAZARD") >>,
        rejected |-> FALSE]

RequestedHuman(c) == Escalate(c, "CALLER_REQUESTED_HUMAN")

AgentError(c) == Escalate(c, "AGENT_ERROR")

HungUp(c) == Accept([c EXCEPT !.state = "CLOSE", !.outcome = "CALLER_HUNG_UP"])

SlotConfirmed(c, k) ==
  IF CanConfirm(c.slots, k) THEN Accept([c EXCEPT !.slots = Confirm(@, k)]) ELSE Reject(c)

SlotRetracted(c, k) == Accept([c EXCEPT !.slots = Unconfirm(@, k)])

\* Mutant of RecordFailure: one failure too many is allowed.
RecordFailureBeyond(c, k, garbled) ==
  LET counted == [c EXCEPT !.failures[k] = @ + 1]
  IN IF counted.failures[k] > FailureLimit
     THEN Escalate(counted, "REPEATED_EXTRACTION_FAILURE")
     ELSE [ctx |-> counted, effects |-> << >>, rejected |-> garbled]

\* `garbled` tells a value the schema refused, whose message is a rejection, from
\* an extraction that came back with nothing.
RecordFailure(c, k, garbled) ==
  LET counted == [c EXCEPT !.failures[k] = @ + 1]
  IN IF counted.failures[k] >= FailureLimit
     THEN Escalate(counted, "REPEATED_EXTRACTION_FAILURE")
     ELSE [ctx |-> counted, effects |-> << >>, rejected |-> garbled]

ExtractionFailed(c, k) == RecordFailure(c, k, FALSE)

SlotFilled(c, k, r) ==
  IF SchemaAccepts(r)
  THEN Accept([c EXCEPT !.slots = Fill(@, k, r), !.failures[k] = 0])
  ELSE RecordFailure(c, k, TRUE)

-----------------------------------------------------------------------------
(* transition() *)

\* Mutant of Transition: events of a call that is over are applied.
TransitionRegardless(c, applied) ==
  IF applied.rejected THEN applied
  ELSE LET d == Advance(applied.ctx)
       IN [ctx |-> d, rejected |-> FALSE,
           effects |-> applied.effects \o AdvanceEffects(d) \o NextPrompt(d)]

\* Mutant of Transition: the next prompt is not appended.
TransitionWithoutPrompt(c, applied) ==
  IF Terminal(c.state) THEN Reject(c)
  ELSE IF applied.rejected THEN applied
  ELSE LET d == Advance(applied.ctx)
       IN [ctx |-> d, rejected |-> FALSE, effects |-> applied.effects \o AdvanceEffects(d)]

\* An event of a call that is over is rejected; a rejected event neither advances the
\* call nor prompts.
Transition(c, applied) ==
  IF Terminal(c.state) THEN Reject(c)
  ELSE IF applied.rejected THEN applied
  ELSE LET d == Advance(applied.ctx)
       IN [ctx |-> d, rejected |-> FALSE,
           effects |-> applied.effects \o AdvanceEffects(d) \o NextPrompt(d)]

=============================================================================
