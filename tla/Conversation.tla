---------------------------- MODULE Conversation ----------------------------
(***************************************************************************)
(* One call as the machine sees it: an arbitrary stream of the events of   *)
(* conversation/src/machine.ts, each delivered to transition() in turn.    *)
(* One action per event; the context and the effects returned are the      *)
(* state.  Two variables only observe: what the caller stands by for each  *)
(* slot, and whether a hazard was ever raised.                             *)
(***************************************************************************)
EXTENDS CallMachine

CONSTANTS
  Readings,   \* what the extractor and the validators may report, per slot
  Elusive     \* slots in whose answer the extractor may find nothing

ASSUME ConversationAssumption ==
  /\ Readings \in [SlotKeys -> SUBSET Reading]
  /\ Elusive \subseteq SlotKeys

VARIABLES
  ctx,       \* MachineContext
  effects,   \* the effects of the last transition
  rejected,  \* whether the last event was rejected
  agreed,    \* observer: the value the caller confirmed for each slot, until it is retracted
  hazard     \* observer: a hazard has interrupted the call

vars == << ctx, effects, rejected, agreed, hazard >>

Init ==
  /\ ctx = initialContext
  /\ effects = NextPrompt(initialContext)
  /\ rejected = FALSE
  /\ agreed = EmptyBook
  /\ hazard = FALSE

Deliver(applied) ==
  LET t == Transition(ctx, applied)
  IN /\ ctx' = t.ctx
     /\ effects' = t.effects
     /\ rejected' = t.rejected

AgentGreeted == Deliver(Greeted(ctx)) /\ UNCHANGED << agreed, hazard >>

\* Raised by the classifier; a rejected hazard leaves no trace.
HazardRaised ==
  /\ Deliver(HazardDetected(ctx))
  /\ hazard' = (hazard \/ Interruptible(ctx.state))
  /\ UNCHANGED agreed

\* The runtime reports guidance only after it performed a hazard's ESCALATE.
GuidanceRead ==
  /\ hazard
  /\ Deliver(GuidanceDelivered(ctx))
  /\ UNCHANGED << agreed, hazard >>

HumanRequested == Deliver(RequestedHuman(ctx)) /\ UNCHANGED << agreed, hazard >>

DependencyFailed == Deliver(AgentError(ctx)) /\ UNCHANGED << agreed, hazard >>

CallerHungUp == Deliver(HungUp(ctx)) /\ UNCHANGED << agreed, hazard >>

\* The runtime confirms a slot it has read back: one read back by policy, or one
\* heard with low confidence (or not at all, for a confirmation that comes astray).
ReadBackSlots ==
  AlwaysConfirmed \cup {k \in SlotKeys : ctx.slots[k] = Empty \/ ~ctx.slots[k].sure}

CallerConfirmed(k) ==
  /\ k \in ReadBackSlots
  /\ Deliver(SlotConfirmed(ctx, k))
  /\ agreed' = IF rejected' THEN agreed
               ELSE [agreed EXCEPT ![k] = ctx.slots[k].value]
  /\ UNCHANGED hazard

CallerRetracted(k) ==
  /\ Deliver(SlotRetracted(ctx, k))
  /\ agreed' = IF rejected' THEN agreed ELSE [agreed EXCEPT ![k] = Empty]
  /\ UNCHANGED hazard

NothingExtracted(k) ==
  /\ k \in Elusive
  /\ Deliver(ExtractionFailed(ctx, k))
  /\ UNCHANGED << agreed, hazard >>

ValueHeard(k, r) == Deliver(SlotFilled(ctx, k, r)) /\ UNCHANGED << agreed, hazard >>

Next ==
  \/ AgentGreeted
  \/ HazardRaised
  \/ GuidanceRead
  \/ HumanRequested
  \/ DependencyFailed
  \/ CallerHungUp
  \/ \E k \in SlotKeys :
       \/ CallerConfirmed(k)
       \/ CallerRetracted(k)
       \/ NothingExtracted(k)
       \/ \E r \in Readings[k] : ValueHeard(k, r)

Spec == Init /\ [][Next]_vars

-----------------------------------------------------------------------------
(* Properties *)

\* Types of the context machine.ts carries and of the effects it returns.
TypeOK ==
  /\ ctx \in Context
  /\ effects \in Seq(MachineEffect)
  /\ rejected \in BOOLEAN
  /\ agreed \in [SlotKeys -> Values \cup {Empty}]
  /\ hazard \in BOOLEAN

\* A booking carries no value the caller did not agree to: every slot is filled
\* with a value no validator rejected, and each one that is read back (by policy,
\* or for low confidence) holds the very value the caller confirmed and has
\* not retracted, however often it was corrected or heard again (slot-book.ts, the CONFIRM guard).
BookedAsAgreed ==
  ctx.outcome = "BOOKED" =>
    \A k \in SlotKeys :
      /\ IsSatisfied(ctx.slots, k)
      /\ k \in AlwaysConfirmed \/ ~ctx.slots[k].sure => agreed[k] = ctx.slots[k].value

\* The state, the outcome and the escalation always tell the same story: a call
\* has an outcome exactly when it is over, a handed-off call has the outcome of its
\* last escalation, and a closed one was booked or abandoned (machine.ts 154-160).
EndingIsConsistent ==
  /\ ctx.outcome = "none" <=> ~Terminal(ctx.state)
  /\ ctx.state = "HANDOFF" => /\ ctx.escalation # "none"
                              /\ ctx.outcome = OutcomeFor[ctx.escalation]
  /\ ctx.state = "CLOSE" => ctx.outcome \in {"BOOKED", "CALLER_HUNG_UP"}
  /\ ctx.state = "EMERGENCY" => ctx.escalation = "EMERGENCY_HAZARD"

\* A call a hazard interrupted is never booked, whatever is said or confirmed
\* afterwards ("never books a job on a call that hit a hazard", machine.test.ts).
HazardNeverBooks == hazard => ctx.outcome # "BOOKED"

\* The happy path of states.ts, and the states of it a call has behind it: none
\* once the call was interrupted or cut short.
HappyPath == << "GREETING", "IDENTIFY", "TRIAGE", "QUALIFY", "SCHEDULE", "CONFIRM", "CLOSE" >>

Before ==
  [s \in States |-> {r \in States : \E i, j \in 1 .. 7 :
                                      i < j /\ HappyPath[i] = r /\ HappyPath[j] = s}]

Past(c) == IF c.outcome = "CALLER_HUNG_UP" THEN {} ELSE Before[c.state]

\* State s still lacks something of call c: a value, a word said, a confirmation.
Wanting(c, s) ==
  \/ \E k \in RequiredSlots[s] : c.slots[k] = Empty \/ c.slots[k].verdict = "invalid"
  \/ s = "GREETING" /\ ~c.greeted
  \/ s = "EMERGENCY" /\ ~c.guided
  \/ s = "CONFIRM" /\ \E k \in SlotKeys : NeedsConfirmation(c.slots, k)

\* advance() stops neither short nor past: after every event a live call stands in a
\* state that lacks something, and no state it has just gone past lacks anything,
\* in whatever order the slots came.  A state left long ago may come to
\* lack something again, when a validator refuses a later value: advance() has no way back.
NeitherShortNorPast ==
  [][ /\ Terminal(ctx'.state) \/ Wanting(ctx', ctx'.state)
      /\ \A s \in Past(ctx') \ Past(ctx) : ~Wanting(ctx', s) ]_ctx

\* A live call has not used up the failures of any slot: reaching the limit
\* always ends the call in front of a human (machine.ts recordExtractionFailure).
FailuresBelowLimit ==
  ~Terminal(ctx.state) => \A k \in SlotKeys : ctx.failures[k] < FailureLimit

\* No dead air: an accepted event that leaves a live call outside EMERGENCY always
\* says something next, unless a slot still holds a value its validator rejected;
\* and no transition asks the runtime for two things at once.
OneThingToSay ==
  /\ Len(effects) <= 1
  /\ effects = << >> =>
       \/ rejected \/ Terminal(ctx.state) \/ ctx.state = "EMERGENCY"
       \/ \E k \in SlotKeys : ctx.slots[k] # Empty /\ ctx.slots[k].verdict = "invalid"

\* The conversation implements the abstract lifecycle of a call.
Lifecycle == INSTANCE CallLifecycle WITH phase <- PhaseOf(ctx), outcome <- ctx.outcome

ImplementsLifecycle == Lifecycle!Spec

\* What contracts/states.ts and validators/geo.ts say of the service area: an address
\* outside it is turned away.  The guard runs only on the way out of QUALIFY, so a
\* later correction escapes it.
OutOfAreaNeverBooked ==
  ctx.outcome = "BOOKED" => ctx.slots["service_address"].value \notin OutOfArea

=============================================================================
