-------------------------- MODULE ConversationProofs --------------------------
(***************************************************************************)
(* Theorems about Conversation, for every set of values, readings and      *)
(* service area and every failure limit, from what CallMachineProofs says  *)
(* of each event.                                                          *)
(***************************************************************************)
EXTENDS Conversation, CallMachineProofs

-----------------------------------------------------------------------------
(* The inductive invariant. *)

\* A hazard has left the live phase for good, and only a hazard is guided.
HazardHeld(c, h) ==
  /\ h => PhaseOf(c) # "live" /\ c.outcome # "BOOKED"
  /\ c.guided => h

\* What is confirmed is what the caller agreed to.
AgreedWith(slots, values) ==
  \A k \in SlotKeys : slots[k] # Empty /\ slots[k].confirmed => values[k] = slots[k].value

\* The last transition asked for one thing, or had a reason to ask for none.
Answered == OneEffect(effects, ctx) /\ (effects = << >> => rejected \/ NothingToAsk(ctx))

IInv ==
  /\ TypeOK
  /\ Sound(ctx)
  /\ ~CanLeave(ctx)
  /\ Passed(ctx)
  /\ Answered
  /\ HazardHeld(ctx, hazard)
  /\ AgreedWith(ctx.slots, agreed)

LEMMA EffectsType ==
  ASSUME NEW e, NEW d, OneEffect(e, d)
  PROVE  e \in Seq(MachineEffect) /\ Len(e) <= 1
<1>1. CASE e = << >>
  BY <1>1
<1>2. ASSUME NEW x \in MachineEffect, e = << x >>
      PROVE  e \in Seq(MachineEffect) /\ Len(e) <= 1
  BY <1>2
<1>. QED
  BY <1>1, <1>2, Zenon DEF OneEffect

\* What the abstract lifecycle sees of a step.
Moves ==
  \/ Evolves(ctx, ctx')
  \/ PhaseOf(ctx) = "live" /\ PhaseOf(ctx') = "emergency"

LEMMA InitIInv == Init => IInv
<1> SUFFICES ASSUME Init
             PROVE  IInv
  OBVIOUS
<1>1. ctx \in Context
  BY DEF Init, initialContext, Context, States, Books, EmptyBook, Outcomes
<1>2. /\ ctx.state = "GREETING" /\ ctx.outcome = "none" /\ ~ctx.greeted /\ ~ctx.guided
      /\ \A k \in SlotKeys : ctx.slots[k] = Empty /\ ctx.failures[k] = 0
  BY DEF Init, initialContext, EmptyBook
<1>3. Sound(ctx)
  BY <1>1, <1>2, CallMachineAssumption DEF Sound, Booked, Ended, Failed, Terminal
<1>4. ~CanLeave(ctx)
  BY <1>2 DEF CanLeave, Blocked
<1>5. HazardHeld(ctx, hazard) /\ AgreedWith(ctx.slots, agreed)
  BY <1>2 DEF HazardHeld, AgreedWith, Init
<1>7. Passed(ctx)
  BY <1>2 DEF Passed
<1>8. Answered
  <2>1. OneEffect(effects, ctx) /\ effects = NextPrompt(ctx)
    BY <1>1, PromptFits DEF Init
  <2>. QED
    BY <1>3, <1>4, <1>7, <2>1, SomethingToAsk DEF Answered
<1>6. TypeOK
  <2>1. effects \in Seq(MachineEffect)
    BY <1>8, EffectsType DEF Answered
  <2>2. agreed \in [SlotKeys -> Values \cup {Empty}]
    BY DEF Init, EmptyBook
  <2>. QED
    BY <1>1, <2>1, <2>2 DEF TypeOK, Init
<1>. QED
  BY <1>3, <1>4, <1>5, <1>6, <1>7, <1>8 DEF IInv

\* Every event but a hazard keeps everything but the agreement.
LEMMA DeliverSound ==
  ASSUME IInv, NEW a, Deliver(a), hazard' = hazard,
         ~Terminal(ctx.state) => GoodApplied(ctx, a) /\ (a.ctx.guided => ctx.guided \/ hazard)
  PROVE  /\ Sound(ctx)' /\ (~CanLeave(ctx))' /\ HazardHeld(ctx, hazard)'
         /\ Passed(ctx)' /\ Answered'
         /\ effects' \in Seq(MachineEffect) /\ rejected' \in BOOLEAN
         /\ Evolves(ctx, ctx')
         /\ IF Terminal(ctx.state) THEN ctx' = ctx ELSE ctx'.slots = a.ctx.slots
         /\ ~rejected' => ~Terminal(ctx.state) /\ ~a.rejected
<1> DEFINE t == Transition(ctx, a)
<1>1. ctx' = t.ctx /\ effects' = t.effects /\ rejected' = t.rejected
  BY DEF Deliver
<1>2. Sound(ctx) /\ ~CanLeave(ctx) /\ Passed(ctx)
  BY DEF IInv
<1>3. /\ Sound(t.ctx) /\ Evolves(ctx, t.ctx) /\ ~CanLeave(t.ctx) /\ Passed(t.ctx)
      /\ OneEffect(t.effects, t.ctx) /\ t.rejected \in BOOLEAN
      /\ t.effects = << >> => NextPrompt(t.ctx) = << >> \/ t.rejected
      /\ ~t.rejected => ~Terminal(ctx.state) /\ ~a.rejected
      /\ IF Terminal(ctx.state) THEN t.ctx = ctx
         ELSE t.ctx.slots = a.ctx.slots /\ t.ctx.guided = a.ctx.guided
  BY <1>2, TransitionSound
<1> HIDE DEF t
<1>4. HazardHeld(t.ctx, hazard)
  <2>1. t.ctx.guided => hazard
    BY <1>3 DEF IInv, HazardHeld
  <2>2. ASSUME hazard
        PROVE  PhaseOf(t.ctx) # "live" /\ t.ctx.outcome # "BOOKED"
    <3>1. PhaseOf(ctx) # "live" /\ ctx.outcome # "BOOKED"
      BY <2>2 DEF IInv, HazardHeld
    <3>2. CASE PhaseOf(t.ctx) = "over" /\ t.ctx # ctx
      BY <1>3, <3>1, <3>2 DEF Evolves, EndsOf
    <3>3. CASE t.ctx = ctx
      BY <3>1, <3>3
    <3>4. CASE PhaseOf(t.ctx) = PhaseOf(ctx) /\ PhaseOf(ctx) # "over"
      BY <1>3, <3>1, <3>4 DEF Sound, Ended, PhaseOf
    <3>. QED
      BY <1>3, <3>2, <3>3, <3>4 DEF Evolves
  <2>. QED
    BY <2>1, <2>2 DEF HazardHeld
<1>5. /\ t.effects \in Seq(MachineEffect)
      /\ t.effects = << >> => t.rejected \/ NothingToAsk(t.ctx)
  BY <1>3, EffectsType, SomethingToAsk
<1>6. Passed(ctx)' /\ Answered'
  BY <1>1, <1>3, <1>5
  DEF Passed, Answered, OneEffect, Fits, NothingToAsk, PhaseOf
<1>. QED
  BY <1>1, <1>3, <1>4, <1>5, <1>6
  DEF Sound, CanLeave, HazardHeld, Booked, Ended, Failed

\* An event that adds no confirmation keeps the invariant.
LEMMA InheritedIInv ==
  ASSUME IInv, NEW a, Deliver(a), hazard' = hazard, agreed' = agreed,
         ~Terminal(ctx.state) => /\ GoodApplied(ctx, a)
                                 /\ a.ctx.guided => ctx.guided \/ hazard
                                 /\ Inherits(a.ctx.slots, ctx.slots)
  PROVE  IInv' /\ Moves
<1>1. /\ Sound(ctx)' /\ (~CanLeave(ctx))' /\ HazardHeld(ctx, hazard)'
      /\ Passed(ctx)' /\ Answered'
      /\ effects' \in Seq(MachineEffect) /\ rejected' \in BOOLEAN
      /\ Evolves(ctx, ctx')
      /\ IF Terminal(ctx.state) THEN ctx' = ctx ELSE ctx'.slots = a.ctx.slots
  BY DeliverSound
<1>2. Inherits(ctx'.slots, ctx.slots)
  BY <1>1 DEF Inherits
<1>3. AgreedWith(ctx.slots, agreed)'
  BY <1>2 DEF IInv, AgreedWith, Inherits
<1>4. TypeOK'
  BY <1>1 DEF IInv, TypeOK, Sound
<1>. QED
  BY <1>1, <1>3, <1>4 DEF IInv, Moves

LEMMA ConfirmedIInv ==
  ASSUME IInv, NEW k \in SlotKeys, CallerConfirmed(k)
  PROVE  IInv' /\ Moves
<1> DEFINE a == SlotConfirmed(ctx, k)
<1>1. Deliver(a) /\ hazard' = hazard
  BY DEF CallerConfirmed
<1>2. Sound(ctx) /\ ~CanLeave(ctx) /\ TypeOK /\ AgreedWith(ctx.slots, agreed)
  BY DEF IInv
<1>3. ~Terminal(ctx.state) =>
        /\ GoodApplied(ctx, a) /\ a.ctx.guided = ctx.guided
        /\ ~a.rejected => /\ ctx.slots[k] # Empty
                          /\ a.ctx.slots = [ctx.slots EXCEPT ![k].confirmed = TRUE]
        /\ a.rejected => a.ctx = ctx
  BY <1>2, ConfirmedGood
<1> HIDE DEF a
<1>4. /\ Sound(ctx)' /\ (~CanLeave(ctx))' /\ HazardHeld(ctx, hazard)'
      /\ Passed(ctx)' /\ Answered'
      /\ effects' \in Seq(MachineEffect) /\ rejected' \in BOOLEAN
      /\ Evolves(ctx, ctx')
      /\ IF Terminal(ctx.state) THEN ctx' = ctx ELSE ctx'.slots = a.ctx.slots
      /\ ~rejected' => ~Terminal(ctx.state) /\ ~a.rejected
  BY <1>1, <1>3, DeliverSound
<1>5. ctx.slots \in Books /\ agreed \in [SlotKeys -> Values \cup {Empty}]
  BY <1>2 DEF TypeOK, Context
<1>6. CASE rejected'
  <2>1. agreed' = agreed
    BY <1>6, Zenon DEF CallerConfirmed
  <2>2. ctx'.slots = ctx.slots
    <3>1. rejected' => Terminal(ctx.state) \/ a.rejected
      <4>1. CASE ~Terminal(ctx.state) /\ ~a.rejected
        BY <1>1, <4>1 DEF Deliver, Transition
      <4>. QED
        BY <4>1
    <3>. QED
      BY <1>3, <1>4, <1>6, <3>1
  <2>3. AgreedWith(ctx.slots, agreed)'
    BY <1>2, <2>1, <2>2 DEF AgreedWith
  <2>. QED
    BY <1>2, <1>4, <1>1, <2>1, <2>3 DEF IInv, TypeOK, Sound, Moves
<1>7. CASE ~rejected'
  <2>1. agreed' = [agreed EXCEPT ![k] = ctx.slots[k].value]
    BY <1>7, Zenon DEF CallerConfirmed
  <2>2. ctx'.slots = [ctx.slots EXCEPT ![k].confirmed = TRUE] /\ ctx.slots[k] \in Entry
    BY <1>3, <1>4, <1>5, <1>7 DEF Books
  <2>3. agreed' \in [SlotKeys -> Values \cup {Empty}]
    BY <1>5, <2>1, <2>2 DEF Entry
  <2>4. \A j \in SlotKeys : j # k => ctx'.slots[j] = ctx.slots[j] /\ agreed'[j] = agreed[j]
    BY <1>5, <2>1, <2>2 DEF Books
  <2>5. ctx'.slots[k].value = ctx.slots[k].value /\ agreed'[k] = ctx.slots[k].value
    BY <1>5, <2>1, <2>2 DEF Books, Entry
  <2>6. AgreedWith(ctx.slots, agreed)'
    BY <1>2, <2>4, <2>5 DEF AgreedWith
  <2>. QED
    BY <1>2, <1>4, <1>1, <2>3, <2>6 DEF IInv, TypeOK, Sound, Moves
<1>. QED
  BY <1>6, <1>7

\* A retraction takes the confirmation and the agreement away together.
LEMMA RetractedIInv ==
  ASSUME IInv, NEW k \in SlotKeys, CallerRetracted(k)
  PROVE  IInv' /\ Moves
<1> DEFINE a == SlotRetracted(ctx, k)
<1>1. Deliver(a) /\ hazard' = hazard
  BY DEF CallerRetracted
<1>2. Sound(ctx) /\ TypeOK /\ AgreedWith(ctx.slots, agreed)
  BY DEF IInv
<1>3. ctx.slots \in Books /\ agreed \in [SlotKeys -> Values \cup {Empty}]
  BY <1>2 DEF TypeOK, Context
<1>4. ~Terminal(ctx.state) =>
        /\ GoodApplied(ctx, a) /\ a.ctx.guided = ctx.guided
        /\ a.ctx.slots = Unconfirm(ctx.slots, k)
  BY <1>2, RetractedGood
<1> HIDE DEF a
<1>5. Inherits(Unconfirm(ctx.slots, k), ctx.slots)
  BY <1>3 DEF Inherits, Unconfirm, Books, Entry
<1>6. CASE rejected'
  <2>1. agreed' = agreed
    BY <1>6, Zenon DEF CallerRetracted
  <2>. QED
    BY <1>1, <1>4, <1>5, <2>1, InheritedIInv
<1>7. CASE ~rejected'
  <2>1. /\ Sound(ctx)' /\ (~CanLeave(ctx))' /\ HazardHeld(ctx, hazard)'
        /\ Passed(ctx)' /\ Answered'
        /\ effects' \in Seq(MachineEffect) /\ rejected' \in BOOLEAN
        /\ Evolves(ctx, ctx')
        /\ IF Terminal(ctx.state) THEN ctx' = ctx ELSE ctx'.slots = a.ctx.slots
        /\ ~rejected' => ~Terminal(ctx.state) /\ ~a.rejected
    BY <1>1, <1>4, DeliverSound
  <2>2. agreed' = [agreed EXCEPT ![k] = Empty]
    BY <1>7, Zenon DEF CallerRetracted
  <2>3. agreed' \in [SlotKeys -> Values \cup {Empty}]
    BY <1>3, <2>2
  <2>4. ctx'.slots = Unconfirm(ctx.slots, k)
    BY <1>4, <1>7, <2>1
  <2>5. \A j \in SlotKeys : j # k => ctx'.slots[j] = ctx.slots[j] /\ agreed'[j] = agreed[j]
    BY <1>3, <2>2, <2>4 DEF Books, Unconfirm
  <2>6. ctx'.slots[k] # Empty => ~ctx'.slots[k].confirmed
    BY <1>3, <2>4 DEF Books, Unconfirm, Entry
  <2>7. AgreedWith(ctx.slots, agreed)'
    BY <1>2, <2>5, <2>6 DEF AgreedWith
  <2>. QED
    BY <1>1, <1>2, <2>1, <2>3, <2>7 DEF IInv, TypeOK, Sound, Moves
<1>. QED
  BY <1>6, <1>7

LEMMA HazardIInv ==
  ASSUME IInv, HazardRaised
  PROVE  IInv' /\ Moves
<1> DEFINE a == HazardDetected(ctx)
           t == Transition(ctx, a)
<1>1. ctx' = t.ctx /\ effects' = t.effects /\ rejected' = t.rejected /\ agreed' = agreed
  BY DEF HazardRaised, Deliver
<1>2. /\ Sound(ctx) /\ ~CanLeave(ctx) /\ TypeOK /\ AgreedWith(ctx.slots, agreed)
      /\ HazardHeld(ctx, hazard)
  BY DEF IInv
<1>3. ctx.state \in States
  BY <1>2 DEF TypeOK, Context
<1>4. CASE Interruptible(ctx.state)
  <2>1. PhaseOf(ctx) = "live"
    BY <1>4 DEF PhaseOf, Interruptible
  <2>2. ~ctx.guided /\ hazard' = TRUE
    BY <1>2, <1>4, <2>1 DEF HazardHeld, HazardRaised
  <2>3. /\ Sound(t.ctx) /\ t.ctx.state = "EMERGENCY"
        /\ ~CanLeave(t.ctx) /\ t.ctx.slots = ctx.slots /\ ~t.ctx.guided
        /\ OneEffect(t.effects, t.ctx)
        /\ t.rejected = FALSE
    BY <1>2, <1>4, <2>2, HazardSound
  <2> HIDE DEF t
  <2>4. PhaseOf(t.ctx) = "emergency" /\ t.ctx.outcome = "none"
    BY <2>3 DEF PhaseOf, Terminal, Sound, Ended
  <2>5. HazardHeld(ctx, hazard)' /\ AgreedWith(ctx.slots, agreed)'
    BY <1>1, <1>2, <2>2, <2>3, <2>4 DEF HazardHeld, AgreedWith, PhaseOf
  <2>6. Sound(ctx)' /\ (~CanLeave(ctx))'
    BY <1>1, <2>3 DEF Sound, CanLeave, Booked, Ended, Failed
  <2>7. TypeOK'
    BY <1>1, <1>2, <2>2, <2>3, EffectsType DEF TypeOK, Sound
  <2>8. Passed(ctx)' /\ Answered'
    BY <1>1, <2>3, <2>4 DEF Passed, Answered, OneEffect, Fits, NothingToAsk, PhaseOf
  <2>. QED
    BY <1>1, <2>1, <2>4, <2>5, <2>6, <2>7, <2>8 DEF IInv, Moves, PhaseOf
<1>5. CASE ~Interruptible(ctx.state)
  <2>1. Deliver(Reject(ctx)) /\ hazard' = hazard /\ agreed' = agreed
    BY <1>2, <1>5, Zenon DEF HazardRaised, HazardDetected, TypeOK
  <2>2. GoodApplied(ctx, Reject(ctx))
    BY <1>2, RejectGood
  <2>. QED
    BY <2>1, <2>2, InheritedIInv DEF Reject, Inherits
<1>. QED
  BY <1>4, <1>5

LEMMA NextIInv ==
  ASSUME IInv, Next
  PROVE  IInv' /\ Moves
<1>1. Sound(ctx) /\ ~CanLeave(ctx) /\ ctx \in Context
  BY DEF IInv, TypeOK
<1>2. CASE AgentGreeted
  <2>1. Deliver(Greeted(ctx)) /\ hazard' = hazard /\ agreed' = agreed
    BY <1>2 DEF AgentGreeted
  <2>2. ~Terminal(ctx.state) => GoodApplied(ctx, Greeted(ctx))
    BY <1>1, GreetedGood
  <2>3. /\ Greeted(ctx).ctx.slots = ctx.slots
        /\ Greeted(ctx).ctx.guided => ctx.guided \/ hazard
    BY <1>1, <2>1 DEF Greeted, Accept, Context
  <2>. QED
    BY <2>1, <2>2, <2>3, InheritedIInv DEF Inherits
<1>3. CASE GuidanceRead
  <2>1. Deliver(GuidanceDelivered(ctx)) /\ hazard' = hazard /\ agreed' = agreed /\ hazard
    BY <1>3 DEF GuidanceRead
  <2>2. ~Terminal(ctx.state) => GoodApplied(ctx, GuidanceDelivered(ctx))
    BY <1>1, GuidanceGood
  <2>3. /\ GuidanceDelivered(ctx).ctx.slots = ctx.slots
        /\ GuidanceDelivered(ctx).ctx.guided => ctx.guided \/ hazard
    BY <1>1, <2>1 DEF GuidanceDelivered, Accept, Context
  <2>. QED
    BY <2>1, <2>2, <2>3, InheritedIInv DEF Inherits
<1>4. CASE HumanRequested
  <2>1. Deliver(RequestedHuman(ctx)) /\ hazard' = hazard /\ agreed' = agreed
    BY <1>4 DEF HumanRequested
  <2>2. ~Terminal(ctx.state) => GoodApplied(ctx, RequestedHuman(ctx))
    BY <1>1, EscalateGood DEF RequestedHuman, NothingForgotten
  <2>3. /\ RequestedHuman(ctx).ctx.slots = ctx.slots
        /\ RequestedHuman(ctx).ctx.guided => ctx.guided \/ hazard
    BY <1>1, <2>1 DEF RequestedHuman, Escalate, EscalateNow, Context
  <2>. QED
    BY <2>1, <2>2, <2>3, InheritedIInv DEF Inherits
<1>5. CASE DependencyFailed
  <2>1. Deliver(AgentError(ctx)) /\ hazard' = hazard /\ agreed' = agreed
    BY <1>5 DEF DependencyFailed
  <2>2. ~Terminal(ctx.state) => GoodApplied(ctx, AgentError(ctx))
    BY <1>1, EscalateGood DEF AgentError, NothingForgotten
  <2>3. /\ AgentError(ctx).ctx.slots = ctx.slots
        /\ AgentError(ctx).ctx.guided => ctx.guided \/ hazard
    BY <1>1, <2>1 DEF AgentError, Escalate, EscalateNow, Context
  <2>. QED
    BY <2>1, <2>2, <2>3, InheritedIInv DEF Inherits
<1>6. CASE CallerHungUp
  <2>1. Deliver(HungUp(ctx)) /\ hazard' = hazard /\ agreed' = agreed
    BY <1>6 DEF CallerHungUp
  <2>2. ~Terminal(ctx.state) => GoodApplied(ctx, HungUp(ctx))
    BY <1>1, HungUpGood
  <2>3. /\ HungUp(ctx).ctx.slots = ctx.slots
        /\ HungUp(ctx).ctx.guided => ctx.guided \/ hazard
    BY <1>1, <2>1 DEF HungUp, Accept, Context
  <2>. QED
    BY <2>1, <2>2, <2>3, InheritedIInv DEF Inherits
<1>7. CASE HazardRaised
  BY <1>7, HazardIInv
<1>8. ASSUME NEW k \in SlotKeys, CallerConfirmed(k)
      PROVE  IInv' /\ Moves
  BY <1>8, ConfirmedIInv
<1>9. ASSUME NEW k \in SlotKeys, CallerRetracted(k)
      PROVE  IInv' /\ Moves
  BY <1>9, RetractedIInv
<1>10. ASSUME NEW k \in SlotKeys, NothingExtracted(k)
       PROVE  IInv' /\ Moves
  <2>1. Deliver(ExtractionFailed(ctx, k)) /\ hazard' = hazard /\ agreed' = agreed
    BY <1>10 DEF NothingExtracted
  <2>2. ~Terminal(ctx.state) =>
          /\ GoodApplied(ctx, ExtractionFailed(ctx, k))
          /\ ExtractionFailed(ctx, k).ctx.slots = ctx.slots
          /\ ExtractionFailed(ctx, k).ctx.guided = ctx.guided
    BY <1>1, RecordFailureGood DEF ExtractionFailed
  <2>. QED
    BY <2>1, <2>2, InheritedIInv DEF Inherits
<1>11. ASSUME NEW k \in SlotKeys, NEW r \in Readings[k], ValueHeard(k, r)
       PROVE  IInv' /\ Moves
  <2>1. Deliver(SlotFilled(ctx, k, r)) /\ hazard' = hazard /\ agreed' = agreed
    BY <1>11 DEF ValueHeard
  <2>2. r \in Reading
    BY ConversationAssumption
  <2>3. ~Terminal(ctx.state) =>
          /\ GoodApplied(ctx, SlotFilled(ctx, k, r))
          /\ SlotFilled(ctx, k, r).ctx.guided = ctx.guided
          /\ Inherits(SlotFilled(ctx, k, r).ctx.slots, ctx.slots)
    BY <1>1, <2>2, FilledGood
  <2>. QED
    BY <2>1, <2>3, InheritedIInv
<1>. QED
  BY <1>2, <1>3, <1>4, <1>5, <1>6, <1>7, <1>8, <1>9, <1>10, <1>11 DEF Next

-----------------------------------------------------------------------------
(* The theorems. *)

LEMMA StutterIInv ==
  ASSUME IInv, UNCHANGED vars
  PROVE  IInv' /\ UNCHANGED ctx
BY DEF IInv, TypeOK, Sound, Booked, Ended, Failed, HazardHeld, AgreedWith, CanLeave, vars,
       SlotsReady, Blocked, PhaseOf, Passed, Answered, OneEffect, Fits, NothingToAsk

\* The strengthened invariant holds of every call: machine.ts never produces a
\* context that is unsound, unsettled, or forgetful of a hazard or of an agreement.
THEOREM Invariance == Spec => []IInv
<1>1. IInv /\ [Next]_vars => IInv'
  BY NextIInv, StutterIInv
<1>. QED
  BY InitIInv, <1>1, PTL DEF Spec

\* The context and the effects keep the types machine.ts declares.
THEOREM TypeCorrect == Spec => []TypeOK
<1>1. IInv => TypeOK
  BY DEF IInv
<1>. QED
  BY Invariance, <1>1, PTL

\* A booked call carries exactly the values the caller agreed to (slot-book.ts fill
\* and confirm, the CONFIRM guard of machine.ts).
THEOREM BookingsAreAgreed == Spec => []BookedAsAgreed
<1>1. IInv => BookedAsAgreed
  <2> SUFFICES ASSUME IInv, ctx.outcome = "BOOKED", NEW k \in SlotKeys
               PROVE  /\ IsSatisfied(ctx.slots, k)
                      /\ k \in AlwaysConfirmed \/ ~ctx.slots[k].sure =>
                           agreed[k] = ctx.slots[k].value
    BY DEF BookedAsAgreed
  <2>1. IsSatisfied(ctx.slots, k) /\ ~NeedsConfirmation(ctx.slots, k)
    BY DEF IInv, Sound, Booked
  <2>2. ctx.slots[k] # Empty /\ ctx.slots[k] \in Entry
    BY <2>1 DEF IInv, TypeOK, Context, Books, IsSatisfied
  <2>. QED
    BY <2>1, <2>2 DEF IInv, AgreedWith, NeedsConfirmation, Entry
<1>. QED
  BY Invariance, <1>1, PTL

\* State, outcome and escalation agree (machine.ts 154-160 and escalateNow).
THEOREM EndingsAreConsistent == Spec => []EndingIsConsistent
<1>1. IInv => EndingIsConsistent
  BY DEF IInv, EndingIsConsistent, Sound, Ended
<1>. QED
  BY Invariance, <1>1, PTL

\* A call that hit a hazard is never booked (machine.ts HAZARD_DETECTED).
THEOREM HazardsNeverBook == Spec => []HazardNeverBooks
<1>1. IInv => HazardNeverBooks
  BY DEF IInv, HazardNeverBooks, HazardHeld
<1>. QED
  BY Invariance, <1>1, PTL

\* What each state has behind it.
LEMMA BeforeIs ==
  /\ Before["GREETING"] = {} /\ Before["EMERGENCY"] = {} /\ Before["HANDOFF"] = {}
  /\ \A s \in States : Before[NextState[s]] \subseteq Before[s] \cup {s}
<1> DEFINE At(i, s) == HappyPath[i] = s
<1>1. \A s \in States :
        Before[s] = {r \in States : \E i, j \in 1 .. 7 : i < j /\ At(i, r) /\ At(j, s)}
  BY DEF Before
<1>2. /\ HappyPath[1] = "GREETING" /\ HappyPath[2] = "IDENTIFY" /\ HappyPath[3] = "TRIAGE"
      /\ HappyPath[4] = "QUALIFY" /\ HappyPath[5] = "SCHEDULE" /\ HappyPath[6] = "CONFIRM"
      /\ HappyPath[7] = "CLOSE"
  BY DEF HappyPath
<1>3. \A i \in 1 .. 7 : i \in {1, 2, 3, 4, 5, 6, 7}
  OBVIOUS
<1>4. \A s \in States, j \in 1 .. 7 :
        At(j, s) <=> \/ j = 1 /\ s = "GREETING"
                     \/ j = 2 /\ s = "IDENTIFY"
                     \/ j = 3 /\ s = "TRIAGE"
                     \/ j = 4 /\ s = "QUALIFY"
                     \/ j = 5 /\ s = "SCHEDULE"
                     \/ j = 6 /\ s = "CONFIRM"
                     \/ j = 7 /\ s = "CLOSE"
  BY <1>2, <1>3 DEF States
<1> HIDE DEF At
<1>5. Before["GREETING"] = {} /\ Before["EMERGENCY"] = {} /\ Before["HANDOFF"] = {}
  BY <1>1, <1>4 DEF States
<1>6. ASSUME NEW s \in States
      PROVE  Before[NextState[s]] \subseteq Before[s] \cup {s}
  <2>1. CASE s \in {"EMERGENCY", "HANDOFF", "CLOSE"}
    BY <1>5, <2>1 DEF NextState, States
  <2>2. CASE s \notin {"EMERGENCY", "HANDOFF", "CLOSE"}
    <3>1. PICK n \in 1 .. 6 : At(n, s)
      <4>1. s \in {"GREETING", "IDENTIFY", "TRIAGE", "QUALIFY", "SCHEDULE", "CONFIRM"}
        BY <2>2 DEF States
      <4>2. {1, 2, 3, 4, 5, 6} \subseteq 1 .. 6 /\ {1, 2, 3, 4, 5, 6} \subseteq 1 .. 7
        OBVIOUS
      <4>. QED
        BY <1>4, <4>1, <4>2
    <3>2. NextState[s] \in States /\ n + 1 \in 1 .. 7 /\ At(n + 1, NextState[s])
      <4>1. NextState[s] \in States /\ n \in 1 .. 7 /\ n + 1 \in 1 .. 7 /\ n # 7
        BY NextStateType
      <4>2. \/ n = 1 /\ s = "GREETING" /\ NextState[s] = "IDENTIFY"
            \/ n = 2 /\ s = "IDENTIFY" /\ NextState[s] = "TRIAGE"
            \/ n = 3 /\ s = "TRIAGE" /\ NextState[s] = "QUALIFY"
            \/ n = 4 /\ s = "QUALIFY" /\ NextState[s] = "SCHEDULE"
            \/ n = 5 /\ s = "SCHEDULE" /\ NextState[s] = "CONFIRM"
            \/ n = 6 /\ s = "CONFIRM" /\ NextState[s] = "CLOSE"
        BY <1>4, <3>1, <4>1 DEF NextState
      <4>. QED
        BY <1>4, <4>1, <4>2
    <3>3. \A j \in 1 .. 7 : At(j, NextState[s]) => j = n + 1
      BY <1>4, <3>2
    <3>4. ASSUME NEW r \in Before[NextState[s]], r # s
          PROVE  r \in Before[s]
      <4>1. PICK i \in 1 .. 7, j \in 1 .. 7 : i < j /\ At(i, r) /\ At(j, NextState[s])
        BY <1>1, <3>2, <3>4
      <4>2. r \in States /\ j = n + 1 /\ i # n
        BY <1>1, <1>4, <3>1, <3>2, <3>3, <3>4, <4>1
      <4>3. i < n
        BY <4>1, <4>2
      <4>. QED
        BY <1>1, <3>1, <4>1, <4>2, <4>3
    <3>. QED
      BY <3>4
  <2>. QED
    BY <2>1, <2>2
<1>. QED
  BY <1>5, <1>6

\* From c to d the call goes past no state that d shows lacking something.
GoesBy(c, d) == \A s \in Past(d) \ Past(c) : ~Wanting(d, s)

\* What a state lacks depends on nothing advance() changes.
SameNeeds(c, d) == d.slots = c.slots /\ d.greeted = c.greeted /\ d.guided = c.guided

LEMMA CanLeaveIs ==
  ASSUME NEW c, c.state \in States
  PROVE  CanLeave(c) <=> ~Terminal(c.state) /\ ~Wanting(c, c.state)
BY DEF CanLeave, SlotsReady, IsSatisfied, Blocked, Wanting, PendingConfirmations

\* One turn of advance() goes past the state it leaves, which lacks nothing.
LEMMA StepGoesBy ==
  ASSUME NEW c, Sound(c)
  PROVE  SameNeeds(c, Step(c)) /\ GoesBy(c, Step(c))
<1>1. c \in Context /\ c.state \in States
  BY DEF Sound, Context
<1>2. CASE ~CanLeave(c)
  BY <1>2, StepCases DEF SameNeeds, GoesBy
<1>3. CASE CanLeave(c) /\ OutsideServiceArea(c)
  <2> DEFINE d == Step(c)
  <2>1. d.state = "HANDOFF" /\ SameNeeds(c, d)
    <3>1. d = EscalateNow(c, "OUT_OF_SERVICE_AREA")
      BY <1>3, StepCases
    <3>. QED
      BY <1>1, <3>1 DEF EscalateNow, Context, SameNeeds
  <2>2. Past(d) = {}
    BY <2>1, BeforeIs DEF Past
  <2>. QED
    BY <2>1, <2>2 DEF GoesBy
<1>4. CASE CanLeave(c) /\ ~OutsideServiceArea(c)
  <2> DEFINE d == Step(c)
  <2>1. d.state = NextState[c.state] /\ SameNeeds(c, d)
    <3>1. d = Leave(c)
      BY <1>4, StepCases
    <3>. QED
      BY <1>1, <3>1 DEF Leave, Context, SameNeeds
  <2>2. ~Wanting(c, c.state) /\ c.outcome = "none"
    BY <1>1, <1>4, CanLeaveIs DEF Sound, Ended, CanLeave
  <2> HIDE DEF d
  <2>3. Past(d) \subseteq Past(c) \cup {c.state}
    BY <1>1, <2>1, <2>2, BeforeIs DEF Past
  <2>4. ~Wanting(d, c.state)
    BY <2>1, <2>2 DEF SameNeeds, Wanting
  <2>. QED
    BY <2>1, <2>3, <2>4 DEF GoesBy, d
<1>. QED
  BY <1>2, <1>3, <1>4

LEMMA AdvanceGoesBy ==
  ASSUME NEW c, Sound(c)
  PROVE  GoesBy(c, Advance(c))
<1> DEFINE Walked(d) == Sound(d) /\ SameNeeds(c, d) /\ GoesBy(c, d)
<1>1. ASSUME NEW d, Walked(d)
      PROVE  Walked(Step(d))
  <2>1. Sound(Step(d)) /\ SameNeeds(d, Step(d)) /\ GoesBy(d, Step(d))
    BY <1>1, StepSound, StepGoesBy
  <2>2. SameNeeds(c, Step(d))
    BY <1>1, <2>1 DEF SameNeeds
  <2>3. \A s : Wanting(Step(d), s) => Wanting(d, s)
    BY <2>1 DEF SameNeeds, Wanting
  <2>. QED
    BY <1>1, <2>1, <2>2, <2>3 DEF GoesBy
<1>2. Walked(c)
  BY DEF SameNeeds, GoesBy
<1> HIDE DEF Walked
<1>3. Walked(Step(Step(Step(c))))
  BY <1>1, <1>2
<1>4. Walked(Advance(c))
  BY <1>1, <1>3 DEF Advance
<1>. QED
  BY <1>4 DEF Walked

\* The states an event itself puts behind the call: none.
LEMMA AppliedPast ==
  ASSUME NEW c, Sound(c), ~Terminal(c.state), NEW a, GoodApplied(c, a),
         a.ctx.state = "CLOSE" => a.ctx.outcome = "CALLER_HUNG_UP"
  PROVE  Past(a.ctx) \subseteq Past(c)
<1>1. CASE a.ctx.state = c.state
  BY <1>1 DEF GoodApplied, Sound, Ended, Past
<1>2. CASE a.ctx.state = "HANDOFF"
  BY <1>2, BeforeIs DEF Past
<1>3. CASE a.ctx.state = "CLOSE"
  BY <1>3 DEF Past
<1>. QED
  BY <1>1, <1>2, <1>3 DEF GoodApplied

LEMMA DeliverGoesBy ==
  ASSUME IInv, NEW a, Deliver(a),
         ~Terminal(ctx.state) => /\ GoodApplied(ctx, a)
                                 /\ a.ctx.state = "CLOSE" => a.ctx.outcome = "CALLER_HUNG_UP"
  PROVE  GoesBy(ctx, ctx')
<1>1. Sound(ctx) /\ ctx' = Transition(ctx, a).ctx
  BY DEF IInv, Deliver
<1>2. CASE Terminal(ctx.state)
  <2>1. ctx' = ctx
    BY <1>1, <1>2 DEF Transition, Reject
  <2>. QED
    BY <2>1 DEF GoesBy
<1>3. CASE ~Terminal(ctx.state) /\ a.rejected
  <2>1. ctx' = a.ctx
    BY <1>1, <1>3 DEF Transition
  <2>. QED
    BY <1>1, <1>3, <2>1, AppliedPast DEF GoesBy
<1>4. CASE ~Terminal(ctx.state) /\ ~a.rejected
  <2>1. ctx' = Advance(a.ctx)
    BY <1>1, <1>4 DEF Transition
  <2>2. Past(a.ctx) \subseteq Past(ctx) /\ GoesBy(a.ctx, Advance(a.ctx))
    BY <1>1, <1>4, AppliedPast, AdvanceGoesBy DEF GoodApplied
  <2>. QED
    BY <2>1, <2>2 DEF GoesBy
<1>. QED
  BY <1>2, <1>3, <1>4

\* Only a hang-up closes a call by itself.
LEMMA NothingElseCloses ==
  ASSUME NEW c \in Context, c.state # "CLOSE", NEW k \in SlotKeys
  PROVE  /\ Greeted(c).ctx.state # "CLOSE" /\ GuidanceDelivered(c).ctx.state # "CLOSE"
         /\ RequestedHuman(c).ctx.state # "CLOSE" /\ AgentError(c).ctx.state # "CLOSE"
         /\ HungUp(c).ctx.outcome = "CALLER_HUNG_UP"
         /\ SlotConfirmed(c, k).ctx.state # "CLOSE" /\ SlotRetracted(c, k).ctx.state # "CLOSE"
         /\ \A garbled : RecordFailure(c, k, garbled).ctx.state # "CLOSE"
         /\ \A r : SlotFilled(c, k, r).ctx.state # "CLOSE"
<1>1. /\ Greeted(c).ctx.state # "CLOSE" /\ GuidanceDelivered(c).ctx.state # "CLOSE"
      /\ RequestedHuman(c).ctx.state # "CLOSE" /\ AgentError(c).ctx.state # "CLOSE"
      /\ HungUp(c).ctx.outcome = "CALLER_HUNG_UP"
  BY DEF Greeted, GuidanceDelivered, RequestedHuman, AgentError, HungUp, Accept, Escalate,
         EscalateNow, Context
<1>2. SlotConfirmed(c, k).ctx.state # "CLOSE" /\ SlotRetracted(c, k).ctx.state # "CLOSE"
  BY DEF SlotConfirmed, SlotRetracted, Accept, Reject, Context
<1>3. ASSUME NEW garbled
      PROVE  RecordFailure(c, k, garbled).ctx.state # "CLOSE"
  BY DEF RecordFailure, Escalate, EscalateNow, Context
<1>4. ASSUME NEW r
      PROVE  SlotFilled(c, k, r).ctx.state # "CLOSE"
  <2>1. CASE SchemaAccepts(r)
    BY <2>1 DEF SlotFilled, Accept, Context
  <2>2. CASE ~SchemaAccepts(r)
    BY <1>3, <2>2, Zenon DEF SlotFilled
  <2>. QED
    BY <2>1, <2>2
<1>. QED
  BY <1>1, <1>2, <1>3, <1>4

LEMMA NextGoesBy ==
  ASSUME IInv, Next
  PROVE  GoesBy(ctx, ctx')
<1>1. Sound(ctx) /\ ~CanLeave(ctx) /\ ctx \in Context
  BY DEF IInv, TypeOK
<1>2. ~Terminal(ctx.state) => ctx.state # "CLOSE"
  BY DEF Terminal
<1>3. CASE AgentGreeted
  BY <1>1, <1>2, <1>3, NothingElseCloses, GreetedGood, DeliverGoesBy, SixSlots DEF AgentGreeted
<1>4. CASE GuidanceRead
  BY <1>1, <1>2, <1>4, NothingElseCloses, GuidanceGood, DeliverGoesBy, SixSlots DEF GuidanceRead
<1>5. CASE HumanRequested
  <2>1. ~Terminal(ctx.state) => GoodApplied(ctx, RequestedHuman(ctx))
    BY <1>1, EscalateGood DEF RequestedHuman, NothingForgotten
  <2>. QED
    BY <1>1, <1>2, <1>5, <2>1, NothingElseCloses, DeliverGoesBy, SixSlots DEF HumanRequested
<1>6. CASE DependencyFailed
  <2>1. ~Terminal(ctx.state) => GoodApplied(ctx, AgentError(ctx))
    BY <1>1, EscalateGood DEF AgentError, NothingForgotten
  <2>. QED
    BY <1>1, <1>2, <1>6, <2>1, NothingElseCloses, DeliverGoesBy, SixSlots DEF DependencyFailed
<1>7. CASE CallerHungUp
  BY <1>1, <1>2, <1>7, NothingElseCloses, HungUpGood, DeliverGoesBy, SixSlots DEF CallerHungUp
<1>8. CASE HazardRaised
  <2>1. ctx' = Transition(ctx, HazardDetected(ctx)).ctx
    BY <1>8 DEF HazardRaised, Deliver
  <2>2. CASE Interruptible(ctx.state)
    <3>1. ~ctx.guided
      BY <2>2 DEF IInv, HazardHeld, PhaseOf, Interruptible
    <3>2. ctx'.state = "EMERGENCY"
      BY <1>1, <2>1, <2>2, <3>1, HazardSound
    <3>. QED
      BY <3>2, BeforeIs DEF GoesBy, Past
  <2>3. CASE ~Interruptible(ctx.state)
    <3>1. HazardDetected(ctx) = Reject(ctx)
      BY <2>3, Zenon DEF HazardDetected
    <3>2. ctx' = ctx
      BY <2>1, <3>1 DEF Transition, Reject
    <3>. QED
      BY <3>2 DEF GoesBy
  <2>. QED
    BY <2>2, <2>3
<1>9. ASSUME NEW k \in SlotKeys, CallerConfirmed(k)
      PROVE  GoesBy(ctx, ctx')
  BY <1>1, <1>2, <1>9, NothingElseCloses, ConfirmedGood, DeliverGoesBy DEF CallerConfirmed
<1>10. ASSUME NEW k \in SlotKeys, CallerRetracted(k)
       PROVE  GoesBy(ctx, ctx')
  BY <1>1, <1>2, <1>10, NothingElseCloses, RetractedGood, DeliverGoesBy DEF CallerRetracted
<1>11. ASSUME NEW k \in SlotKeys, NothingExtracted(k)
       PROVE  GoesBy(ctx, ctx')
  <2>1. Deliver(ExtractionFailed(ctx, k))
    BY <1>11 DEF NothingExtracted
  <2>2. ~Terminal(ctx.state) => /\ GoodApplied(ctx, ExtractionFailed(ctx, k))
                                /\ ExtractionFailed(ctx, k).ctx.state # "CLOSE"
    BY <1>1, <1>2, NothingElseCloses, RecordFailureGood DEF ExtractionFailed
  <2>. QED
    BY <2>1, <2>2, DeliverGoesBy
<1>12. ASSUME NEW k \in SlotKeys, NEW r \in Readings[k], ValueHeard(k, r)
       PROVE  GoesBy(ctx, ctx')
  <2>1. Deliver(SlotFilled(ctx, k, r))
    BY <1>12 DEF ValueHeard
  <2>2. r \in Reading
    BY ConversationAssumption
  <2>3. ~Terminal(ctx.state) => /\ GoodApplied(ctx, SlotFilled(ctx, k, r))
                                /\ SlotFilled(ctx, k, r).ctx.state # "CLOSE"
    BY <1>1, <1>2, <2>2, NothingElseCloses, FilledGood
  <2>. QED
    BY <2>1, <2>3, DeliverGoesBy
<1>. QED
  BY <1>3, <1>4, <1>5, <1>6, <1>7, <1>8, <1>9, <1>10, <1>11, <1>12 DEF Next

\* advance() stops neither short nor past: after every event a live call stands in a
\* state that lacks something, and no state it has just gone past lacks anything
\* (machine.ts advance(), called by transition() after every accepted event).
THEOREM CallsSettle == Spec => NeitherShortNorPast
<1>1. ASSUME IInv, [Next]_vars, IInv'
      PROVE  [ /\ Terminal(ctx'.state) \/ Wanting(ctx', ctx'.state)
               /\ \A s \in Past(ctx') \ Past(ctx) : ~Wanting(ctx', s) ]_ctx
  <2>1. CASE UNCHANGED vars
    BY <2>1 DEF vars
  <2>2. CASE Next
    <3>1. \A s \in Past(ctx') \ Past(ctx) : ~Wanting(ctx', s)
      BY <1>1, <2>2, NextGoesBy DEF GoesBy
    <3>2. (ctx \in Context /\ ~CanLeave(ctx))'
      BY <1>1 DEF IInv, TypeOK
    <3>3. ctx' \in Context /\ ~CanLeave(ctx')
      BY <3>2 DEF CanLeave, SlotsReady, Blocked
    <3>4. Terminal(ctx'.state) \/ Wanting(ctx', ctx'.state)
      BY <3>3, CanLeaveIs DEF Context
    <3>. QED
      BY <3>1, <3>4
  <2>. QED
    BY <1>1, <2>1, <2>2
<1>. QED
  BY Invariance, <1>1, PTL DEF Spec, NeitherShortNorPast

\* A slot that fails too often always ends the call (machine.ts
\* recordExtractionFailure).
THEOREM FailuresEscalate == Spec => []FailuresBelowLimit
<1>1. IInv => FailuresBelowLimit
  BY DEF IInv, FailuresBelowLimit, Sound, Failed
<1>. QED
  BY Invariance, <1>1, PTL

\* No dead air, and nothing said twice: a transition asks the runtime for one thing, or had
\* a reason to ask for none (transition() and nextPrompt(), machine.ts).
THEOREM OneThingAtATime == Spec => []OneThingToSay
<1>1. ASSUME IInv PROVE OneThingToSay
  <2>1. Answered /\ ctx \in Context
    BY <1>1 DEF IInv, TypeOK
  <2>2. Len(effects) <= 1
    BY <2>1, EffectsType DEF Answered
  <2>3. NothingToAsk(ctx) =>
          \/ Terminal(ctx.state) \/ ctx.state = "EMERGENCY"
          \/ \E k \in SlotKeys : ctx.slots[k] # Empty /\ ctx.slots[k].verdict = "invalid"
    BY DEF NothingToAsk, PhaseOf
  <2>. QED
    BY <2>1, <2>2, <2>3 DEF OneThingToSay, Answered
<1>. QED
  BY Invariance, <1>1, PTL

\* Every call is a call of CallLifecycle: interrupted at most once, ended exactly
\* once, and never booked after an emergency (transition() and advance()).
THEOREM RefinesLifecycle == Spec => ImplementsLifecycle
<1>1. Init => Lifecycle!Init
  BY DEF Init, initialContext, Lifecycle!Init, PhaseOf, Terminal
<1>2. ASSUME IInv, [Next]_vars
      PROVE  [Lifecycle!Next]_(Lifecycle!lifecycleVars)
  <2>1. IInv' /\ (Moves \/ UNCHANGED ctx)
    BY <1>2, NextIInv, StutterIInv
  <2>2. Sound(ctx) /\ Sound(ctx') /\ Goes(ctx, ctx')
    BY <1>2, <2>1 DEF IInv, Sound, Booked, Ended, Failed, Moves, Goes, Evolves
  <2>3. EndsOf(PhaseOf(ctx)) \subseteq Lifecycle!EndingsOf(PhaseOf(ctx))
    BY DEF EndsOf, Lifecycle!EndingsOf, Lifecycle!Endings
  <2>. QED
    BY <2>2, <2>3, GoesCases
    DEF Lifecycle!Next, Lifecycle!Interrupt, Lifecycle!End, Lifecycle!lifecycleVars
<1>. QED
  BY Invariance, <1>1, <1>2, PTL DEF Spec, ImplementsLifecycle, Lifecycle!Spec

=============================================================================
