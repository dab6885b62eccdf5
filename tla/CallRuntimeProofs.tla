-------------------------- MODULE CallRuntimeProofs --------------------------
(***************************************************************************)
(* What the interleavings of the runtime cannot break, for every set of    *)
(* tasks and readings, however lines fall silent.  The invariant says of   *)
(* each waiting task that what it waits for still fits the machine by the  *)
(* time it comes, whatever other tasks have made of the call meanwhile.    *)
(***************************************************************************)
EXTENDS CallRuntime, CallMachineProofs

Abouts == SlotKeys \cup Reasons \cup {"none", "start", "greet"}
Waits == [type : FrameTypes, about : Abouts, value : Values \cup {Empty}]

Escalating == {"ESCALATE", "handOff"}
Committing == {"CREATE_PENDING_BOOKING", "submit"}

\* The frames of the one conversation with the caller.
TalkTypes == {"GREET", "begin", "ASK_FOR", "READ_BACK", "extract", "retry",
              "SAY_FILLER", "answer", "ANSWER_FAQ"}

\* The call is over or in an emergency, and nothing will be booked in it.
TakenAway(c) == PhaseOf(c) # "live" /\ c.outcome # "BOOKED"

\* A task's wait agrees with the machine, and still will when the machine moves on.
Agrees(f, c) ==
  /\ f.type \in {"ASK_FOR", "READ_BACK", "extract", "retry"} => f.about \in SlotKeys
  /\ f.type = "ESCALATE" => f.about \in Reasons
  /\ f.type \in Committing => c.outcome = "BOOKED"
  /\ f.type \in Escalating => TakenAway(c)
  /\ f.type = "handOff" \/ (f.type = "ESCALATE" /\ f.about # "EMERGENCY_HAZARD") =>
       Terminal(c.state)

Plain ==
  /\ expecting \in [type : {"nothing", "extract", "confirm"}, about : SlotKeys \cup {"none"}]
  /\ expecting.type # "nothing" => expecting.about \in SlotKeys
  /\ done \in BOOLEAN /\ recorderStarted \in BOOLEAN /\ started \in BOOLEAN
  /\ faqAnswers \in Nat
  /\ parties \in Parties /\ tape \in {"off", "running", "stopped"}
  /\ line \subseteq {"transferred", "hungUp"} /\ told \subseteq {"disclosure"}
  /\ offered \in [SlotKeys -> Values \cup {Empty}]

Typed == Plain /\ frames \in [Tasks -> Waits] /\ submitted \in {0, 1}

MayTape == mode # "DO_NOT_RECORD" /\ (WasDisclosed \/ mode = "RECORD_FROM_ANSWER")

\* A recorder that runs, or is being started, may run.
Taping ==
  /\ recorderStarted => tape # "off"
  /\ tape # "off" => MayTape
  /\ \A t \in Tasks : frames[t].type = "begin" => MayTape

Ending ==
  /\ \A t \in Tasks : Agrees(frames[t], ctx)
  /\ \A t, u \in Tasks : frames[t].type \in Committing /\ frames[u].type \in Committing => t = u
  /\ submitted = 1 => ctx.outcome = "BOOKED"
  /\ submitted = 1 => \A t \in Tasks : frames[t].type \notin Committing
  /\ line # {} => TakenAway(ctx)

Guided(t) == frames[t].type = "ESCALATE" /\ frames[t].about = "EMERGENCY_HAZARD"

\* An emergency is being told its guidance, a finished call has ended, and a call not
\* yet begun stands at its beginning.
Under ==
  /\ ctx.state = "EMERGENCY" => \E t \in Tasks : Guided(t)
  /\ done => Terminal(ctx.state)
  /\ ~started => ctx = initialContext /\ AllIdle

IInv == MachineFits(ctx) /\ Typed /\ Taping /\ Ending /\ Under

-----------------------------------------------------------------------------
(* The caller's side, when turns do not overlap. *)

Talks(t) == frames[t].type \in TalkTypes

\* What the next turn is expected to answer is what the machine asks for, and a value
\* to be confirmed is the one that was said to be confirmed.
Expected(c, e, h) ==
  /\ \E prompt \in {"ASK_FOR", "READ_BACK"} :
       /\ NextPrompt(c) = << Effect(prompt, e.about) >>
       /\ e.type = (IF prompt = "ASK_FOR" THEN "extract" ELSE "confirm")
  /\ e.type = "confirm" => h[e.about] = c.slots[e.about].value

\* A prompt being said is the one the machine asks for; a value being read back is the
\* one that is held; an answer being read leaves the old expectation standing.
Current(f, c, e, h) ==
  /\ f.type = "READ_BACK" =>
       c.slots[f.about] # Empty /\ f.value = c.slots[f.about].value
  /\ PhaseOf(c) = "live" =>
       /\ f.type \in {"ASK_FOR", "READ_BACK"} => NextPrompt(c) = << Effect(f.type, f.about) >>
       /\ f.type \in {"extract", "retry"} => Expected(c, e, h)

OfferedRight(slots, h) ==
  \A k \in SlotKeys : slots[k] # Empty /\ slots[k].confirmed => h[k] = slots[k].value

TurnsFit ==
  /\ \A t, u \in Tasks : Talks(t) /\ Talks(u) => t = u
  /\ \A t \in Tasks : Current(frames[t], ctx, expecting, offered)
  /\ OfferedRight(ctx.slots, offered)
  /\ PhaseOf(ctx) = "live" /\ started /\ (\A t \in Tasks : ~Talks(t)) =>
       Expected(ctx, expecting, offered)

-----------------------------------------------------------------------------
(* What a machine that moves leaves a task to wait for. *)

\* What a task waits for still agrees with the machine wherever the machine goes.
LEMMA GoesKeeps ==
  ASSUME NEW c, NEW d, Sound(c), Sound(d), Goes(c, d)
  PROVE  /\ Terminal(c.state) => d = c
         /\ c.outcome = "BOOKED" => d = c
         /\ TakenAway(c) => TakenAway(d)
         /\ \A f : Agrees(f, c) => Agrees(f, d)
<1>1. c.state \in States /\ d.state \in States
  BY DEF Sound, Context
<1>2. Terminal(c.state) => d = c
  BY <1>1, PhaseCases DEF Goes, Evolves, Terminal
<1>3. c.outcome = "BOOKED" => d = c
  BY <1>2 DEF Sound, Ended
<1>4. TakenAway(c) => TakenAway(d)
  <2>1. PhaseOf(c) = "emergency" =>
          PhaseOf(d) = "emergency" \/ (PhaseOf(d) = "over" /\ d.outcome # "BOOKED")
    BY DEF Goes, Evolves, EndsOf
  <2>2. PhaseOf(d) = "emergency" => d.outcome # "BOOKED"
    BY <1>1, PhaseCases DEF Sound, Ended, Terminal
  <2>3. PhaseOf(c) = "over" => d = c
    BY <1>1, <1>2, PhaseCases DEF Terminal
  <2>. QED
    BY <1>1, <2>1, <2>2, <2>3, PhaseCases DEF TakenAway
<1>. QED
  BY <1>2, <1>3, <1>4 DEF Agrees

-----------------------------------------------------------------------------
(* What performing an effect leaves a task waiting for. *)

\* A slot that is read back is held, and not yet confirmed.
LEMMA ReadBackIsHeld ==
  ASSUME NEW c, c \in Context, NEW k, NextPrompt(c) = << Effect("READ_BACK", k) >>
  PROVE  k \in SlotKeys /\ c.slots[k] \in Entry /\ c.slots[k] # Empty
<1> DEFINE keys == PendingConfirmations(c.slots)
<1>1. keys \subseteq SlotKeys /\ Unmet(c) \subseteq SlotKeys
  BY RequiredSlotsType DEF PendingConfirmations, Unmet, Context
<1>2. \A type, j : << Effect(type, j) >> = << Effect("READ_BACK", k) >> => type = "READ_BACK" /\ j = k
  BY DEF Effect
<1>3. c.state = "CONFIRM"
  <2>1. ~Terminal(c.state) /\ c.state # "GREETING"
    BY <1>2, NextPromptCases
  <2>2. ASSUME c.state # "CONFIRM" PROVE FALSE
    <3>1. PromptFor("ASK_FOR", Unmet(c)) = << Effect("READ_BACK", k) >>
      BY <2>1, <2>2, NextPromptCases
    <3>2. PICK e \in MachineEffect :
            PromptFor("ASK_FOR", Unmet(c)) = << e >> /\ e.type = "ASK_FOR"
      BY <1>1, <3>1, PromptForIs
    <3>. QED
      BY <3>1, <3>2 DEF Effect
  <2>. QED
    BY <2>2
<1>4. NextPrompt(c) = PromptFor("READ_BACK", keys)
  BY <1>3, NextPromptCases
<1>5. keys # {}
  BY <1>4 DEF PromptFor
<1>6. PromptFor("READ_BACK", keys) = << Effect("READ_BACK", FirstOf(keys)) >>
  BY <1>5, Zenon DEF PromptFor
<1>7. k = FirstOf(keys)
  BY <1>2, <1>4, <1>6
<1>8. k \in keys
  BY <1>1, <1>5, <1>7, FirstOfType
<1>. QED
  BY <1>1, <1>8 DEF PendingConfirmations, NeedsConfirmation, Context, Books

\* What a task waits for once an effect of `c` has been performed.
Performed(f, c, effects) ==
  /\ f \in Waits /\ Agrees(f, c)
  /\ f.type \in {"idle", "GREET", "ASK_FOR", "READ_BACK", "ESCALATE", "CREATE_PENDING_BOOKING"}
  /\ f.type = "idle" => effects = << >> \/ done
  /\ f.type # "idle" => effects # << >>
  /\ f.type \in TalkTypes => PhaseOf(c) = "live"
  /\ PhaseOf(c) = "live" => f.type \in TalkTypes \cup {"idle"}
  /\ f.type = "READ_BACK" =>
       c.slots[f.about] # Empty /\ f.value = c.slots[f.about].value
  /\ f.type \in {"ASK_FOR", "READ_BACK"} => NextPrompt(c) = << Effect(f.type, f.about) >>

LEMMA SpeakingIs ==
  ASSUME NEW c, Sound(c), NEW e \in MachineEffect, Fits(e, c)
  PROVE  Performed(Speaking(c, e), c, << e >>)
<1> DEFINE f == Speaking(c, e)
<1>1. f.type = e.type /\ f.about = e.about
  BY DEF Speaking
<1>2. e.type \in {"GREET", "ASK_FOR", "READ_BACK", "ESCALATE", "CREATE_PENDING_BOOKING"}
      /\ e.about \in SlotKeys \cup Reasons \cup {"none"}
      /\ e = Effect(e.type, e.about)
  BY DEF MachineEffect, Effect
<1>3. e.type = "READ_BACK" => c.slots[e.about] \in Entry /\ c.slots[e.about] # Empty
  BY <1>2, ReadBackIsHeld DEF Fits, Sound
<1>4. e.type = "READ_BACK" => f.value = c.slots[e.about].value
  BY DEF Speaking
<1>5. f.value \in Values \cup {Empty}
  BY <1>3 DEF Speaking, Entry
<1>6. f = [type |-> e.type, about |-> e.about, value |-> f.value]
  BY DEF Speaking
<1> HIDE DEF f
<1>7. f \in Waits
  BY <1>2, <1>5, <1>6 DEF Waits, FrameTypes, Lines, Abouts
<1>8. Agrees(f, c)
  BY <1>1, <1>2 DEF Fits, Agrees, Committing, Escalating, TakenAway
<1>9. PhaseOf(c) = "live" <=> e.type \in {"GREET", "ASK_FOR", "READ_BACK"}
  <2>1. c.outcome = "BOOKED" => PhaseOf(c) # "live"
    BY DEF Sound, Ended, PhaseOf
  <2>. QED
    BY <1>2, <2>1 DEF Fits
<1>10. e.type \in {"ASK_FOR", "READ_BACK"} => NextPrompt(c) = << Effect(e.type, e.about) >>
  BY <1>2 DEF Fits
<1>11. << e >> # << >>
  OBVIOUS
<1>. QED
  BY <1>1, <1>2, <1>3, <1>4, <1>7, <1>8, <1>9, <1>10, <1>11 DEF Performed, TalkTypes, f

LEMMA IdleIs ==
  ASSUME NEW c, NEW effects, effects = << >> \/ done
  PROVE  Performed(Idle, c, effects)
<1>1. Idle.type = "idle" /\ Idle \in Waits
  BY DEF Idle, Frame, Waits, FrameTypes, Abouts
<1> HIDE DEF Idle
<1>. QED
  BY <1>1 DEF Performed, Agrees, TalkTypes, Committing, Escalating

LEMMA PerformIs ==
  ASSUME NEW c, Sound(c), NEW effects, OneEffect(effects, c), NEW t \in Tasks,
         Perform(t, c, effects)
  PROVE  \E f : Wait(t, f) /\ Performed(f, c, effects)
                /\ \A e : effects = << e >> /\ ~done => f = Speaking(c, e)
<1>1. CASE effects = << >> \/ done
  <2>1. Wait(t, Idle)
    BY <1>1, Zenon DEF Perform
  <2>2. \A e : ~(effects = << e >> /\ ~done)
    BY <1>1
  <2>. QED
    BY <1>1, <2>1, <2>2, IdleIs
<1>2. CASE ~(effects = << >> \/ done)
  <2>1. PICK e \in MachineEffect : effects = << e >> /\ Fits(e, c)
    BY <1>2 DEF OneEffect
  <2>2. Head(effects) = e /\ \A x : effects = << x >> => x = e
    BY <2>1
  <2>3. Wait(t, Speaking(c, e))
    BY <1>2, <2>2, Zenon DEF Perform
  <2>. QED
    BY <2>1, <2>2, <2>3, SpeakingIs
<1>. QED
  BY <1>1, <1>2

-----------------------------------------------------------------------------
(* The invariant under one step of one task. *)

LEMMA InitIInv == Init => IInv
<1> SUFFICES ASSUME Init
             PROVE  IInv
  OBVIOUS
<1>1. ctx = initialContext
  BY DEF Init
<1>2. /\ initialContext \in Context /\ initialContext.state = "GREETING"
      /\ initialContext.outcome = "none" /\ ~initialContext.greeted /\ ~initialContext.guided
      /\ \A k \in SlotKeys : initialContext.slots[k] = Empty /\ initialContext.failures[k] = 0
  BY DEF initialContext, Context, States, Books, EmptyBook, Outcomes
<1>3. MachineFits(initialContext)
  BY InitFits
<1>4. Idle \in Waits /\ Idle.type = "idle" /\ NotExpecting.type = "nothing"
      /\ NotExpecting \in [type : {"nothing", "extract", "confirm"},
                           about : SlotKeys \cup {"none"}]
  BY DEF Idle, Frame, Waits, FrameTypes, Abouts, NotExpecting, Effect
<1> HIDE DEF Idle, NotExpecting
<1>5. frames \in [Tasks -> Waits] /\ \A t \in Tasks : frames[t] = Idle
  BY <1>4 DEF Init
<1>6. Typed
  <2>1. offered \in [SlotKeys -> Values \cup {Empty}]
    BY DEF Init, EmptyBook
  <2>. QED
    BY <1>4, <1>5, <2>1 DEF Init, Typed, Plain
<1>7. Taping
  BY <1>4, <1>5 DEF Init, Taping
<1>8. Ending
  BY <1>4, <1>5 DEF Init, Ending, Agrees, Escalating, Committing
<1>9. Under
  BY <1>1, <1>2, <1>5 DEF Init, Under, AllIdle
<1>. QED
  BY <1>1, <1>3, <1>6, <1>7, <1>8, <1>9 DEF IInv

\* One step of one task: it waits for something else, and the rest of the call moves
\* no further than that task's wait allows.
LEMMA StepKeeps ==
  ASSUME IInv, NEW t \in Tasks, NEW f \in Waits, Wait(t, f),
         MachineFits(ctx'), Goes(ctx, ctx'), Agrees(f, ctx'),
         Plain', parties' = parties, started',
         f.type \in Committing =>
           ctx.outcome # "BOOKED" \/ frames[t].type \in Committing,
         \/ submitted' = submitted
         \/ submitted' = submitted + 1 /\ frames[t].type \in Committing /\ f.type \notin Committing,
         line' = line \/ frames[t].type \in Escalating,
         WasDisclosed => WasDisclosed',
         f.type = "begin" => MayTape',
         recorderStarted' => tape' # "off",
         tape' # "off" => tape # "off" \/ recorderStarted \/ frames[t].type = "begin",
         done' => done \/ Terminal(ctx'.state),
         ctx'.state = "EMERGENCY" =>
           \/ f.type = "ESCALATE" /\ f.about = "EMERGENCY_HAZARD"
           \/ ctx.state = "EMERGENCY" /\ ~Guided(t)
  PROVE  IInv'
<1>1. /\ frames \in [Tasks -> Waits] /\ frames' = [frames EXCEPT ![t] = f]
      /\ Sound(ctx) /\ Sound(ctx') /\ submitted \in {0, 1}
  BY DEF IInv, Typed, Wait, MachineFits
<1>2. /\ frames' \in [Tasks -> Waits] /\ frames'[t] = f
      /\ \A u \in Tasks : u # t => frames'[u] = frames[u]
  BY <1>1
<1>3. /\ Terminal(ctx.state) => ctx' = ctx
      /\ ctx.outcome = "BOOKED" => ctx' = ctx
      /\ TakenAway(ctx) => TakenAway(ctx')
      /\ \A g : Agrees(g, ctx) => Agrees(g, ctx')
  BY <1>1, GoesKeeps
<1>4. Ending'
  <2>1. \A u \in Tasks : Agrees(frames'[u], ctx')
    BY <1>2, <1>3 DEF IInv, Ending
  <2>2. \A u \in Tasks : frames[u].type \in Committing => ctx.outcome = "BOOKED"
    BY DEF IInv, Ending, Agrees
  <2>3. f.type \in Committing =>
          /\ submitted = 0
          /\ \A u \in Tasks : u # t => frames[u].type \notin Committing
    BY <1>1, <2>2 DEF IInv, Ending
  <2>4. \A u, v \in Tasks :
          frames'[u].type \in Committing /\ frames'[v].type \in Committing => u = v
    BY <1>2, <2>3 DEF IInv, Ending
  <2>5. submitted' \in {0, 1} /\ (submitted' = 1 =>
          /\ ctx'.outcome = "BOOKED"
          /\ \A u \in Tasks : frames'[u].type \notin Committing)
    <3>1. CASE submitted' = submitted
      BY <1>1, <1>2, <1>3, <2>3, <3>1 DEF IInv, Ending
    <3>2. CASE submitted' = submitted + 1 /\ frames[t].type \in Committing
               /\ f.type \notin Committing
      <4>1. submitted = 0
        BY <1>1, <3>2 DEF IInv, Ending
      <4>2. \A u \in Tasks : u # t => frames[u].type \notin Committing
        BY <3>2 DEF IInv, Ending
      <4>. QED
        BY <1>2, <1>3, <2>2, <3>2, <4>1, <4>2
    <3>. QED
      BY <3>1, <3>2
  <2>6. line' # {} => TakenAway(ctx')
    <3>1. frames[t].type \in Escalating => TakenAway(ctx)
      BY DEF IInv, Ending, Agrees
    <3>. QED
      BY <1>3, <3>1 DEF IInv, Ending
  <2>. QED
    BY <2>1, <2>4, <2>5, <2>6 DEF Ending
<1>5. submitted' \in {0, 1}
  BY <1>1 DEF IInv, Ending
<1>6. Taping'
  <2>1. mode' = mode
    BY DEF mode
  <2>2. MayTape => MayTape'
    BY <2>1 DEF MayTape
  <2>3. tape' # "off" => MayTape
    BY DEF IInv, Taping
  <2>. QED
    BY <1>2, <2>2, <2>3 DEF IInv, Taping
<1>7. Under'
  <2>1. ctx'.state = "EMERGENCY" => \E u \in Tasks : Guided(u)'
    BY <1>2 DEF IInv, Under, Guided
  <2>2. done' => Terminal(ctx'.state)
    BY <1>3 DEF IInv, Under
  <2>. QED
    BY <2>1, <2>2 DEF Under
<1>. QED
  BY <1>2, <1>4, <1>5, <1>6, <1>7 DEF IInv, Typed

\* What is left alone by a step that only moves the machine and its task.
Ports ==
  << parties, recorderStarted, tape, line, submitted, told >>

LEMMA Waiting ==
  ASSUME IInv, NEW t \in Tasks
  PROVE  /\ frames[t] \in Waits
         /\ frames[t].type # "idle" => started
<1>1. Idle.type = "idle"
  BY DEF Idle, Frame
<1>. QED
  BY <1>1 DEF IInv, Typed, Under, AllIdle

\* An event other than a hazard.
LEMMA DriveKeeps ==
  ASSUME IInv, NEW t \in Tasks, NEW a,
         ~Terminal(ctx.state) => /\ GoodApplied(ctx, a) /\ Clean(a.ctx)
                                 /\ a.ctx.guided => PhaseOf(ctx) # "live",
         Drive(t, a), Plain', started', done' = done, parties' = parties,
         submitted' = submitted, line' = line, ~Guided(t),
         WasDisclosed => WasDisclosed',
         recorderStarted' => tape' # "off",
         tape' # "off" => tape # "off" \/ recorderStarted \/ frames[t].type = "begin"
  PROVE  IInv'
<1> DEFINE r == Transition(ctx, a)
<1>1. /\ MachineFits(r.ctx) /\ Goes(ctx, r.ctx) /\ Evolves(ctx, r.ctx)
      /\ OneEffect(r.effects, r.ctx)
      /\ r.effects # << >> => ~Terminal(ctx.state)
  BY DriveFits DEF IInv
<1>2. ctx' = r.ctx /\ Perform(t, r.ctx, r.effects)
  BY DEF Drive
<1> HIDE DEF r
<1>3. PICK f : Wait(t, f) /\ Performed(f, r.ctx, r.effects)
  BY <1>1, <1>2, PerformIs DEF MachineFits
<1>4. f.type \in Committing => ctx.outcome # "BOOKED"
  <2>1. f.type \in Committing => ~Terminal(ctx.state)
    BY <1>1, <1>3 DEF Performed, Committing
  <2>. QED
    BY <2>1 DEF IInv, MachineFits, Sound, Ended
<1>5. ctx'.state = "EMERGENCY" => ctx.state = "EMERGENCY"
  <2>1. ctx.state \in States /\ ctx'.state \in States
    BY <1>1, <1>2 DEF IInv, MachineFits, Sound, Context
  <2>. QED
    BY <1>1, <1>2, <2>1, PhaseCases DEF Evolves
<1>6. f \in Waits /\ Agrees(f, ctx') /\ f.type # "begin"
  BY <1>2, <1>3 DEF Performed
<1>. QED
  BY <1>1, <1>2, <1>3, <1>4, <1>5, <1>6, StepKeeps

\* The next prompt of the machine as it stands.
LEMMA PromptKeeps ==
  ASSUME IInv, NEW t \in Tasks, Prompt(t), ctx' = ctx,
         Plain', started', done' = done, parties' = parties,
         submitted' = submitted, line' = line, ~Guided(t),
         WasDisclosed => WasDisclosed',
         recorderStarted' => tape' # "off",
         tape' # "off" => tape # "off" \/ recorderStarted \/ frames[t].type = "begin"
  PROVE  IInv'
<1>1. Sound(ctx) /\ OneEffect(NextPrompt(ctx), ctx)
  BY PromptFits DEF IInv, MachineFits, Sound
<1>2. PICK f : Wait(t, f) /\ Performed(f, ctx, NextPrompt(ctx))
  BY <1>1, PerformIs DEF Prompt
<1>3. f.type \in Committing => ctx.outcome # "BOOKED"
  <2>1. f.type # "idle" => ~Terminal(ctx.state)
    BY <1>2, NextPromptCases DEF Performed
  <2>. QED
    BY <2>1 DEF IInv, MachineFits, Sound, Ended, Committing
<1>4. Goes(ctx, ctx) /\ f \in Waits /\ Agrees(f, ctx) /\ f.type # "begin"
  BY <1>2 DEF Goes, Evolves, Performed
<1>5. MachineFits(ctx)
  BY DEF IInv
<1>. QED
  BY <1>2, <1>3, <1>4, <1>5, StepKeeps

\* A task goes on to another wait, and the machine is not asked.
LEMMA WaitKeeps ==
  ASSUME IInv, NEW t \in Tasks, NEW f \in Waits, Wait(t, f), ctx' = ctx, Agrees(f, ctx),
         Plain', started', done' = done, UNCHANGED Ports, ~Guided(t),
         f.type \in Committing => frames[t].type \in Committing,
         f.type = "begin" => MayTape
  PROVE  IInv'
<1>1. Goes(ctx, ctx) /\ MachineFits(ctx)
  BY DEF Goes, Evolves, IInv
<1>2. f.type = "begin" => MayTape'
  BY DEF Ports, MayTape, mode, WasDisclosed
<1>3. /\ recorderStarted' => tape' # "off"
      /\ WasDisclosed => WasDisclosed'
  BY DEF Ports, IInv, Taping, WasDisclosed
<1>. QED
  BY <1>1, <1>2, <1>3, StepKeeps DEF Ports

\* finish(), of a call that is over.
LEMMA FinishKeeps ==
  ASSUME IInv, NEW t \in Tasks, Finish(t), MachineFits(ctx'), Goes(ctx, ctx'),
         Terminal(ctx'.state), parties' = parties, started', line' = line,
         told' = told, faqAnswers' \in Nat, offered' = offered, started' \in BOOLEAN,
         \/ submitted' = submitted
         \/ submitted' = submitted + 1 /\ frames[t].type \in Committing
  PROVE  IInv'
<1>1. PICK f \in {Idle, Frame("stop", "none")} : Wait(t, f)
  BY DEF Finish
<1>2. f \in Waits /\ f.type \in {"idle", "stop"}
  BY <1>1 DEF Idle, Frame, Waits, FrameTypes, Abouts
<1>3. Agrees(f, ctx') /\ f.type \notin Committing /\ f.type # "begin"
  BY <1>2 DEF Agrees, Committing, Escalating
<1>4. /\ recorderStarted' = recorderStarted
      /\ tape' = IF recorderStarted THEN "stopped" ELSE tape
  BY DEF Finish
<1>5. done' = TRUE /\ expecting' = NotExpecting
  BY DEF Finish
<1>6. Plain'
  <2>1. NotExpecting = [type |-> "nothing", about |-> "none"]
    BY DEF NotExpecting, Effect
  <2>. QED
    BY <1>4, <1>5, <2>1 DEF IInv, Typed, Plain
<1>7. /\ recorderStarted' => tape' # "off"
      /\ tape' # "off" => tape # "off" \/ recorderStarted
      /\ WasDisclosed => WasDisclosed'
  BY <1>4 DEF IInv, Taping, WasDisclosed
<1>8. ctx'.state # "EMERGENCY"
  BY DEF Terminal
<1>. QED
  BY <1>1, <1>2, <1>3, <1>6, <1>7, <1>8, StepKeeps

-----------------------------------------------------------------------------
(* The events the runtime sends. *)

-----------------------------------------------------------------------------
(* One lemma per entry point and per answer of a port. *)

LEMMA StartKeeps ==
  ASSUME IInv, NEW t \in Tasks, Start(t)
  PROVE  IInv'
<1>1. started' = TRUE /\ ctx' = ctx /\ done' = done /\ parties' = parties /\ told' = told
      /\ UNCHANGED << callVars, tapeVars, portVars, observers >> /\ frames[t] = Idle
  BY DEF Start, callVars, observers
<1>2. Plain'
  BY <1>1 DEF IInv, Typed, Plain, callVars, tapeVars, portVars, observers
<1>3. ~Guided(t)
  BY <1>1 DEF Guided, Idle, Frame
<1>4. CASE mode = "RECORD_FROM_ANSWER"
  <2> DEFINE f == Frame("begin", "start")
  <2>1. f \in Waits /\ f.type = "begin" /\ f.about = "start"
    BY DEF Frame, Waits, FrameTypes, Abouts
  <2>2. Wait(t, f)
    BY <1>4, Zenon DEF Start
  <2> HIDE DEF f
  <2>3. Agrees(f, ctx) /\ f.type \notin Committing
    BY <2>1 DEF Agrees, Committing, Escalating
  <2>4. MayTape
    BY <1>4 DEF MayTape
  <2>. QED
    BY <1>1, <1>2, <1>3, <2>1, <2>2, <2>3, <2>4, WaitKeeps
    DEF Ports, tapeVars, portVars, observers
<1>5. CASE mode # "RECORD_FROM_ANSWER"
  <2>1. Prompt(t)
    BY <1>5, Zenon DEF Start
  <2>2. recorderStarted' => tape' # "off"
    BY <1>1 DEF IInv, Taping, tapeVars
  <2>. QED
    BY <1>1, <1>2, <1>3, <2>1, <2>2, PromptKeeps
    DEF tapeVars, portVars, observers, WasDisclosed
<1>. QED
  BY <1>4, <1>5

\* What an action that leaves the ports and the clockwork alone keeps.
LEMMA QuietKeeps ==
  ASSUME IInv, Quiet
  PROVE  /\ done' = done /\ started' = started /\ parties' = parties
         /\ submitted' = submitted /\ line' = line /\ told' = told /\ offered' = offered
         /\ recorderStarted' = recorderStarted /\ tape' = tape /\ UNCHANGED Ports
         /\ recorderStarted' => tape' # "off"
         /\ WasDisclosed => WasDisclosed'
         /\ expecting' = expecting /\ faqAnswers' \in Nat => Plain'
BY DEF Quiet, tapeVars, portVars, observers, Ports, WasDisclosed, IInv, Taping, Typed, Plain

\* An event that only the machine hears of.
LEMMA QuietDriveKeeps ==
  ASSUME IInv, NEW t \in Tasks, started, ~Guided(t), NEW a, Sendable(ctx, a),
         Drive(t, a), UNCHANGED << expecting, faqAnswers >>, Quiet
  PROVE  IInv'
<1>1. faqAnswers' \in Nat /\ expecting' = expecting
  BY DEF IInv, Typed, Plain
<1>. QED
  BY <1>1, QuietKeeps, DriveKeeps DEF Sendable

LEMMA HazardKeeps ==
  ASSUME IInv, NEW t \in Tasks, HazardHeard(t)
  PROVE  IInv'
<1> DEFINE r == Transition(ctx, HazardDetected(ctx))
<1>1. /\ Drive(t, HazardDetected(ctx)) /\ UNCHANGED << expecting, faqAnswers >> /\ Quiet
      /\ started /\ ~done /\ frames[t] = Idle
  BY DEF HazardHeard, Entered
<1>2. /\ MachineFits(r.ctx) /\ Goes(ctx, r.ctx)
      /\ OneEffect(r.effects, r.ctx)
      /\ r.effects # << >> => ~Terminal(ctx.state)
      /\ \/ r.ctx = ctx
         \/ /\ r.ctx.state = "EMERGENCY" /\ PhaseOf(ctx) = "live"
            /\ r.effects = << Effect("ESCALATE", "EMERGENCY_HAZARD") >>
  BY HazardFits DEF IInv
<1>3. ctx' = r.ctx /\ Perform(t, r.ctx, r.effects)
  BY <1>1 DEF Drive
<1> HIDE DEF r
<1>4. PICK f : /\ Wait(t, f) /\ Performed(f, r.ctx, r.effects)
               /\ \A e : r.effects = << e >> /\ ~done => f = Speaking(r.ctx, e)
  BY <1>2, <1>3, PerformIs DEF MachineFits
<1>5. f.type \in Committing => ctx.outcome # "BOOKED"
  <2>1. f.type \in Committing => ~Terminal(ctx.state)
    BY <1>2, <1>4 DEF Performed, Committing
  <2>. QED
    BY <2>1 DEF IInv, MachineFits, Sound, Ended
<1>6. ~Guided(t)
  BY <1>1 DEF Guided, Idle, Frame
<1>7. ctx'.state = "EMERGENCY" =>
        \/ f.type = "ESCALATE" /\ f.about = "EMERGENCY_HAZARD"
        \/ ctx.state = "EMERGENCY"
  <2>1. CASE r.ctx = ctx
    BY <1>3, <2>1
  <2>2. CASE r.effects = << Effect("ESCALATE", "EMERGENCY_HAZARD") >>
    <3>1. f = Speaking(r.ctx, Effect("ESCALATE", "EMERGENCY_HAZARD"))
      BY <1>1, <1>4, <2>2
    <3>. QED
      BY <3>1 DEF Speaking, Effect
  <2>. QED
    BY <1>2, <2>1, <2>2
<1>8. f \in Waits /\ Agrees(f, ctx') /\ f.type # "begin"
  BY <1>3, <1>4 DEF Performed
<1>9. Plain' /\ started'
  BY <1>1, QuietKeeps DEF IInv, Typed, Plain
<1>. QED
  BY <1>1, <1>2, <1>3, <1>4, <1>5, <1>6, <1>7, <1>8, <1>9, QuietKeeps, StepKeeps

LEMMA HearAnswerKeeps ==
  ASSUME IInv, NEW t \in Tasks, HearAnswer(t)
  PROVE  IInv'
<1> DEFINE f == Frame("extract", expecting.about)
<1>1. /\ Wait(t, f) /\ ctx' = ctx /\ expecting' = expecting /\ faqAnswers' = faqAnswers
      /\ Quiet /\ started /\ frames[t] = Idle /\ expecting.type # "nothing"
  BY DEF HearAnswer, TurnCompleted, Entered, callVars
<1>2. f.type = "extract" /\ f.about \in SlotKeys /\ f \in Waits
  BY <1>1 DEF IInv, Typed, Plain, Frame, Waits, FrameTypes, Abouts
<1> HIDE DEF f
<1>3. Agrees(f, ctx) /\ f.type \notin Committing
  BY <1>2 DEF Agrees, Committing, Escalating
<1>4. ~Guided(t)
  BY <1>1 DEF Guided, Idle, Frame
<1>5. faqAnswers' \in Nat
  BY <1>1 DEF IInv, Typed, Plain
<1>. QED
  BY <1>1, <1>2, <1>3, <1>4, <1>5, QuietKeeps, WaitKeeps

LEMMA HearYesKeeps ==
  ASSUME IInv, NEW t \in Tasks, HearYes(t)
  PROVE  IInv'
<1>1. /\ Drive(t, SlotConfirmed(ctx, expecting.about)) /\ Quiet
      /\ UNCHANGED << expecting, faqAnswers >>
      /\ started /\ frames[t] = Idle /\ expecting.type = "confirm"
  BY DEF HearYes, TurnCompleted, Entered
<1>2. expecting.about \in SlotKeys
  BY <1>1 DEF IInv, Typed, Plain
<1>3. ~Guided(t)
  BY <1>1 DEF Guided, Idle, Frame
<1>. QED
  BY <1>1, <1>2, <1>3, ConfirmedSendable, QuietDriveKeeps DEF IInv

LEMMA RequestHumanKeeps ==
  ASSUME IInv, NEW t \in Tasks, RequestHuman(t)
  PROVE  IInv'
<1>1. /\ Drive(t, RequestedHuman(ctx)) /\ Quiet
      /\ UNCHANGED << expecting, faqAnswers >>
      /\ started /\ frames[t] = Idle
  BY DEF RequestHuman, Entered
<1>2. ~Guided(t)
  BY <1>1 DEF Guided, Idle, Frame
<1>3. Sendable(ctx, RequestedHuman(ctx))
  BY EscalateSendable DEF RequestedHuman, IInv
<1>. QED
  BY <1>1, <1>2, <1>3, QuietDriveKeeps

LEMMA HungUpKeeps ==
  ASSUME IInv, NEW t \in Tasks, CallerHungUp(t)
  PROVE  IInv'
<1>1. /\ ctx' = Transition(ctx, HungUp(ctx)).ctx /\ Finish(t)
      /\ faqAnswers' = faqAnswers /\ parties' = parties /\ started' = started /\ started
      /\ line' = line /\ submitted' = submitted /\ told' = told /\ offered' = offered
  BY DEF CallerHungUp, Entered, portVars, observers
<1>2. MachineFits(ctx') /\ Goes(ctx, ctx') /\ Terminal(ctx'.state)
  BY <1>1, HangUpEnds DEF IInv
<1>3. faqAnswers' \in Nat /\ started' \in BOOLEAN
  BY <1>1 DEF IInv, Typed, Plain
<1>. QED
  BY <1>1, <1>2, <1>3, FinishKeeps

LEMMA GreetKeeps ==
  ASSUME IInv, NEW t \in Tasks, Greet(t)
  PROVE  IInv'
<1>1. /\ frames[t].type = "GREET" /\ told \subseteq told' /\ told' \subseteq told \cup {"disclosure"}
      /\ expecting' = expecting /\ faqAnswers' = faqAnswers /\ done' = done
      /\ parties' = parties /\ recorderStarted' = recorderStarted /\ tape' = tape
      /\ started' = started /\ line' = line /\ submitted' = submitted /\ offered' = offered
  BY DEF Greet, Spoken, tapeVars, portVars
<1>2. /\ started /\ ~Guided(t)
      /\ WasDisclosed => WasDisclosed'
      /\ told' \subseteq {"disclosure"}
  BY <1>1, Waiting DEF Guided, WasDisclosed, IInv, Typed, Plain
<1>3. Plain' /\ started' /\ (recorderStarted' => tape' # "off")
  BY <1>1, <1>2 DEF IInv, Typed, Plain, Taping
<1>4. CASE mode = "RECORD_AFTER_NOTICE" /\ WasDisclosed' /\ ~recorderStarted
  <2> DEFINE f == Frame("begin", "greet")
  <2>1. f \in Waits /\ f.type = "begin"
    BY DEF Frame, Waits, FrameTypes, Abouts
  <2>2. Wait(t, f) /\ ctx' = ctx
    BY <1>4, Zenon DEF Greet
  <2> HIDE DEF f
  <2>3. Agrees(f, ctx') /\ f.type \notin Committing
    BY <2>1 DEF Agrees, Committing, Escalating
  <2>4. MayTape'
    BY <1>1, <1>4 DEF MayTape, mode
  <2>5. MachineFits(ctx') /\ Goes(ctx, ctx')
    BY <2>2 DEF IInv, Goes, Evolves
  <2>. QED
    BY <1>1, <1>2, <1>3, <2>1, <2>2, <2>3, <2>4, <2>5, StepKeeps
<1>5. CASE ~(mode = "RECORD_AFTER_NOTICE" /\ WasDisclosed' /\ ~recorderStarted)
  <2>1. Drive(t, Greeted(ctx))
    BY <1>5, Zenon DEF Greet
  <2>2. Sendable(ctx, Greeted(ctx))
    BY GreetedSendable DEF IInv
  <2>. QED
    BY <1>1, <1>2, <1>3, <2>1, <2>2, DriveKeeps DEF Sendable
<1>. QED
  BY <1>4, <1>5

LEMMA BeginKeeps ==
  ASSUME IInv, NEW t \in Tasks, BeginRecording(t)
  PROVE  IInv'
<1>1. /\ frames[t].type = "begin" /\ recorderStarted' = TRUE /\ tape' = "running"
      /\ expecting' = expecting /\ faqAnswers' = faqAnswers /\ done' = done
      /\ parties' = parties /\ started' = started /\ told' = told /\ offered' = offered
      /\ line' = line /\ submitted' = submitted
  BY DEF BeginRecording, portVars, observers
<1>2. started /\ ~Guided(t) /\ (WasDisclosed => WasDisclosed')
  BY <1>1, Waiting DEF Guided, WasDisclosed
<1>3. Plain' /\ started' /\ (recorderStarted' => tape' # "off")
  BY <1>1, <1>2 DEF IInv, Typed, Plain
<1>4. CASE frames[t].about = "start"
  <2>1. Prompt(t) /\ ctx' = ctx
    BY <1>4, Zenon DEF BeginRecording
  <2>. QED
    BY <1>1, <1>2, <1>3, <2>1, PromptKeeps
<1>5. CASE frames[t].about # "start"
  <2>1. Drive(t, Greeted(ctx))
    BY <1>5, Zenon DEF BeginRecording
  <2>2. Sendable(ctx, Greeted(ctx))
    BY GreetedSendable DEF IInv
  <2>. QED
    BY <1>1, <1>2, <1>3, <2>1, <2>2, DriveKeeps DEF Sendable
<1>. QED
  BY <1>4, <1>5

\* A task whose line or port has been heard, and which waits for nothing further.
LEMMA RestKeeps ==
  ASSUME IInv, NEW t \in Tasks, Wait(t, Idle), ctx' = ctx, Plain', started', done' = done,
         UNCHANGED Ports, ~Guided(t)
  PROVE  IInv'
<1>1. Idle \in Waits /\ Idle.type = "idle"
  BY DEF Idle, Frame, Waits, FrameTypes, Abouts
<1> HIDE DEF Idle
<1>2. Agrees(Idle, ctx) /\ Idle.type \notin Committing
  BY <1>1 DEF Agrees, Committing, Escalating
<1>. QED
  BY <1>1, <1>2, WaitKeeps

LEMMA AskForKeeps ==
  ASSUME IInv, NEW t \in Tasks, AskFor(t)
  PROVE  IInv'
<1>1. /\ frames[t].type = "ASK_FOR" /\ expecting' = Effect("extract", frames[t].about)
      /\ Wait(t, Idle) /\ ctx' = ctx /\ faqAnswers' = faqAnswers /\ Quiet
  BY DEF AskFor, Spoken
<1>2. frames[t].about \in SlotKeys
  BY <1>1 DEF IInv, Ending, Agrees
<1>3. Plain'
  BY <1>1, <1>2, QuietKeeps DEF IInv, Typed, Plain, Effect
<1>4. started' /\ ~Guided(t)
  BY <1>1, Waiting, QuietKeeps DEF Guided
<1>. QED
  BY <1>1, <1>3, <1>4, QuietKeeps, RestKeeps

LEMMA ReadBackKeeps ==
  ASSUME IInv, NEW t \in Tasks, ReadBack(t)
  PROVE  IInv'
<1>1. /\ frames[t].type = "READ_BACK" /\ expecting' = Effect("confirm", frames[t].about)
      /\ Wait(t, Idle) /\ ctx' = ctx /\ faqAnswers' = faqAnswers
      /\ done' = done /\ started' = started /\ UNCHANGED Ports
  BY DEF ReadBack, Spoken, tapeVars, portVars, Ports
<1>2. frames[t].about \in SlotKeys /\ frames[t].value \in Values \cup {Empty}
  BY <1>1, Waiting DEF IInv, Ending, Agrees, Waits
<1>3. offered' \in [SlotKeys -> Values \cup {Empty}]
  <2>1. offered \in [SlotKeys -> Values \cup {Empty}]
    BY DEF IInv, Typed, Plain
  <2>2. offered' = [offered EXCEPT ![frames[t].about] = frames[t].value]
    BY DEF ReadBack
  <2>. QED
    BY <1>2, <2>1, <2>2
<1>4. Plain'
  BY <1>1, <1>2, <1>3 DEF IInv, Typed, Plain, Effect, Ports
<1>5. started' /\ ~Guided(t)
  BY <1>1, Waiting DEF Guided
<1>. QED
  BY <1>1, <1>4, <1>5, RestKeeps

LEMMA EscalateKeeps ==
  ASSUME IInv, NEW t \in Tasks, EscalateSpoken(t)
  PROVE  IInv'
<1> DEFINE reason == frames[t].about
           f == Frame("handOff", reason)
<1>1. /\ frames[t].type = "ESCALATE" /\ Wait(t, f)
      /\ ctx' = IF reason = "EMERGENCY_HAZARD" THEN Transition(ctx, GuidanceDelivered(ctx)).ctx
                ELSE ctx
      /\ line' \subseteq line \cup {"hungUp", "transferred"}
      /\ expecting' = expecting /\ faqAnswers' = faqAnswers /\ done' = done
      /\ parties' = parties /\ recorderStarted' = recorderStarted /\ tape' = tape
      /\ started' = started /\ submitted' = submitted /\ told' = told /\ offered' = offered
  BY DEF EscalateSpoken, Spoken, tapeVars, observers
<1>2. reason \in Reasons /\ TakenAway(ctx)
      /\ (reason # "EMERGENCY_HAZARD" => Terminal(ctx.state))
  BY <1>1 DEF IInv, Ending, Agrees, Escalating
<1>3. MachineFits(ctx') /\ Goes(ctx, ctx') /\ Terminal(ctx'.state)
  <2>1. CASE reason = "EMERGENCY_HAZARD"
    BY <1>1, <1>2, <2>1, GuidanceEnds DEF IInv, TakenAway
  <2>2. CASE reason # "EMERGENCY_HAZARD"
    BY <1>1, <1>2, <2>2 DEF IInv, Goes, Evolves
  <2>. QED
    BY <2>1, <2>2
<1>4. TakenAway(ctx')
  BY <1>2, <1>3, GoesKeeps DEF IInv, MachineFits
<1>5. f \in Waits /\ f.type = "handOff"
  BY <1>2 DEF Frame, Waits, FrameTypes, Abouts
<1> HIDE DEF f
<1>6. Agrees(f, ctx') /\ f.type \notin Committing
  BY <1>3, <1>4, <1>5 DEF Agrees, Committing
<1>7. Plain'
  BY <1>1 DEF IInv, Typed, Plain
<1>8. started /\ (recorderStarted' => tape' # "off") /\ (WasDisclosed => WasDisclosed')
  BY <1>1, Waiting DEF IInv, Taping, WasDisclosed
<1>9. ctx'.state # "EMERGENCY" /\ frames[t].type \in Escalating
  BY <1>1, <1>3 DEF Terminal, Escalating
<1>. QED
  BY <1>1, <1>3, <1>5, <1>6, <1>7, <1>8, <1>9, StepKeeps

LEMMA HandedOffKeeps ==
  ASSUME IInv, NEW t \in Tasks, HandedOff(t)
  PROVE  IInv'
<1>1. /\ frames[t].type = "handOff" /\ Finish(t) /\ ctx' = ctx
      /\ faqAnswers' = faqAnswers /\ parties' = parties /\ started' = started
      /\ line' = line /\ submitted' = submitted /\ told' = told /\ offered' = offered
  BY DEF HandedOff, portVars, observers
<1>2. MachineFits(ctx') /\ Goes(ctx, ctx') /\ Terminal(ctx'.state)
  BY <1>1 DEF IInv, Ending, Agrees, Goes, Evolves
<1>3. faqAnswers' \in Nat /\ started' \in BOOLEAN /\ started'
  BY <1>1, Waiting DEF IInv, Typed, Plain
<1>. QED
  BY <1>1, <1>2, <1>3, FinishKeeps

LEMMA BookingKeeps ==
  ASSUME IInv, NEW t \in Tasks, BookingSpoken(t)
  PROVE  IInv'
<1>1. /\ frames[t].type = "CREATE_PENDING_BOOKING"
      /\ Wait(t, Frame("submit", "none")) \/ Wait(t, Idle)
      /\ ctx' = ctx /\ expecting' = expecting /\ faqAnswers' = faqAnswers /\ Quiet
  BY DEF BookingSpoken, Spoken, callVars
<1>2. Plain' /\ started' /\ ~Guided(t) /\ done' = done /\ UNCHANGED Ports
  BY <1>1, Waiting, QuietKeeps DEF Guided, IInv, Typed, Plain
<1>3. CASE Wait(t, Frame("submit", "none"))
  <2> DEFINE f == Frame("submit", "none")
  <2>1. f \in Waits /\ f.type = "submit"
    BY DEF Frame, Waits, FrameTypes, Abouts
  <2>2. Wait(t, f)
    BY <1>3
  <2> HIDE DEF f
  <2>3. Agrees(f, ctx) /\ frames[t].type \in Committing
    BY <1>1, <2>1 DEF IInv, Ending, Agrees, Committing, Escalating
  <2>. QED
    BY <1>1, <1>2, <2>1, <2>2, <2>3, WaitKeeps
<1>4. CASE Wait(t, Idle)
  BY <1>1, <1>2, <1>4, RestKeeps
<1>. QED
  BY <1>1, <1>3, <1>4

LEMMA SubmittedKeeps ==
  ASSUME IInv, NEW t \in Tasks, Submitted(t)
  PROVE  IInv'
<1>1. /\ frames[t].type = "submit" /\ Finish(t) /\ ctx' = ctx
      /\ faqAnswers' = faqAnswers /\ parties' = parties /\ started' = started
      /\ line' = line /\ submitted' = submitted + 1 /\ told' = told /\ offered' = offered
  BY DEF Submitted, observers
<1>2. ctx.outcome = "BOOKED" /\ frames[t].type \in Committing
  BY <1>1 DEF IInv, Ending, Agrees, Committing
<1>3. MachineFits(ctx') /\ Goes(ctx, ctx') /\ Terminal(ctx'.state)
  BY <1>1, <1>2 DEF IInv, MachineFits, Sound, Ended, Goes, Evolves
<1>4. faqAnswers' \in Nat /\ started' \in BOOLEAN /\ started'
  BY <1>1, Waiting DEF IInv, Typed, Plain
<1>. QED
  BY <1>1, <1>2, <1>3, <1>4, FinishKeeps

\* The control plane refused the booking, or the recorder has stopped.
LEMMA DroppedKeeps ==
  ASSUME IInv, NEW t \in Tasks, SubmitFailed(t) \/ RecorderStopped(t)
  PROVE  IInv'
<1>1. /\ frames[t].type \in {"submit", "stop"} /\ Wait(t, Idle)
      /\ ctx' = ctx /\ expecting' = expecting /\ faqAnswers' = faqAnswers /\ Quiet
  BY DEF SubmitFailed, RecorderStopped, callVars
<1>2. Plain' /\ started' /\ ~Guided(t) /\ done' = done /\ UNCHANGED Ports
  BY <1>1, Waiting, QuietKeeps DEF Guided, IInv, Typed, Plain
<1>. QED
  BY <1>1, <1>2, RestKeeps

LEMMA ExtractKeeps ==
  ASSUME IInv, NEW t \in Tasks,
         \/ ExtractorUnavailable(t) \/ ExtractorFoundNothing(t) \/ QuestionAsked(t)
         \/ \E k \in SlotKeys : \E r \in Readings[k] :
              frames[t].about = k /\ ValueExtracted(t, r)
  PROVE  IInv'
<1>1. /\ frames[t].type \in {"extract", "retry"} /\ expecting' = expecting /\ Quiet
  BY DEF ExtractorUnavailable, ExtractorFoundNothing, QuestionAsked, ValueExtracted
<1>2. frames[t].about \in SlotKeys /\ started /\ ~Guided(t)
  BY <1>1, Waiting DEF IInv, Ending, Agrees, Guided
<1>3. CASE ExtractorUnavailable(t)
  <2>1. faqAnswers' = faqAnswers
    BY <1>3 DEF ExtractorUnavailable
  <2>2. CASE frames[t].type = "extract"
    <3> DEFINE f == Frame("retry", frames[t].about)
    <3>1. Wait(t, f) /\ ctx' = ctx
      BY <1>3, <2>2, Zenon DEF ExtractorUnavailable
    <3>2. f \in Waits /\ f.type = "retry" /\ f.about \in SlotKeys
      BY <1>2 DEF Frame, Waits, FrameTypes, Abouts
    <3> HIDE DEF f
    <3>3. Agrees(f, ctx) /\ f.type \notin Committing
      BY <3>2 DEF Agrees, Committing, Escalating
    <3>4. faqAnswers' \in Nat
      BY <2>1 DEF IInv, Typed, Plain
    <3>. QED
      BY <1>1, <1>2, <2>1, <3>1, <3>2, <3>3, <3>4, QuietKeeps, WaitKeeps
  <2>3. CASE frames[t].type # "extract"
    <3>1. Drive(t, AgentError(ctx))
      BY <1>3, <2>3, Zenon DEF ExtractorUnavailable
    <3>2. Sendable(ctx, AgentError(ctx))
      BY EscalateSendable DEF AgentError, IInv
    <3>. QED
      BY <1>1, <1>2, <2>1, <3>1, <3>2, QuietDriveKeeps
  <2>. QED
    BY <2>2, <2>3
<1>4. CASE ExtractorFoundNothing(t)
  BY <1>2, <1>4, FailedSendable, QuietDriveKeeps DEF ExtractorFoundNothing, IInv
<1>5. CASE QuestionAsked(t)
  <2> DEFINE f == Frame("SAY_FILLER", "none")
  <2>1. Wait(t, f) /\ ctx' = ctx /\ faqAnswers' = faqAnswers + 1
    BY <1>5 DEF QuestionAsked
  <2>2. f \in Waits /\ f.type = "SAY_FILLER"
    BY DEF Frame, Waits, FrameTypes, Lines, Abouts
  <2> HIDE DEF f
  <2>3. Agrees(f, ctx) /\ f.type \notin Committing
    BY <2>2 DEF Agrees, Committing, Escalating
  <2>4. faqAnswers' \in Nat
    BY <2>1 DEF IInv, Typed, Plain
  <2>. QED
    BY <1>1, <1>2, <2>1, <2>2, <2>3, <2>4, QuietKeeps, WaitKeeps
<1>6. ASSUME NEW k \in SlotKeys, NEW r \in Readings[k], frames[t].about = k, ValueExtracted(t, r)
      PROVE  IInv'
  <2>1. Drive(t, SlotFilled(ctx, k, r)) /\ UNCHANGED << expecting, faqAnswers >>
    BY <1>6 DEF ValueExtracted
  <2>2. Sendable(ctx, SlotFilled(ctx, k, r))
    BY <1>6, FilledSendable, CallRuntimeAssumption DEF IInv
  <2>. QED
    BY <1>1, <1>2, <2>1, <2>2, QuietDriveKeeps
<1>. QED
  BY <1>3, <1>4, <1>5, <1>6

LEMMA QuestionKeeps ==
  ASSUME IInv, NEW t \in Tasks, FillerSpoken(t) \/ AnswerFound(t) \/ AnswerSpoken(t)
  PROVE  IInv'
<1>1. /\ frames[t].type \in {"SAY_FILLER", "answer", "ANSWER_FAQ"}
      /\ ctx' = ctx /\ expecting' = expecting /\ faqAnswers' = faqAnswers /\ Quiet
  BY DEF FillerSpoken, AnswerFound, AnswerSpoken, Spoken, callVars
<1>2. Plain' /\ started' /\ ~Guided(t) /\ done' = done /\ UNCHANGED Ports
  BY <1>1, Waiting, QuietKeeps DEF Guided, IInv, Typed, Plain
<1>3. CASE AnswerSpoken(t)
  <2>1. Prompt(t)
    BY <1>3 DEF AnswerSpoken
  <2>. QED
    BY <1>1, <1>2, <2>1, QuietKeeps, PromptKeeps
<1>4. ASSUME NEW f \in {Frame("answer", "none"), Frame("ANSWER_FAQ", "none")}, Wait(t, f)
      PROVE  IInv'
  <2>1. f \in Waits /\ f.type \in {"answer", "ANSWER_FAQ"}
    BY <1>4 DEF Frame, Waits, FrameTypes, Lines, Abouts
  <2>2. Agrees(f, ctx) /\ f.type \notin Committing /\ f.type # "begin"
    BY <2>1 DEF Agrees, Committing, Escalating
  <2>. QED
    BY <1>1, <1>2, <1>4, <2>1, <2>2, WaitKeeps
<1>. QED
  BY <1>3, <1>4 DEF FillerSpoken, AnswerFound

LEMMA NextKeeps == IInv /\ [Next]_vars => IInv'
<1> SUFFICES ASSUME IInv, [Next]_vars
             PROVE  IInv'
  OBVIOUS
<1>1. ASSUME NEW t \in Tasks, Enter(t)
      PROVE  IInv'
  BY <1>1, StartKeeps, HazardKeeps, HearAnswerKeeps, HearYesKeeps, RequestHumanKeeps,
     HungUpKeeps
  DEF Enter, Turn, OtherEntry
<1>2. ASSUME NEW t \in Tasks, Resume(t)
      PROVE  IInv'
  BY <1>2, GreetKeeps, BeginKeeps, AskForKeeps, ReadBackKeeps, EscalateKeeps, HandedOffKeeps,
     BookingKeeps, SubmittedKeeps, DroppedKeeps, ExtractKeeps, QuestionKeeps
  DEF Resume
<1>3. CASE UNCHANGED vars
  <2>1. /\ UNCHANGED << ctx, expecting, faqAnswers, done, parties, recorderStarted, tape,
                        frames, started, line, submitted, told, offered >>
    BY <1>3 DEF vars, callVars, tapeVars, portVars, observers
  <2>2. Typed'
    BY <2>1 DEF IInv, Typed, Plain
  <2>3. Taping'
    BY <2>1 DEF IInv, Taping, MayTape, mode, WasDisclosed
  <2>4. Ending'
    BY <2>1 DEF IInv, Ending
  <2>5. Under'
    BY <2>1 DEF IInv, Under, Guided, AllIdle
  <2>. QED
    BY <2>1, <2>2, <2>3, <2>4, <2>5 DEF IInv
<1>. QED
  BY <1>1, <1>2, <1>3 DEF Next

\* The inductive invariant: whatever the tasks' order, what each waits for still fits
\* the machine when it comes (runtime.ts, every await of performOne and extractAndApply).
THEOREM IInvHolds == Spec => []IInv
BY InitIInv, NextKeeps, PTL DEF Spec

\* The runtime's fields and its tasks' waits keep their types (runtime.ts).
THEOREM TypeCorrect == Spec => []TypeOK
<1>1. IInv => TypeOK
  BY DEF IInv, MachineFits, Sound, Typed, Plain, TypeOK, Waits
<1>. QED
  BY <1>1, IInvHolds, PTL

\* The control plane is told of a call at most once, only if the machine booked it, and
\* never of one that was handed off (runtime.ts CREATE_PENDING_BOOKING and ESCALATE).
THEOREM OneEndingPerCall == Spec => []OneEnding
<1>1. IInv => OneEnding
  BY DEF IInv, Typed, Ending, TakenAway, OneEnding
<1>. QED
  BY <1>1, IInvHolds, PTL

-----------------------------------------------------------------------------
(* CallRuntime implements CallLifecycle. *)

\* An event sent by any task moves the machine as its phases allow.
LEMMA DriveGoes ==
  ASSUME IInv, NEW t \in Tasks, NEW a, Sendable(ctx, a), Drive(t, a)
  PROVE  Goes(ctx, ctx')
<1>1. Goes(ctx, Transition(ctx, a).ctx)
  BY DriveFits DEF Sendable, IInv
<1>. QED
  BY <1>1 DEF Drive

LEMMA EnterGoes ==
  ASSUME IInv, NEW t \in Tasks, Enter(t)
  PROVE  Goes(ctx, ctx')
<1>1. CASE Start(t) \/ HearAnswer(t)
  BY <1>1 DEF Start, HearAnswer, callVars, Goes, Evolves
<1>2. CASE HazardHeard(t)
  BY <1>2, HazardFits DEF HazardHeard, Drive, IInv
<1>3. CASE HearYes(t)
  <2>1. Drive(t, SlotConfirmed(ctx, expecting.about)) /\ expecting.about \in SlotKeys
    BY <1>3 DEF HearYes, IInv, Typed, Plain
  <2>. QED
    BY <2>1, ConfirmedSendable, DriveGoes DEF IInv
<1>4. CASE RequestHuman(t)
  BY <1>4, EscalateSendable, DriveGoes DEF RequestHuman, RequestedHuman, IInv
<1>5. CASE CallerHungUp(t)
  BY <1>5, HangUpEnds DEF CallerHungUp, IInv
<1>. QED
  BY <1>1, <1>2, <1>3, <1>4, <1>5 DEF Enter, Turn, OtherEntry

LEMMA ResumeGoes ==
  ASSUME IInv, NEW t \in Tasks, Resume(t)
  PROVE  Goes(ctx, ctx')
<1>1. CASE ctx' = ctx
  BY <1>1 DEF Goes, Evolves
<1>2. CASE Greet(t) \/ BeginRecording(t)
  BY <1>1, <1>2, GreetedSendable, DriveGoes DEF Greet, BeginRecording, IInv
<1>3. CASE EscalateSpoken(t)
  <2>1. ctx' = ctx \/ ctx' = Transition(ctx, GuidanceDelivered(ctx)).ctx
    BY <1>3 DEF EscalateSpoken
  <2>2. TakenAway(ctx)
    BY <1>3 DEF EscalateSpoken, Spoken, IInv, Ending, Agrees, Escalating
  <2>. QED
    BY <1>1, <2>1, <2>2, GuidanceEnds DEF IInv, TakenAway
<1>4. ASSUME \/ ExtractorUnavailable(t) \/ ExtractorFoundNothing(t)
             \/ \E k \in SlotKeys : \E r \in Readings[k] :
                  frames[t].about = k /\ ValueExtracted(t, r)
      PROVE  Goes(ctx, ctx')
  <2>1. frames[t].about \in SlotKeys
    BY <1>4 DEF ExtractorUnavailable, ExtractorFoundNothing, ValueExtracted, IInv, Ending, Agrees
  <2>2. CASE ExtractorUnavailable(t)
    BY <1>1, <2>2, EscalateSendable, DriveGoes DEF ExtractorUnavailable, AgentError, IInv
  <2>3. CASE ExtractorFoundNothing(t)
    BY <2>1, <2>3, FailedSendable, DriveGoes DEF ExtractorFoundNothing, IInv
  <2>4. ASSUME NEW k \in SlotKeys, NEW r \in Readings[k], frames[t].about = k, ValueExtracted(t, r)
        PROVE  Goes(ctx, ctx')
    BY <2>4, FilledSendable, CallRuntimeAssumption, DriveGoes DEF ValueExtracted, IInv
  <2>. QED
    BY <1>4, <2>2, <2>3, <2>4
<1>5. CASE \/ AskFor(t) \/ ReadBack(t) \/ HandedOff(t) \/ BookingSpoken(t) \/ Submitted(t)
           \/ SubmitFailed(t) \/ RecorderStopped(t) \/ QuestionAsked(t) \/ FillerSpoken(t)
           \/ AnswerFound(t) \/ AnswerSpoken(t)
  BY <1>1, <1>5
  DEF AskFor, ReadBack, HandedOff, BookingSpoken, Submitted, SubmitFailed, RecorderStopped,
      QuestionAsked, FillerSpoken, AnswerFound, AnswerSpoken, callVars
<1>. QED
  BY <1>2, <1>3, <1>4, <1>5 DEF Resume

\* Whatever its tasks do, and however late, every call is a call of CallLifecycle:
\* interrupted at most once, ended exactly once, never revived (runtime.ts drive).
THEOREM RefinesLifecycle == Spec => ImplementsLifecycle
<1>1. Init => Lifecycle!Init
  BY DEF Init, initialContext, Lifecycle!Init, PhaseOf, Terminal
<1>2. ASSUME IInv, [Next]_vars
      PROVE  [Lifecycle!Next]_(Lifecycle!lifecycleVars)
  <2>1. Goes(ctx, ctx')
    BY <1>2, EnterGoes, ResumeGoes DEF Next, vars, callVars, Goes, Evolves
  <2>2. Sound(ctx) /\ Sound(ctx')
    <3>1. IInv'
      BY <1>2, NextKeeps
    <3>. QED
      BY <1>2, <3>1 DEF IInv, MachineFits
  <2>3. EndsOf(PhaseOf(ctx)) \subseteq Lifecycle!EndingsOf(PhaseOf(ctx))
    BY DEF EndsOf, Lifecycle!EndingsOf, Lifecycle!Endings
  <2>. QED
    BY <2>1, <2>2, <2>3, GoesCases
    DEF Lifecycle!Next, Lifecycle!Interrupt, Lifecycle!End, Lifecycle!lifecycleVars
<1>. QED
  BY IInvHolds, <1>1, <1>2, PTL DEF Spec, ImplementsLifecycle, Lifecycle!Spec

-----------------------------------------------------------------------------
(* What RecordingDecision makes of the two ends. *)

\* A call is recorded only under the addendum in force, and from the first ring only
\* when both ends are in listed states that ask for no notice.
LEMMA DecisionIs ==
  ASSUME NEW p
  PROVE  /\ RecordingDecision(p) # "DO_NOT_RECORD" =>
              p.recordingEnabled /\ p.dpaVersion = DPA_VERSION
         /\ RecordingDecision(p) = "RECORD_FROM_ANSWER" =>
              \A state \in {StateForNumber(p.caller), p.stateCode} : state \in KNOWN_ONE_PARTY
<1>1. DpaStatus(p.dpaVersion) = "current" => p.dpaVersion = DPA_VERSION
  BY Zenon DEF DpaStatus
<1>2. \A state : RegimeForState(state) = "ONE_PARTY" => state \in KNOWN_ONE_PARTY
  BY Zenon DEF RegimeForState
<1>3. ASSUME ~RequiresNoticeBeforeRecording(AssessConsent(p.caller, p.stateCode))
      PROVE  {RegimeForState(StateForNumber(p.caller)), RegimeForState(p.stateCode)} = {"ONE_PARTY"}
  <2>1. AssessConsent(p.caller, p.stateCode) = "ONE_PARTY"
    BY <1>3 DEF RequiresNoticeBeforeRecording
  <2> DEFINE ends == {RegimeForState(StateForNumber(p.caller)), RegimeForState(p.stateCode)}
  <2>2. AssessConsent(p.caller, p.stateCode) =
          CASE "ALL_PARTY" \in ends -> "ALL_PARTY"
            [] ends = {"ONE_PARTY"} -> "ONE_PARTY"
            [] OTHER -> "UNKNOWN"
    BY DEF AssessConsent
  <2> HIDE DEF ends
  <2>3. ends = {"ONE_PARTY"}
    BY <2>1, <2>2, Zenon
  <2>. QED
    BY <2>3 DEF ends
<1>4. RecordingDecision(p) # "DO_NOT_RECORD" =>
        p.recordingEnabled /\ DpaStatus(p.dpaVersion) = "current"
  BY Zenon DEF RecordingDecision
<1>5. RecordingDecision(p) = "RECORD_FROM_ANSWER" =>
        ~RequiresNoticeBeforeRecording(AssessConsent(p.caller, p.stateCode))
  BY Zenon DEF RecordingDecision
<1>. QED
  BY <1>1, <1>2, <1>3, <1>4, <1>5

\* A call is taped only as its contractor asked under the addendum in force, and before
\* the caller has heard the disclosure only if both ends are known to be in states that
\* ask for no notice (recording.ts, runtime.ts GREET).
THEOREM TheNoticeComesFirst == Spec => []NoticeBeforeTape
<1>1. KNOWN_ONE_PARTY \subseteq {AREA_CODE_STATE[npa] : npa \in DOMAIN AREA_CODE_STATE}
      /\ KNOWN_ONE_PARTY \cap ALL_PARTY_CONSENT_STATES = {}
  BY DEF KNOWN_ONE_PARTY
<1>2. IInv => NoticeBeforeTape
  BY <1>1, DecisionIs DEF IInv, Taping, MayTape, mode, NoticeBeforeTape
<1>. QED
  BY <1>2, IInvHolds, PTL

-----------------------------------------------------------------------------
(* The conversation with the caller, when turns do not overlap. *)

\* A step of the one task that talks, or of one that takes the floor while none does.
LEMMA FloorKeeps ==
  ASSUME IInv, TurnsFit, NEW t \in Tasks, NEW f \in Waits, Wait(t, f),
         \A u \in Tasks : u # t => ~Talks(u),
         Current(f, ctx', expecting', offered'), OfferedRight(ctx'.slots, offered'),
         PhaseOf(ctx') = "live" /\ f.type \notin TalkTypes => Expected(ctx', expecting', offered')
  PROVE  TurnsFit'
<1>1. frames'[t] = f /\ \A u \in Tasks : u # t => frames'[u] = frames[u]
  BY DEF IInv, Typed, Wait
<1>2. \A u \in Tasks : u # t => frames'[u].type \notin TalkTypes
  BY <1>1 DEF Talks
<1>3. \A g : g.type \notin TalkTypes => Current(g, ctx', expecting', offered')
  BY DEF Current, TalkTypes
<1>4. \A u \in Tasks : Current(frames'[u], ctx', expecting', offered')
  BY <1>1, <1>2, <1>3
<1>5. \A u, v \in Tasks : frames'[u].type \in TalkTypes /\ frames'[v].type \in TalkTypes => u = v
  BY <1>2
<1>6. (\A u \in Tasks : frames'[u].type \notin TalkTypes) => f.type \notin TalkTypes
  BY <1>1
<1>. QED
  BY <1>4, <1>5, <1>6 DEF TurnsFit, Talks

\* A step of a task that does not talk, which leaves the machine alone or ends the talk.
LEMMA AsideKeeps ==
  ASSUME IInv, TurnsFit, NEW t \in Tasks, NEW f \in Waits, Wait(t, f),
         ~Talks(t), f.type \notin TalkTypes,
         ctx'.slots = ctx.slots, offered' = offered,
         PhaseOf(ctx') = "live" => ctx' = ctx /\ expecting' = expecting /\ started' = started
  PROVE  TurnsFit'
<1>1. frames'[t] = f /\ \A u \in Tasks : u # t => frames'[u] = frames[u]
  BY DEF IInv, Typed, Wait
<1>2. \A u \in Tasks : frames'[u].type \in TalkTypes <=> frames[u].type \in TalkTypes
  BY <1>1 DEF Talks
<1>3. \A g : Current(g, ctx, expecting, offered) => Current(g, ctx', expecting', offered')
  BY DEF Current
<1>4. Current(f, ctx', expecting', offered')
  BY DEF Current, TalkTypes
<1>5. \A u \in Tasks : Current(frames'[u], ctx', expecting', offered')
  BY <1>1, <1>3, <1>4 DEF TurnsFit
<1>6. \A u, v \in Tasks : frames'[u].type \in TalkTypes /\ frames'[v].type \in TalkTypes => u = v
  BY <1>1, <1>2 DEF TurnsFit, Talks
<1>7. OfferedRight(ctx'.slots, offered')
  BY DEF TurnsFit
<1>8. PhaseOf(ctx') = "live" /\ started' /\ (\A u \in Tasks : frames'[u].type \notin TalkTypes) =>
        Expected(ctx', expecting', offered')
  BY <1>2 DEF TurnsFit, Talks
<1>. QED
  BY <1>5, <1>6, <1>7, <1>8 DEF TurnsFit, Talks

\* While a task talks, no other does.
LEMMA OneFloor ==
  ASSUME IInv, TurnsFit, NEW t \in Tasks, Talks(t) \/ AllIdle
  PROVE  \A u \in Tasks : u # t => ~Talks(u)
<1>1. Idle.type \notin TalkTypes
  BY DEF Idle, Frame, TalkTypes
<1>. QED
  BY <1>1 DEF TurnsFit, AllIdle, Talks

\* The talking task tells the machine of an event: unless the call is taken away, it
\* has the next thing to say, or the event was turned down and nothing has changed.
LEMMA DriveTalks ==
  ASSUME IInv, TurnsFit, NEW t \in Tasks, NEW a, Sendable(ctx, a), Drive(t, a),
         \A u \in Tasks : u # t => ~Talks(u),
         offered' = offered, expecting' = expecting,
         ~Terminal(ctx.state) => OfferedRight(a.ctx.slots, offered),
         PhaseOf(ctx) = "live" /\ a.rejected => Expected(ctx, expecting, offered)
  PROVE  TurnsFit'
<1> DEFINE r == Transition(ctx, a)
<1>1. /\ MachineFits(r.ctx) /\ Evolves(ctx, r.ctx) /\ OneEffect(r.effects, r.ctx)
      /\ IF Terminal(ctx.state) THEN r.ctx = ctx ELSE r.ctx.slots = a.ctx.slots
      /\ r.effects = << >> /\ PhaseOf(r.ctx) = "live" =>
           a.rejected /\ NextPrompt(r.ctx) = NextPrompt(ctx) /\ r.ctx.slots = ctx.slots
  BY DriveFits DEF IInv, Sendable
<1>2. ctx' = r.ctx /\ Perform(t, r.ctx, r.effects)
  BY DEF Drive
<1> HIDE DEF r
<1>3. PICK f : Wait(t, f) /\ Performed(f, r.ctx, r.effects)
  BY <1>1, <1>2, PerformIs DEF MachineFits
<1>4. f \in Waits /\ Current(f, ctx', expecting', offered')
  BY <1>2, <1>3 DEF Performed, Current
<1>5. OfferedRight(ctx'.slots, offered')
  BY <1>1, <1>2 DEF TurnsFit
<1>6. ASSUME PhaseOf(ctx') = "live", f.type \notin TalkTypes
      PROVE  Expected(ctx', expecting', offered')
  <2>1. f.type = "idle"
    BY <1>2, <1>3, <1>6 DEF Performed
  <2>2. PhaseOf(ctx) = "live"
    BY <1>1, <1>2, <1>6 DEF Evolves
  <2>3. ~done
    BY <2>2 DEF IInv, Under, PhaseOf
  <2>4. r.effects = << >>
    BY <1>3, <2>1, <2>3 DEF Performed
  <2>5. Expected(ctx, expecting, offered) /\ NextPrompt(ctx') = NextPrompt(ctx)
        /\ ctx'.slots = ctx.slots
    BY <1>1, <1>2, <1>6, <2>2, <2>4
  <2>. QED
    BY <2>5 DEF Expected
<1>. QED
  BY <1>3, <1>4, <1>5, <1>6, FloorKeeps

\* The talking task is given the machine's next prompt.
LEMMA PromptTalks ==
  ASSUME IInv, TurnsFit, NEW t \in Tasks, Prompt(t), ctx' = ctx,
         \A u \in Tasks : u # t => ~Talks(u), offered' = offered
  PROVE  TurnsFit'
<1>1. Sound(ctx) /\ OneEffect(NextPrompt(ctx), ctx)
  BY PromptFits DEF IInv, MachineFits, Sound
<1>2. PICK f : Wait(t, f) /\ Performed(f, ctx, NextPrompt(ctx))
  BY <1>1, PerformIs DEF Prompt
<1>3. f \in Waits /\ Current(f, ctx', expecting', offered')
  BY <1>2 DEF Performed, Current
<1>4. ASSUME PhaseOf(ctx) = "live" PROVE f.type \in TalkTypes
  <2>1. ~NothingToAsk(ctx)
    BY <1>4 DEF NothingToAsk, IInv, MachineFits, Clean
  <2>2. NextPrompt(ctx) # << >>
    BY <2>1, SomethingToAsk DEF IInv, MachineFits
  <2>3. ~done
    BY <1>4 DEF IInv, Under, PhaseOf
  <2>. QED
    BY <1>2, <1>4, <2>2, <2>3 DEF Performed
<1>. QED
  BY <1>2, <1>3, <1>4, FloorKeeps DEF TurnsFit

LEMMA InitTurns == Init => TurnsFit
<1> SUFFICES ASSUME Init
             PROVE  TurnsFit
  OBVIOUS
<1>1. Idle.type = "idle"
  BY DEF Idle, Frame
<1>2. \A t \in Tasks : frames[t].type = "idle"
  BY <1>1 DEF Init
<1>3. \A k \in SlotKeys : ctx.slots[k] = Empty
  BY DEF Init, initialContext, EmptyBook
<1>. QED
  BY <1>2, <1>3 DEF Init, TurnsFit, Talks, TalkTypes, Current, OfferedRight

\* A task takes up the floor with nothing the machine has not already been asked.
LEMMA TakesFloor ==
  ASSUME IInv, TurnsFit, NEW t \in Tasks, NEW f \in Waits, Wait(t, f), ctx' = ctx,
         offered' = offered, expecting' = expecting,
         \A u \in Tasks : u # t => ~Talks(u),
         f.type \in TalkTypes \ {"READ_BACK", "ASK_FOR"},
         f.type \in {"extract", "retry"} /\ PhaseOf(ctx) = "live" =>
           Expected(ctx, expecting, offered)
  PROVE  TurnsFit'
<1>1. Current(f, ctx', expecting', offered') /\ OfferedRight(ctx'.slots, offered')
  BY DEF Current, TurnsFit
<1>. QED
  BY <1>1, FloorKeeps

\* A call that has ended, or a task that has nothing to do with the talk.
LEMMA EndsAside ==
  ASSUME IInv, TurnsFit, NEW t \in Tasks, ~Talks(t),
         Wait(t, Idle) \/ Wait(t, Frame("stop", "none")) \/ Wait(t, Frame("submit", "none"))
           \/ \E r \in Reasons : Wait(t, Frame("handOff", r)),
         ctx'.slots = ctx.slots, offered' = offered,
         PhaseOf(ctx') = "live" => ctx' = ctx /\ expecting' = expecting /\ started' = started
  PROVE  TurnsFit'
<1>1. PICK f \in {Idle, Frame("stop", "none"), Frame("submit", "none")}
                   \cup {Frame("handOff", r) : r \in Reasons} : Wait(t, f)
  OBVIOUS
<1>2. f \in Waits /\ f.type \in {"idle", "stop", "submit", "handOff"}
  BY <1>1 DEF Idle, Frame, Waits, FrameTypes, Abouts
<1>3. f.type \notin TalkTypes
  BY <1>2 DEF TalkTypes
<1>. QED
  BY <1>1, <1>2, <1>3, AsideKeeps

LEMMA EnterTurns ==
  ASSUME ~overlapped', IInv, TurnsFit, NEW t \in Tasks, Enter(t)
  PROVE  TurnsFit'
<1>1. Idle.type = "idle" /\ Idle.type \notin TalkTypes
  BY DEF Idle, Frame, TalkTypes
<1>2. frames[t] = Idle /\ ~Talks(t)
  BY <1>1 DEF Enter, Turn, OtherEntry, Start, HazardHeard, HearAnswer, HearYes,
              RequestHuman, CallerHungUp,
              TurnCompleted, Entered, Talks
<1>3. CASE Start(t)
  <2>1. ~started /\ ctx' = ctx /\ offered' = offered /\ expecting' = expecting
    BY <1>3 DEF Start, callVars, observers
  <2>2. \A u \in Tasks : u # t => ~Talks(u)
    BY <2>1, OneFloor DEF IInv, Under
  <2>3. CASE mode = "RECORD_FROM_ANSWER"
    <3> DEFINE f == Frame("begin", "start")
    <3>1. f \in Waits /\ f.type = "begin" /\ Wait(t, f)
      BY <1>3, <2>3 DEF Start, Frame, Waits, FrameTypes, Abouts
    <3> HIDE DEF f
    <3>2. f.type \in TalkTypes \ {"READ_BACK", "ASK_FOR", "extract", "retry"}
      BY <3>1 DEF TalkTypes
    <3>. QED
      BY <2>1, <2>2, <3>1, <3>2, TakesFloor
  <2>4. CASE mode # "RECORD_FROM_ANSWER"
    <3>1. Prompt(t)
      BY <1>3, <2>4, Zenon DEF Start
    <3>. QED
      BY <2>1, <2>2, <3>1, PromptTalks
  <2>. QED
    BY <2>3, <2>4
<1>4. CASE HazardHeard(t)
  <2> DEFINE r == Transition(ctx, HazardDetected(ctx))
  <2>1. /\ MachineFits(r.ctx) /\ OneEffect(r.effects, r.ctx)
        /\ r.ctx.slots = ctx.slots /\ PhaseOf(r.ctx) # "live"
    BY HazardFits DEF IInv
  <2>2. ctx' = r.ctx /\ Perform(t, r.ctx, r.effects) /\ offered' = offered
    BY <1>4 DEF HazardHeard, Drive, Quiet, observers
  <2> HIDE DEF r
  <2>3. PICK f : Wait(t, f) /\ Performed(f, r.ctx, r.effects)
    BY <2>1, <2>2, PerformIs DEF MachineFits
  <2>4. f \in Waits /\ f.type \notin TalkTypes
    BY <2>1, <2>3 DEF Performed
  <2>. QED
    BY <1>2, <2>1, <2>2, <2>3, <2>4, AsideKeeps
<1>5. CASE HearAnswer(t)
  <2> DEFINE f == Frame("extract", expecting.about)
  <2>1. /\ Wait(t, f) /\ ctx' = ctx /\ offered' = offered /\ expecting' = expecting
        /\ started /\ AllIdle /\ expecting.type # "nothing"
    BY <1>5, CallRuntimeAssumption
    DEF HearAnswer, TurnCompleted, Entered, callVars, Quiet, observers, AllIdle
  <2>2. f \in Waits /\ f.type = "extract"
    BY <2>1 DEF IInv, Typed, Plain, Frame, Waits, FrameTypes, Abouts
  <2>3. PhaseOf(ctx) = "live" => Expected(ctx, expecting, offered)
    BY <1>1, <2>1 DEF TurnsFit, AllIdle, Talks
  <2> HIDE DEF f
  <2>4. f.type \in TalkTypes \ {"READ_BACK", "ASK_FOR"}
    BY <2>2 DEF TalkTypes
  <2>5. \A u \in Tasks : u # t => ~Talks(u)
    BY <2>1, OneFloor
  <2>. QED
    BY <2>1, <2>2, <2>3, <2>4, <2>5, TakesFloor
<1>6. CASE HearYes(t)
  <2> DEFINE k == expecting.about
             a == SlotConfirmed(ctx, k)
  <2>1. /\ Drive(t, a) /\ offered' = offered /\ expecting' = expecting
        /\ started /\ AllIdle /\ expecting.type = "confirm"
    BY <1>6, CallRuntimeAssumption
    DEF HearYes, TurnCompleted, Entered, Quiet, observers, AllIdle
  <2>2. k \in SlotKeys /\ ctx.slots \in [SlotKeys -> Entry \cup {Empty}]
    BY <2>1 DEF IInv, Typed, Plain, MachineFits, Sound, Context, Books
  <2>3. \A u \in Tasks : u # t => ~Talks(u)
    BY <2>1, OneFloor
  <2>4. PhaseOf(ctx) = "live" => Expected(ctx, expecting, offered)
    BY <1>1, <2>1 DEF TurnsFit, AllIdle, Talks
  <2>5. ~Terminal(ctx.state) => PhaseOf(ctx) = "live"
    <3>1. ctx.state # "EMERGENCY"
      BY <1>1, <2>1 DEF IInv, Under, Guided, AllIdle
    <3>. QED
      BY <3>1 DEF PhaseOf
  <2>6. Sendable(ctx, a) /\ (~Terminal(ctx.state) =>
          \/ a.ctx.slots = ctx.slots
          \/ a.ctx.slots = [ctx.slots EXCEPT ![k].confirmed = TRUE] /\ ctx.slots[k] # Empty)
    BY <2>2, ConfirmedSendable DEF IInv
  <2> HIDE DEF a
  <2>7. ASSUME ~Terminal(ctx.state) PROVE OfferedRight(a.ctx.slots, offered)
    <3>1. offered[k] = ctx.slots[k].value
      BY <2>1, <2>4, <2>5, <2>7 DEF Expected
    <3>2. CASE a.ctx.slots = ctx.slots
      BY <3>2 DEF TurnsFit
    <3>3. CASE a.ctx.slots = [ctx.slots EXCEPT ![k].confirmed = TRUE] /\ ctx.slots[k] # Empty
      <4>1. ctx.slots[k] \in Entry
        BY <2>2, <3>3
      <4>2. a.ctx.slots[k].value = ctx.slots[k].value
        BY <2>2, <3>3, <4>1 DEF Entry
      <4>3. \A j \in SlotKeys : j # k => a.ctx.slots[j] = ctx.slots[j]
        BY <2>2, <3>3
      <4>. QED
        BY <3>1, <4>2, <4>3 DEF TurnsFit, OfferedRight
    <3>. QED
      BY <2>6, <2>7, <3>2, <3>3
  <2>. QED
    BY <2>1, <2>3, <2>4, <2>6, <2>7, DriveTalks
<1>7. CASE RequestHuman(t)
  <2> DEFINE a == RequestedHuman(ctx)
             r == Transition(ctx, a)
  <2>1. Sendable(ctx, a) /\ a.ctx.slots = ctx.slots
    BY EscalateSendable DEF RequestedHuman, IInv
  <2>2. /\ MachineFits(r.ctx) /\ OneEffect(r.effects, r.ctx)
        /\ IF Terminal(ctx.state) THEN r.ctx = ctx ELSE r.ctx.slots = a.ctx.slots
    BY <2>1, DriveFits DEF IInv, Sendable
  <2>3. Terminal(r.ctx.state)
    BY EscalateEnds DEF RequestedHuman, IInv
  <2>4. ctx' = r.ctx /\ Perform(t, r.ctx, r.effects) /\ offered' = offered
    BY <1>7 DEF RequestHuman, Drive, Quiet, observers
  <2> HIDE DEF r, a
  <2>5. PICK f : Wait(t, f) /\ Performed(f, r.ctx, r.effects)
    BY <2>2, <2>4, PerformIs DEF MachineFits
  <2>6. PhaseOf(r.ctx) # "live"
    BY <2>3 DEF PhaseOf
  <2>7. f \in Waits /\ f.type \notin TalkTypes
    BY <2>5, <2>6 DEF Performed
  <2>8. ctx'.slots = ctx.slots
    BY <2>1, <2>2, <2>4
  <2>. QED
    BY <1>2, <2>4, <2>5, <2>6, <2>7, <2>8, AsideKeeps
<1>8. CASE CallerHungUp(t)
  <2>1. ctx' = Transition(ctx, HungUp(ctx)).ctx /\ offered' = offered
        /\ (Wait(t, Idle) \/ Wait(t, Frame("stop", "none")))
    BY <1>8 DEF CallerHungUp, Finish, observers
  <2>2. ctx'.slots = ctx.slots /\ PhaseOf(ctx') # "live"
    BY <2>1, HangUpEnds DEF IInv, PhaseOf
  <2>. QED
    BY <1>2, <2>1, <2>2, EndsAside
<1>. QED
  BY <1>3, <1>4, <1>5, <1>6, <1>7, <1>8 DEF Enter, Turn, OtherEntry

\* The greeting has been said, or the recorder that waited for it runs.
LEMMA GreetingTurns ==
  ASSUME IInv, TurnsFit, NEW t \in Tasks, Greet(t) \/ BeginRecording(t)
  PROVE  TurnsFit'
<1>1. Talks(t) /\ offered' = offered /\ expecting' = expecting
  BY DEF Greet, BeginRecording, Spoken, Talks, TalkTypes, observers
<1>2. \A u \in Tasks : u # t => ~Talks(u)
  BY <1>1, OneFloor
<1>3. ASSUME Drive(t, Greeted(ctx)) PROVE TurnsFit'
  <2>1. Sendable(ctx, Greeted(ctx)) /\ Greeted(ctx).ctx.slots = ctx.slots
    BY GreetedSendable DEF IInv
  <2>2. ~Greeted(ctx).rejected /\ OfferedRight(Greeted(ctx).ctx.slots, offered)
    BY <2>1 DEF Greeted, Accept, TurnsFit
  <2>. QED
    BY <1>1, <1>2, <1>3, <2>1, <2>2, DriveTalks
<1>4. ASSUME Wait(t, Frame("begin", "greet")), ctx' = ctx PROVE TurnsFit'
  <2> DEFINE f == Frame("begin", "greet")
  <2>1. f \in Waits /\ f.type = "begin" /\ Wait(t, f)
    BY <1>4 DEF Frame, Waits, FrameTypes, Abouts
  <2> HIDE DEF f
  <2>2. f.type \in TalkTypes \ {"READ_BACK", "ASK_FOR", "extract", "retry"}
    BY <2>1 DEF TalkTypes
  <2>. QED
    BY <1>1, <1>2, <1>4, <2>1, <2>2, TakesFloor
<1>5. ASSUME Prompt(t), ctx' = ctx PROVE TurnsFit'
  BY <1>1, <1>2, <1>5, PromptTalks
<1>6. CASE Greet(t)
  BY <1>3, <1>4, <1>6 DEF Greet
<1>7. CASE BeginRecording(t)
  BY <1>3, <1>5, <1>7 DEF BeginRecording
<1>. QED
  BY <1>6, <1>7

\* A task that has said its prompt waits for nothing; its answer is expected.
LEMMA IdleTurns ==
  ASSUME IInv, TurnsFit, NEW t \in Tasks, Talks(t), Wait(t, Idle), ctx' = ctx,
         OfferedRight(ctx'.slots, offered'),
         PhaseOf(ctx) = "live" => Expected(ctx', expecting', offered')
  PROVE  TurnsFit'
<1>1. Idle \in Waits /\ Idle.type = "idle" /\ Idle.type \notin TalkTypes
  BY DEF Idle, Frame, Waits, FrameTypes, Abouts, TalkTypes
<1> HIDE DEF Idle
<1>2. Current(Idle, ctx', expecting', offered')
  BY <1>1 DEF Current
<1>. QED
  BY <1>1, <1>2, OneFloor, FloorKeeps

\* A prompt has been said, and its answer is now expected.
LEMMA PromptTurns ==
  ASSUME IInv, TurnsFit, NEW t \in Tasks, AskFor(t) \/ ReadBack(t)
  PROVE  TurnsFit'
<1> DEFINE k == frames[t].about
<1>1. /\ frames[t].type \in {"ASK_FOR", "READ_BACK"} /\ Wait(t, Idle) /\ ctx' = ctx
      /\ Talks(t)
  BY DEF AskFor, ReadBack, Spoken, Talks, TalkTypes
<1>2. k \in SlotKeys /\ Current(frames[t], ctx, expecting, offered)
  BY <1>1 DEF IInv, Ending, Agrees, TurnsFit
<1>3. /\ offered \in [SlotKeys -> Values \cup {Empty}]
      /\ OfferedRight(ctx.slots, offered)
  BY DEF IInv, Typed, Plain, TurnsFit
<1>4. CASE AskFor(t)
  <2>1. expecting' = Effect("extract", k) /\ offered' = offered /\ frames[t].type = "ASK_FOR"
    BY <1>4 DEF AskFor, Quiet, observers, Spoken
  <2>2. expecting'.type = "extract" /\ expecting'.about = k
    BY <2>1 DEF Effect
  <2>3. PhaseOf(ctx) = "live" => Expected(ctx', expecting', offered')
    BY <1>1, <1>2, <2>1, <2>2 DEF Current, Expected
  <2>. QED
    BY <1>1, <1>3, <2>1, <2>3, IdleTurns
<1>5. CASE ReadBack(t)
  <2>1. expecting' = Effect("confirm", k) /\ frames[t].type = "READ_BACK"
    BY <1>5 DEF ReadBack, Spoken
  <2>2. expecting'.type = "confirm" /\ expecting'.about = k
    BY <2>1 DEF Effect
  <2>3. offered' = [offered EXCEPT ![k] = frames[t].value]
    BY <1>5 DEF ReadBack
  <2>4. frames[t].value = ctx.slots[k].value
    BY <1>2, <2>1 DEF Current
  <2>5. offered'[k] = ctx.slots[k].value
    BY <1>2, <1>3, <2>3, <2>4
  <2>6. OfferedRight(ctx'.slots, offered')
    BY <1>1, <1>3, <2>3, <2>5 DEF OfferedRight
  <2>7. PhaseOf(ctx) = "live" => Expected(ctx', expecting', offered')
    BY <1>1, <1>2, <2>1, <2>2, <2>5 DEF Current, Expected
  <2>. QED
    BY <1>1, <2>6, <2>7, IdleTurns
<1>. QED
  BY <1>4, <1>5

\* The machine has been told what the extractor made of an answer.
LEMMA ExtractTurns ==
  ASSUME IInv, TurnsFit, NEW t \in Tasks,
         \/ ExtractorUnavailable(t) \/ ExtractorFoundNothing(t) \/ QuestionAsked(t)
         \/ \E k \in SlotKeys : \E r \in Readings[k] :
              frames[t].about = k /\ ValueExtracted(t, r)
  PROVE  TurnsFit'
<1>1. /\ frames[t].type \in {"extract", "retry"} /\ Talks(t)
      /\ expecting' = expecting /\ offered' = offered
  BY DEF ExtractorUnavailable, ExtractorFoundNothing, QuestionAsked, ValueExtracted, Talks,
         TalkTypes, Quiet, observers
<1>2. frames[t].about \in SlotKeys
  BY <1>1 DEF IInv, Ending, Agrees
<1>3. \A u \in Tasks : u # t => ~Talks(u)
  BY <1>1, OneFloor
<1>4. PhaseOf(ctx) = "live" => Expected(ctx, expecting, offered)
  BY <1>1 DEF TurnsFit, Current
<1>5. CASE ExtractorUnavailable(t)
  <2>1. CASE frames[t].type = "extract"
    <3> DEFINE f == Frame("retry", frames[t].about)
    <3>1. Wait(t, f) /\ ctx' = ctx
      BY <1>5, <2>1, Zenon DEF ExtractorUnavailable
    <3>2. f \in Waits /\ f.type = "retry"
      BY <1>2 DEF Frame, Waits, FrameTypes, Abouts
    <3> HIDE DEF f
    <3>3. f.type \in TalkTypes \ {"READ_BACK", "ASK_FOR"}
      BY <3>2 DEF TalkTypes
    <3>. QED
      BY <1>1, <1>3, <1>4, <3>1, <3>2, <3>3, TakesFloor
  <2>2. CASE frames[t].type # "extract"
    <3>1. Drive(t, AgentError(ctx))
      BY <1>5, <2>2, Zenon DEF ExtractorUnavailable
    <3>2. Sendable(ctx, AgentError(ctx)) /\ AgentError(ctx).ctx.slots = ctx.slots
      BY EscalateSendable DEF AgentError, IInv
    <3>3. OfferedRight(AgentError(ctx).ctx.slots, offered)
      BY <3>2 DEF TurnsFit
    <3>. QED
      BY <1>1, <1>3, <1>4, <3>1, <3>2, <3>3, DriveTalks
  <2>. QED
    BY <2>1, <2>2
<1>6. CASE ExtractorFoundNothing(t)
  <2> DEFINE a == ExtractionFailed(ctx, frames[t].about)
  <2>1. Drive(t, a)
    BY <1>6 DEF ExtractorFoundNothing
  <2>2. Sendable(ctx, a) /\ (~Terminal(ctx.state) => a.ctx.slots = ctx.slots)
    BY <1>2, FailedSendable DEF IInv
  <2> HIDE DEF a
  <2>3. ~Terminal(ctx.state) => OfferedRight(a.ctx.slots, offered)
    BY <2>2 DEF TurnsFit
  <2>. QED
    BY <1>1, <1>3, <1>4, <2>1, <2>2, <2>3, DriveTalks
<1>7. CASE QuestionAsked(t)
  <2> DEFINE f == Frame("SAY_FILLER", "none")
  <2>1. Wait(t, f) /\ ctx' = ctx
    BY <1>7 DEF QuestionAsked
  <2>2. f \in Waits /\ f.type = "SAY_FILLER"
    BY DEF Frame, Waits, FrameTypes, Lines, Abouts
  <2> HIDE DEF f
  <2>3. f.type \in TalkTypes \ {"READ_BACK", "ASK_FOR", "extract", "retry"}
    BY <2>2 DEF TalkTypes
  <2>. QED
    BY <1>1, <1>3, <2>1, <2>2, <2>3, TakesFloor
<1>8. ASSUME NEW k \in SlotKeys, NEW r \in Readings[k], ValueExtracted(t, r), frames[t].about = k
      PROVE  TurnsFit'
  <2> DEFINE a == SlotFilled(ctx, k, r)
  <2>1. Drive(t, a)
    BY <1>8 DEF ValueExtracted
  <2>2. Sendable(ctx, a) /\ (~Terminal(ctx.state) => Inherits(a.ctx.slots, ctx.slots))
    BY <1>8, FilledSendable, CallRuntimeAssumption DEF IInv
  <2> HIDE DEF a
  <2>3. ~Terminal(ctx.state) => OfferedRight(a.ctx.slots, offered)
    BY <2>2 DEF TurnsFit, OfferedRight, Inherits
  <2>. QED
    BY <1>1, <1>3, <1>4, <2>1, <2>2, <2>3, DriveTalks
<1>. QED
  BY <1>5, <1>6, <1>7, <1>8

\* The detour of a question ends in the prompt that is owed.
LEMMA QuestionTurns ==
  ASSUME IInv, TurnsFit, NEW t \in Tasks, FillerSpoken(t) \/ AnswerFound(t) \/ AnswerSpoken(t)
  PROVE  TurnsFit'
<1>1. /\ Talks(t) /\ ctx' = ctx /\ expecting' = expecting /\ offered' = offered
  BY DEF FillerSpoken, AnswerFound, AnswerSpoken, Spoken, callVars, Talks, TalkTypes, Quiet,
         observers
<1>2. \A u \in Tasks : u # t => ~Talks(u)
  BY <1>1, OneFloor
<1>3. CASE AnswerSpoken(t)
  <2>1. Prompt(t)
    BY <1>3 DEF AnswerSpoken
  <2>. QED
    BY <1>1, <1>2, <2>1, PromptTalks
<1>4. ASSUME NEW f \in {Frame("answer", "none"), Frame("ANSWER_FAQ", "none")}, Wait(t, f)
      PROVE  TurnsFit'
  <2>1. f \in Waits /\ f.type \in {"answer", "ANSWER_FAQ"}
    BY <1>4 DEF Frame, Waits, FrameTypes, Lines, Abouts
  <2>2. f.type \in TalkTypes \ {"READ_BACK", "ASK_FOR", "extract", "retry"}
    BY <2>1 DEF TalkTypes
  <2>. QED
    BY <1>1, <1>2, <1>4, <2>1, <2>2, TakesFloor
<1>. QED
  BY <1>3, <1>4 DEF FillerSpoken, AnswerFound

\* What hands the call off, books it, or lets the recorder go.
LEMMA EndingTurns ==
  ASSUME IInv, TurnsFit, NEW t \in Tasks,
         \/ EscalateSpoken(t) \/ HandedOff(t)
         \/ BookingSpoken(t) \/ Submitted(t) \/ SubmitFailed(t) \/ RecorderStopped(t)
  PROVE  TurnsFit'
<1>1. ~Talks(t) /\ offered' = offered
  BY DEF EscalateSpoken, HandedOff, BookingSpoken, Submitted, SubmitFailed, RecorderStopped,
         Spoken, Talks, TalkTypes, Quiet, observers
<1>2. CASE EscalateSpoken(t)
  <2> DEFINE reason == frames[t].about
  <2>1. frames[t].type = "ESCALATE" /\ Wait(t, Frame("handOff", reason))
    BY <1>2 DEF EscalateSpoken, Spoken
  <2>2. reason \in Reasons /\ TakenAway(ctx)
        /\ (reason # "EMERGENCY_HAZARD" => Terminal(ctx.state))
    BY <2>1 DEF IInv, Ending, Agrees, Escalating
  <2>3. ctx' = IF reason = "EMERGENCY_HAZARD" THEN Transition(ctx, GuidanceDelivered(ctx)).ctx
               ELSE ctx
    BY <1>2 DEF EscalateSpoken
  <2>4. ctx'.slots = ctx.slots /\ PhaseOf(ctx') # "live"
    <3>1. CASE reason = "EMERGENCY_HAZARD"
      BY <2>2, <2>3, <3>1, GuidanceEnds DEF IInv, TakenAway, PhaseOf
    <3>2. CASE reason # "EMERGENCY_HAZARD"
      BY <2>2, <2>3, <3>2 DEF TakenAway
    <3>. QED
      BY <3>1, <3>2
  <2>. QED
    BY <1>1, <2>1, <2>2, <2>4, EndsAside
<1>3. CASE HandedOff(t) \/ Submitted(t)
  <2>1. /\ ctx' = ctx /\ frames[t].type \in {"handOff", "submit"}
        /\ (Wait(t, Idle) \/ Wait(t, Frame("stop", "none")))
    BY <1>3 DEF HandedOff, Submitted, Finish
  <2>2. Terminal(ctx.state)
    BY <2>1 DEF IInv, Ending, Agrees, Committing, MachineFits, Sound, Ended
  <2>3. PhaseOf(ctx) # "live"
    BY <2>2 DEF PhaseOf
  <2>. QED
    BY <1>1, <2>1, <2>3, EndsAside
<1>4. CASE BookingSpoken(t) \/ SubmitFailed(t) \/ RecorderStopped(t)
  <2>1. /\ ctx' = ctx /\ expecting' = expecting /\ started' = started
        /\ (Wait(t, Idle) \/ Wait(t, Frame("submit", "none")))
    BY <1>4 DEF BookingSpoken, SubmitFailed, RecorderStopped, callVars, Quiet
  <2>. QED
    BY <1>1, <2>1, EndsAside
<1>. QED
  BY <1>2, <1>3, <1>4

LEMMA TurnsKeep == IInv /\ (~overlapped => TurnsFit) /\ [Next]_vars => (~overlapped => TurnsFit)'
<1> SUFFICES ASSUME IInv, ~overlapped => TurnsFit, [Next]_vars, ~overlapped'
             PROVE  TurnsFit'
  OBVIOUS
<1>1. TurnsFit
  BY DEF Next, Enter, Turn, HearAnswer, HearYes, TurnCompleted, Resume, vars
<1>2. ASSUME NEW t \in Tasks, Resume(t)
      PROVE  TurnsFit'
  BY <1>1, <1>2, GreetingTurns, PromptTurns, ExtractTurns, QuestionTurns, EndingTurns DEF Resume
<1>3. ASSUME NEW t \in Tasks, Enter(t)
      PROVE  TurnsFit'
  BY <1>1, <1>3, EnterTurns
<1>4. CASE UNCHANGED vars
  <2>1. UNCHANGED << ctx, expecting, frames, started, offered >>
    BY <1>4 DEF vars, callVars, observers
  <2>. QED
    BY <1>1, <2>1 DEF TurnsFit, Talks
<1>. QED
  BY <1>2, <1>3, <1>4 DEF Next

LEMMA TurnsHold == Spec => [](IInv /\ (~overlapped => TurnsFit))
<1>1. Init => IInv /\ (~overlapped => TurnsFit)
  BY InitIInv, InitTurns
<1>2. IInv /\ (~overlapped => TurnsFit) /\ [Next]_vars => (IInv /\ (~overlapped => TurnsFit))'
  BY NextKeeps, TurnsKeep
<1>. QED
  BY <1>1, <1>2, PTL DEF Spec

\* As long as no turn has overlapped another, a slot stands confirmed only for the value
\* last said to be confirmed, whatever else is in flight (runtime.ts READ_BACK and
\* confirmOrCorrect, slot-book.ts fill and confirm).
THEOREM AgreedMeansOffered == Spec => []ConfirmedAsOffered
<1>1. IInv /\ (~overlapped => TurnsFit) => ConfirmedAsOffered
  BY DEF TurnsFit, OfferedRight, ConfirmedAsOffered
<1>. QED
  BY <1>1, TurnsHold, PTL

\* As long as no turn has overlapped another, a live call in which nothing is in flight
\* expects the answer to the very prompt the machine would give now, whatever detours,
\* retries and corrections led there (runtime.ts `expecting`).
THEOREM NoCrossedWires == Spec => []ExpectsWhatIsOwed
<1>1. Idle.type \notin TalkTypes
  BY DEF Idle, Frame, TalkTypes
<1>2. IInv /\ (~overlapped => TurnsFit) => ExpectsWhatIsOwed
  <2> SUFFICES ASSUME IInv, TurnsFit, started, AllIdle, ~Terminal(ctx.state)
               PROVE  Expected(ctx, expecting, offered)
    BY DEF ExpectsWhatIsOwed, Expected
  <2>1. \A t \in Tasks : ~Talks(t) /\ ~Guided(t)
    BY <1>1 DEF AllIdle, Talks, Guided, Idle, Frame
  <2>2. PhaseOf(ctx) = "live"
    BY <2>1 DEF IInv, Under, PhaseOf
  <2>. QED
    BY <2>1, <2>2 DEF TurnsFit
<1>. QED
  BY <1>2, TurnsHold, PTL

=============================================================================
