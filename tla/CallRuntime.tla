----------------------------- MODULE CallRuntime -----------------------------
(***************************************************************************)
(* runtime/src/runtime.ts: the machine driven by speech, under the         *)
(* interleavings its awaits allow.                                         *)
(*                                                                         *)
(* Every call of an entry point (start, hear, hearPartial, requestHuman,   *)
(* callerHungUp) is a task.  Between two awaits a task runs alone; at an   *)
(* await it waits for one port.  A transition returns at most one effect,  *)
(* so what a waiting task will do next is told by a single frame: the      *)
(* effect being spoken or the port being waited for, and about what.       *)
(* Rendering a line and speaking it are one await, as are extracting a     *)
(* value and validating it: nothing changes in between.                    *)
(***************************************************************************)
EXTENDS CallMachine, RecordingRules

CONSTANTS
  Tasks,          \* how many entry points can be in flight at once
  Readings,       \* what extraction and validation may make of a turn, per slot
  MaxFaqAnswers,  \* how many questions are answered on one call
  BargesAgain,    \* whether a caller who has talked over the agent may do so again (a bound)
  Parties,        \* who may be at the two ends: the caller's number, the contractor's profile
  SubmitMayFail   \* whether the control plane may refuse a booking

Lines == {"GREET", "ASK_FOR", "READ_BACK", "ESCALATE", "CREATE_PENDING_BOOKING",
          "SAY_FILLER", "ANSWER_FAQ"}

ASSUME CallRuntimeAssumption ==
  /\ Readings \in [SlotKeys -> SUBSET {r \in Reading : r.verdict # "invalid"}]
  /\ MaxFaqAnswers \in Nat
  /\ BargesAgain \in BOOLEAN /\ SubmitMayFail \in BOOLEAN

VARIABLES
  ctx,              \* the MachineContext
  expecting,        \* what the next completed turn is expected to answer
  done,             \* the call is over for the runtime
  faqAnswers,       \* questions answered on this call
  parties,          \* what is known of the two ends when the call comes in
  recorderStarted,
  tape,             \* what the recorder is doing
  frames,           \* what each task is waiting for
  started,          \* start() has been called
  line,             \* what the voice session was told to do with the line
  submitted,        \* bookings the control plane took
  told,             \* observer: what the caller has heard said about the call
  offered,          \* observer: the value of each slot that was last said to be confirmed
  overlapped        \* observer: a turn came before what was in flight was through

callVars == << ctx, expecting, faqAnswers >>
tapeVars == << recorderStarted, tape >>
portVars == << line, submitted >>
observers == << told, offered >>
vars == << callVars, done, parties, tapeVars, frames, started, portVars, observers, overlapped >>

\* What a task is waiting for; a line being spoken carries the value it reads back.
Frame(type, about) == [type |-> type, about |-> about, value |-> Empty]

Speaking(c, effect) ==
  [type |-> effect.type, about |-> effect.about,
   value |-> IF effect.type = "READ_BACK" THEN c.slots[effect.about].value ELSE Empty]

Idle == Frame("idle", "none")
NotExpecting == Effect("nothing", "none")

\* Decided at construction, from facts that do not change during the call.
mode == RecordingDecision(parties)

\* wasDisclosed(): an agent turn that produced audio said the disclosure.
WasDisclosed == "disclosure" \in told

Init ==
  /\ ctx = initialContext
  /\ expecting = NotExpecting
  /\ done = FALSE
  /\ faqAnswers = 0
  /\ parties \in Parties
  /\ recorderStarted = FALSE /\ tape = "off"
  /\ frames = [t \in Tasks |-> Idle]
  /\ started = FALSE
  /\ line = {} /\ submitted = 0
  /\ told = {} /\ offered = EmptyBook /\ overlapped = FALSE

-----------------------------------------------------------------------------
(* The synchronous stretches between two awaits. *)

Wait(t, frame) == frames' = [frames EXCEPT ![t] = frame]

\* performEffects(): nothing is performed on a call that is over.
Perform(t, c, effects) ==
  Wait(t, IF effects = << >> \/ done THEN Idle ELSE Speaking(c, Head(effects)))

Drive(t, applied) ==
  LET result == Transition(ctx, applied)
  IN ctx' = result.ctx /\ Perform(t, result.ctx, result.effects)

Prompt(t) == Perform(t, ctx, NextPrompt(ctx))

Quiet == UNCHANGED << done, parties, tapeVars, started, portVars, observers >>

\* finish(): over, and the recorder that runs is stopped.
Finish(t) ==
  /\ done' = TRUE
  /\ expecting' = NotExpecting
  /\ IF recorderStarted THEN tape' = "stopped" /\ Wait(t, Frame("stop", "none"))
     ELSE UNCHANGED tape /\ Wait(t, Idle)
  /\ UNCHANGED recorderStarted

-----------------------------------------------------------------------------
(* The entry points.  Each but start() does nothing once the call is done. *)

\* Mutant of Start: the tape does not wait for the notice.
StartWithTape(t) ==
  /\ ~started /\ frames[t] = Idle
  /\ started' = TRUE
  /\ IF mode # "DO_NOT_RECORD" THEN Wait(t, Frame("begin", "start")) ELSE Prompt(t)
  /\ UNCHANGED << callVars, done, parties, tapeVars, portVars, observers >>

Start(t) ==
  /\ ~started /\ frames[t] = Idle
  /\ started' = TRUE
  /\ IF mode = "RECORD_FROM_ANSWER" THEN Wait(t, Frame("begin", "start"))
     ELSE Prompt(t)
  /\ UNCHANGED << callVars, done, parties, tapeVars, portVars, observers >>

Entered(t) == started /\ ~done /\ frames[t] = Idle

\* hearPartial(), or hear() of a turn the classifier stops: no model is asked.
HazardHeard(t) ==
  /\ Entered(t)
  /\ Drive(t, HazardDetected(ctx))
  /\ UNCHANGED << expecting, faqAnswers >> /\ Quiet

AllIdle == \A t \in Tasks : frames[t] = Idle

\* A completed turn comes when it comes: hear() waits for nothing that is in flight.
TurnCompleted(t) ==
  /\ Entered(t)
  /\ AllIdle \/ ~overlapped \/ BargesAgain
  /\ overlapped' = (overlapped \/ ~AllIdle)

\* hear(): anything but a plain yes to a read-back goes to the extractor.
HearAnswer(t) ==
  /\ TurnCompleted(t)
  /\ expecting.type \in {"extract", "confirm"}
  /\ Wait(t, Frame("extract", expecting.about))
  /\ UNCHANGED callVars /\ Quiet

\* hear() of an affirmative turn: confirmOrCorrect().
HearYes(t) ==
  /\ TurnCompleted(t)
  /\ expecting.type = "confirm"
  /\ Drive(t, SlotConfirmed(ctx, expecting.about))
  /\ UNCHANGED << expecting, faqAnswers >> /\ Quiet

RequestHuman(t) ==
  /\ Entered(t)
  /\ Drive(t, RequestedHuman(ctx))
  /\ UNCHANGED << expecting, faqAnswers >> /\ Quiet

\* A hang-up emits no effect, so the call finishes before anything else can run.
CallerHungUp(t) ==
  /\ Entered(t)
  /\ ctx' = Transition(ctx, HungUp(ctx)).ctx
  /\ Finish(t)
  /\ UNCHANGED << faqAnswers, parties, started, portVars, observers >>

-----------------------------------------------------------------------------
(* What happens when the port a task waits for answers. *)

Spoken(t, type) == frames[t].type = type

\* The notice, if the line was heard at all, and only then the tape.
Greet(t) ==
  /\ Spoken(t, "GREET")
  /\ told' = told \cup {"disclosure"} \/ UNCHANGED told
  /\ IF mode = "RECORD_AFTER_NOTICE" /\ WasDisclosed' /\ ~recorderStarted
     THEN Wait(t, Frame("begin", "greet")) /\ UNCHANGED ctx
     ELSE Drive(t, Greeted(ctx))
  /\ UNCHANGED << expecting, faqAnswers, done, parties, tapeVars, started, portVars, offered >>

\* recorder.begin() has resolved.
BeginRecording(t) ==
  /\ frames[t].type = "begin"
  /\ recorderStarted' = TRUE /\ tape' = "running"
  /\ IF frames[t].about = "start" THEN Prompt(t) /\ UNCHANGED ctx
     ELSE Drive(t, Greeted(ctx))
  /\ UNCHANGED << expecting, faqAnswers, done, parties, started, portVars, observers >>

\* Mutant of AskFor: what was expected before is still expected.
AskForUnlessExpecting(t) ==
  /\ Spoken(t, "ASK_FOR")
  /\ expecting' = IF expecting = NotExpecting THEN Effect("extract", frames[t].about) ELSE expecting
  /\ Wait(t, Idle)
  /\ UNCHANGED << ctx, faqAnswers >> /\ Quiet

AskFor(t) ==
  /\ Spoken(t, "ASK_FOR")
  /\ expecting' = Effect("extract", frames[t].about)
  /\ Wait(t, Idle)
  /\ UNCHANGED << ctx, faqAnswers >> /\ Quiet

ReadBack(t) ==
  /\ Spoken(t, "READ_BACK")
  /\ expecting' = Effect("confirm", frames[t].about)
  /\ offered' = [offered EXCEPT ![frames[t].about] = frames[t].value]
  /\ Wait(t, Idle)
  /\ UNCHANGED << ctx, faqAnswers, done, parties, tapeVars, started, portVars, told >>

\* The guidance has been read; it emits no further effect.  Then the line is handed
\* to a human, or hung up on a caller outside the service area.
EscalateSpoken(t) ==
  /\ Spoken(t, "ESCALATE")
  /\ LET reason == frames[t].about
     IN /\ ctx' = IF reason = "EMERGENCY_HAZARD" THEN Transition(ctx, GuidanceDelivered(ctx)).ctx
                  ELSE ctx
        /\ line' = line \cup {IF reason = "OUT_OF_SERVICE_AREA" THEN "hungUp" ELSE "transferred"}
        /\ Wait(t, Frame("handOff", reason))
  /\ UNCHANGED << expecting, faqAnswers, done, parties, tapeVars, started, submitted, observers >>

\* Mutant of HandedOff: the escalation path forgets finish().
HandedOffOnly(t) ==
  /\ frames[t].type = "handOff"
  /\ Wait(t, Idle)
  /\ UNCHANGED callVars /\ Quiet

\* finishEscalation() has resolved.
HandedOff(t) ==
  /\ frames[t].type = "handOff"
  /\ Finish(t)
  /\ UNCHANGED << ctx, faqAnswers, parties, started, portVars, observers >>

\* buildPendingBooking() throws, and the task is gone, if a slot were missing.
BookingSpoken(t) ==
  /\ Spoken(t, "CREATE_PENDING_BOOKING")
  /\ Wait(t, IF \A k \in SlotKeys : ctx.slots[k] # Empty THEN Frame("submit", "none")
             ELSE Idle)
  /\ UNCHANGED callVars /\ Quiet

Submitted(t) ==
  /\ frames[t].type = "submit"
  /\ submitted' = submitted + 1
  /\ Finish(t)
  /\ UNCHANGED << ctx, faqAnswers, parties, started, line, observers >>

\* The control plane refused: the exception leaves performOne() before finish().
SubmitFailed(t) ==
  /\ SubmitMayFail
  /\ frames[t].type = "submit"
  /\ Wait(t, Idle)
  /\ UNCHANGED callVars /\ Quiet

RecorderStopped(t) ==
  /\ frames[t].type = "stop"
  /\ Wait(t, Idle)
  /\ UNCHANGED callVars /\ Quiet

\* extractAndApply(): one retry, then an outage is a human's problem.
ExtractorUnavailable(t) ==
  /\ frames[t].type \in {"extract", "retry"}
  /\ IF frames[t].type = "extract"
     THEN Wait(t, Frame("retry", frames[t].about)) /\ UNCHANGED ctx
     ELSE Drive(t, AgentError(ctx))
  /\ UNCHANGED << expecting, faqAnswers >> /\ Quiet

\* Nothing was extracted, or the validator left nothing of it.
ExtractorFoundNothing(t) ==
  /\ frames[t].type \in {"extract", "retry"}
  /\ Drive(t, ExtractionFailed(ctx, frames[t].about))
  /\ UNCHANGED << expecting, faqAnswers >> /\ Quiet

\* Nothing was extracted because the caller asked a question: the detour's check
\* and its count are one stretch, and the filler is spoken even if the call is done.
QuestionAsked(t) ==
  /\ frames[t].type \in {"extract", "retry"}
  /\ faqAnswers < MaxFaqAnswers
  /\ faqAnswers' = faqAnswers + 1
  /\ Wait(t, Frame("SAY_FILLER", "none"))
  /\ UNCHANGED << ctx, expecting >> /\ Quiet

ValueExtracted(t, r) ==
  /\ frames[t].type \in {"extract", "retry"}
  /\ Drive(t, SlotFilled(ctx, frames[t].about, r))
  /\ UNCHANGED << expecting, faqAnswers >> /\ Quiet

FillerSpoken(t) ==
  /\ Spoken(t, "SAY_FILLER")
  /\ Wait(t, Frame("answer", "none"))
  /\ UNCHANGED callVars /\ Quiet

\* Answered, unknown or unavailable: each is said in its own words.
AnswerFound(t) ==
  /\ frames[t].type = "answer"
  /\ Wait(t, Frame("ANSWER_FAQ", "none"))
  /\ UNCHANGED callVars /\ Quiet

AnswerSpoken(t) ==
  /\ Spoken(t, "ANSWER_FAQ")
  /\ Prompt(t)
  /\ UNCHANGED callVars /\ Quiet

-----------------------------------------------------------------------------

Turn(t) == HearAnswer(t) \/ HearYes(t)

OtherEntry(t) == Start(t) \/ HazardHeard(t) \/ RequestHuman(t) \/ CallerHungUp(t)

Enter(t) == Turn(t) \/ (OtherEntry(t) /\ UNCHANGED overlapped)

Resume(t) ==
  /\ UNCHANGED overlapped
  /\ \/ Greet(t) \/ BeginRecording(t) \/ AskFor(t) \/ ReadBack(t)
     \/ EscalateSpoken(t) \/ HandedOff(t)
     \/ BookingSpoken(t) \/ Submitted(t) \/ SubmitFailed(t) \/ RecorderStopped(t)
     \/ ExtractorUnavailable(t) \/ ExtractorFoundNothing(t) \/ QuestionAsked(t)
     \/ FillerSpoken(t) \/ AnswerFound(t) \/ AnswerSpoken(t)
     \/ \E k \in SlotKeys : \E r \in Readings[k] :
          frames[t].about = k /\ ValueExtracted(t, r)

Next == \E t \in Tasks : Enter(t) \/ Resume(t)

Spec == Init /\ [][Next]_vars

\* Every port call resolves; the caller owes the system nothing.
FairSpec == Spec /\ \A t \in Tasks : WF_vars(Resume(t))

-----------------------------------------------------------------------------
(* Properties *)

FrameTypes == Lines \cup {"idle", "begin", "extract", "retry", "answer", "handOff",
                          "submit", "stop"}

\* Types of the runtime's fields and of what its tasks wait for.
TypeOK ==
  /\ ctx \in Context
  /\ expecting.type \in {"nothing", "extract", "confirm"}
  /\ expecting.about \in SlotKeys \cup {"none"}
  /\ done \in BOOLEAN /\ recorderStarted \in BOOLEAN /\ started \in BOOLEAN
  /\ faqAnswers \in Nat /\ submitted \in Nat
  /\ parties \in Parties /\ tape \in {"off", "running", "stopped"}
  /\ \A t \in Tasks : frames[t].type \in FrameTypes
  /\ line \subseteq {"transferred", "hungUp"} /\ told \subseteq {"disclosure"}

\* However the tasks interleave, the control plane is told of a call at most once,
\* only if the machine booked it, and never of a call that was handed to a human or
\* declined (runtime.ts CREATE_PENDING_BOOKING and ESCALATE).
OneEnding ==
  /\ submitted <= 1
  /\ submitted = 1 => ctx.outcome = "BOOKED" /\ line = {}

\* A call is taped only if its contractor asked for it under the addendum in force, and
\* before the caller has heard the disclosure only if both ends are known to be in
\* states that ask for no notice: not on a number or a profile that tells us nothing,
\* nor when the greeting is silent or interrupted (recording.ts, runtime.ts GREET).
NoticeBeforeTape ==
  tape # "off" =>
    /\ parties.recordingEnabled /\ parties.dpaVersion = DPA_VERSION
    /\ \/ WasDisclosed
       \/ \A state \in {StateForNumber(parties.caller), parties.stateCode} :
            /\ state \in {AREA_CODE_STATE[npa] : npa \in DOMAIN AREA_CODE_STATE}
            /\ state \notin ALL_PARTY_CONSENT_STATES

\* As long as no turn has overlapped another, a slot stands confirmed only for the very
\* value last said to be confirmed, whatever detours, corrections and failures lie
\* between.  Said, not heard: ReadBack expects the answer without asking whether its
\* line produced audio (runtime.ts 357-360).
ConfirmedAsOffered ==
  ~overlapped =>
    \A k \in SlotKeys :
      ctx.slots[k] # Empty /\ ctx.slots[k].confirmed => offered[k] = ctx.slots[k].value

\* No crossed wires: as long as no turn has overlapped another, when nothing is in flight
\* in a live call the next completed turn is expected to answer the very prompt
\* the machine would give now, whatever detours, retries and corrections led there
\* (runtime.ts `expecting`).
ExpectsWhatIsOwed ==
  ~overlapped /\ started /\ AllIdle /\ ~Terminal(ctx.state) =>
    \E prompt \in {"ASK_FOR", "READ_BACK"} :
      /\ NextPrompt(ctx) = << Effect(prompt, expecting.about) >>
      /\ expecting.type = (IF prompt = "ASK_FOR" THEN "extract" ELSE "confirm")

\* finish() stops the tape (runtime.ts 304-316): no recorder is left running once the
\* call is done and nothing is in flight.
TapeStopsWithTheCall == done /\ AllIdle => tape # "running"

\* Seen from outside, every call is one of CallLifecycle: an answer, a confirmation or a
\* failure that comes late, from a task begun before the call was interrupted or ended,
\* neither revives it nor gives it a second outcome (runtime.ts drive, machine.ts 182).
Lifecycle == INSTANCE CallLifecycle WITH phase <- PhaseOf(ctx), outcome <- ctx.outcome

ImplementsLifecycle == Lifecycle!Spec

\* A call in an emergency is always taken off the agent's hands, and a call the
\* machine has ended is always finished, whatever else is in flight.
EndingsAreReached == Terminal(ctx.state) \/ ctx.state = "EMERGENCY" ~> done

=============================================================================
