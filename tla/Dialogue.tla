------------------------------ MODULE Dialogue ------------------------------
(***************************************************************************)
(* One call, turn by turn, from the words of the caller to the words of    *)
(* the agent: hear() and hearPartial() of runtime/src/runtime.ts with the  *)
(* redaction, the classifier, the model calls, the validators and the      *)
(* utterances they go through.                                             *)
(*                                                                         *)
(* The caller says whatever Utterances holds and the models answer what    *)
(* they please.  A turn is handled to its end before the next: what two    *)
(* turns in flight do to one another is CallRuntime's matter.              *)
(***************************************************************************)
EXTENDS Utterances, ModelCalls, Validators

CONSTANTS
  Says,             \* the texts a caller may say
  Failures,         \* the replies of a vendor that hold no object
  Objects,          \* the objects a model may fill, per slot
  GeocoderAnswers,
  FaqIndex,         \* every tenant's entries: [id, tenant, answer]
  Score,            \* the similarity of each entry to each text, in percent
  Selections,       \* the objects a model may fill when it selects an entry
  Tenant,
  MaxFaqAnswers,
  Kept,             \* of each text, what may be held; only the properties read these
  Stated,           \* the hazards it states
  PlainYeses        \* the texts that are a clear yes

\* A reply without an object is an answer of 200 with none in it, a refusal, an error of
\* the vendor's, or none at all; a value our own code lets through fits its slot's schema.
ASSUME DialogueAssumption ==
  /\ \A f \in Failures :
       /\ f.status \in {NoAnswer, 200} \cup 400 .. 599
       /\ f.status = 200 => f.body \in {"no call", "unparseable", "not an object"}
  /\ \A answer \in GeocoderAnswers : answer.status \in Nat
  /\ \A k \in SlotKeys : \A object \in Objects[k] :
       ~Absent(object) =>
         /\ object.number \in BOOLEAN
         /\ k = "appointment_window" => object.value \in [from : Int, to : Int]
         /\ \A answer \in GeocoderAnswers :
              LET validation == ValidateSlot(k, object.value, answer)
              IN validation = Rejected \/ validation.value \in Values

VARIABLES
  ctx, expecting, faqAnswers, done,   \* as in CallRuntime
  vendor,                             \* whose models the worker was started with
  turn,                               \* the turn that is being handled, or was last
  spoken                              \* what the agent has said in it

vars == << ctx, expecting, faqAnswers, done, vendor, turn, spoken >>

NotExpecting == Effect("nothing", "none")

\* `text` is what the process holds of what was `said`; `fault` observes whose fault it
\* is that the turn goes as it goes.
NewTurn(said, text, phase) ==
  [said |-> said, text |-> text, phase |-> phase, attempts |-> 0, object |-> Null,
   fault |-> "none"]

Reply(body, object) == [status |-> 200, code |-> "none", body |-> body, object |-> object]

RepliesWith(objects) == Failures \cup {Reply("object", o) : o \in objects}

\* The redaction is the first statement of both entry points.
Held == [said \in Says |-> RedactPan(said)]

HazardIn == [said \in Says |-> Classify(Held[said])]
YesIn == [said \in Says |-> IsAffirmative(Held[said])]
QuestionIn == [said \in Says |-> IsQuestion(Held[said])]

Init ==
  /\ ctx = initialContext
  /\ expecting = NotExpecting
  /\ faqAnswers = 0
  /\ done = FALSE
  /\ vendor \in Vendors
  /\ turn = NewTurn("", "", "waiting")
  /\ spoken = << >>

-----------------------------------------------------------------------------

\* performEffects() of the one effect there may be.
Perform(c, effects, hazard) ==
  IF effects = << >> THEN UNCHANGED << expecting, done >> /\ ctx' = c /\ spoken' = << >>
  ELSE LET effect == Head(effects)
       IN /\ spoken' = Line(c, effect, hazard)
          /\ ctx' = IF hazard = "none" THEN c ELSE Transition(c, GuidanceDelivered(c)).ctx
          /\ done' = (effect.type \in {"ESCALATE", "CREATE_PENDING_BOOKING"})
          /\ expecting' =
               CASE effect.type = "ASK_FOR"   -> Effect("extract", effect.about)
                 [] effect.type = "READ_BACK" -> Effect("confirm", effect.about)
                 [] OTHER                     -> NotExpecting

Drive(applied, hazard) ==
  LET result == Transition(ctx, applied) IN Perform(result.ctx, result.effects, hazard)

Over(fault) == turn' = [turn EXCEPT !.phase = "over", !.fault = fault]

Listening == ~done /\ turn.phase \in {"over", "threw"}

\* start(): the greeting, and the first question.
Start ==
  /\ turn.phase = "waiting"
  /\ LET greeted == Transition(ctx, Greeted(ctx))
     IN /\ ctx' = greeted.ctx
        /\ spoken' = Line(ctx, Head(NextPrompt(ctx)), "none")
                       \o Line(greeted.ctx, Head(greeted.effects), "none")
        /\ expecting' = Effect("extract", Head(greeted.effects).about)
  /\ Over("none")
  /\ UNCHANGED << faqAnswers, done, vendor >>

\* hearPartial(), or hear(): no model is asked.
HazardHeard(said) ==
  /\ Listening /\ HazardIn[said] # "none"
  /\ Drive(HazardDetected(ctx), HazardIn[said])
  /\ turn' = NewTurn(said, Held[said], "over")
  /\ UNCHANGED << faqAnswers, vendor >>

HearYes(said) ==
  /\ Listening /\ HazardIn[said] = "none"
  /\ expecting.type = "confirm" /\ YesIn[said]
  /\ Drive(SlotConfirmed(ctx, expecting.about), "none")
  /\ turn' = NewTurn(said, Held[said], "over")
  /\ UNCHANGED << faqAnswers, vendor >>

HearAnswer(said) ==
  /\ Listening /\ HazardIn[said] = "none"
  /\ expecting.type = "extract" \/ (expecting.type = "confirm" /\ ~YesIn[said])
  /\ turn' = NewTurn(said, Held[said], "extract")
  /\ spoken' = << >>
  /\ UNCHANGED << ctx, expecting, faqAnswers, done, vendor >>

-----------------------------------------------------------------------------
(* extractAndApply() *)

key == expecting.about

\* Nothing to read a value from, or a value its schema refuses.
Unreadable(reply) ==
  reply.body = "not an object" \/ (~reply.object.fits /\ reply.object.value # Null)

\* Whose fault a reply is, in the words of groq/src/errors.ts: the world's, the model's,
\* ours, or nobody's, when it is the caller who said nothing of use.
FaultOf(reply) ==
  IF reply.status = 200 /\ reply.body \in {"object", "not an object"}
  THEN IF Unreadable(reply) THEN "model" ELSE "caller"
  ELSE IF /\ reply.status \in 400 .. 499 /\ reply.status # 429
          /\ ~(vendor = "groq" /\ reply.status = 400 /\ reply.code \in MODEL_FAILURE_CODES)
  THEN "us"
  ELSE "vendor"

Outcome(reply) == ExtractionOutcome(vendor, reply)

ExtractorThrows(reply) ==
  /\ Outcome(reply) = "throws"
  /\ turn' = [turn EXCEPT !.phase = "threw", !.fault = FaultOf(reply)]
  /\ UNCHANGED << ctx, expecting, faqAnswers, done, vendor, spoken >>

\* Asked once more; a second time, the call is handed off.
ExtractorUnavailable(reply) ==
  /\ Outcome(reply) = "unavailable"
  /\ IF turn.attempts = 0
     THEN /\ turn' = [turn EXCEPT !.attempts = 1, !.fault = FaultOf(reply)]
          /\ UNCHANGED << ctx, expecting, done, spoken >>
     ELSE Drive(AgentError(ctx), "none") /\ Over(FaultOf(reply))
  /\ UNCHANGED << faqAnswers, vendor >>

MayAnswer == faqAnswers < MaxFaqAnswers /\ QuestionIn[turn.said]

ExtractorFoundNothing(reply) ==
  /\ Outcome(reply) = "absent" /\ ~MayAnswer
  /\ Drive(ExtractionFailed(ctx, key), "none")
  /\ Over(FaultOf(reply))
  /\ UNCHANGED << faqAnswers, vendor >>

QuestionAsked(reply) ==
  /\ Outcome(reply) = "absent" /\ MayAnswer
  /\ faqAnswers' = faqAnswers + 1
  /\ spoken' = Line(ctx, Effect("SAY_FILLER", "none"), "none")
  /\ turn' = [turn EXCEPT !.phase = "answer", !.fault = FaultOf(reply)]
  /\ UNCHANGED << ctx, expecting, done, vendor >>

ValueHeard(reply) ==
  /\ Outcome(reply) = "filled"
  /\ turn' = [turn EXCEPT !.phase = "validate", !.object = reply.object, !.fault = FaultOf(reply)]
  /\ UNCHANGED << ctx, expecting, faqAnswers, done, vendor, spoken >>

\* Only an address waits for an answer here.
Validated(answer) ==
  /\ turn.phase = "validate"
  /\ LET validation == ValidateSlot(key, turn.object.value, answer)
         reading == [value |-> validation.value, sure |-> Sure(turn.object),
                     verdict |-> validation.verdict]
     IN IF validation = Rejected THEN Drive(ExtractionFailed(ctx, key), "none")
        ELSE Drive(SlotFilled(ctx, key, reading), "none")
  /\ turn' = [turn EXCEPT !.phase = "over", !.object = Null,
                !.fault = IF key = "service_address" /\ answer.status # 200 THEN "vendor" ELSE @]
  /\ UNCHANGED << faqAnswers, vendor >>

-----------------------------------------------------------------------------
(* answerQuestion() *)

Candidates == Retrieve(FaqIndex, Tenant, Score[turn.said])

\* The same question is put again after the answer.
SayAnswer(answer) ==
  /\ spoken' = AnswerLine(answer) \o Line(ctx, Head(NextPrompt(ctx)), "none")
  /\ UNCHANGED << ctx, expecting, faqAnswers, done, vendor >>

\* Retrieval is down, or finds nothing close enough: no model is asked.
NothingRetrieved(down) ==
  /\ turn.phase = "answer"
  /\ down \/ Candidates = {}
  /\ SayAnswer(NoReply)
  /\ Over("none")

AnswererThrows(reply) ==
  /\ turn.phase = "answer" /\ Candidates # {} /\ Read(vendor, reply) = "throws"
  /\ turn' = [turn EXCEPT !.phase = "threw", !.fault = FaultOf(reply)]
  /\ UNCHANGED << ctx, expecting, faqAnswers, done, vendor, spoken >>

\* Whatever becomes of the question, the promise of a call back charges nobody.
AnswerSelected(reply) ==
  /\ turn.phase = "answer" /\ Candidates # {} /\ Read(vendor, reply) # "throws"
  /\ LET selected == IF Read(vendor, reply) = "unavailable" THEN {}
                     ELSE Selected(reply, Candidates, FaqIndex)
     IN SayAnswer(IF selected = {} THEN NoReply ELSE (CHOOSE e \in selected : TRUE).answer)
  /\ Over("none")

-----------------------------------------------------------------------------

Next ==
  \/ Start
  \/ \E said \in Says : HazardHeard(said) \/ HearYes(said) \/ HearAnswer(said)
  \/ turn.phase = "extract" /\ \E reply \in RepliesWith(Objects[key]) :
       \/ ExtractorThrows(reply) \/ ExtractorUnavailable(reply)
       \/ ExtractorFoundNothing(reply) \/ QuestionAsked(reply) \/ ValueHeard(reply)
  \/ \E answer \in GeocoderAnswers : Validated(answer)
  \/ \E down \in BOOLEAN : NothingRetrieved(down)
  \/ \E reply \in RepliesWith(Selections) : AnswererThrows(reply) \/ AnswerSelected(reply)

Spec == Init /\ [][Next]_vars

-----------------------------------------------------------------------------
(* Properties.  Three tables stand for a listener who heard the words themselves. *)

\* A card number that stands by itself is gone from all the process holds of the turn,
\* and nothing else is: a phone number or a postcode is kept to the letter.  So is a card
\* number said in one breath with another number, though pci.ts means none to be.
CardsAndOnlyCards == turn.phase # "waiting" => turn.text = Kept[turn.said]

\* A hazard that is stated ends the call as an emergency, whatever was being asked, and
\* the guidance and the transfer are those of the worst one stated; a call in which none
\* is stated never ends so.
WorstHazardActs ==
  /\ ctx.outcome = "ESCALATED_EMERGENCY" <=> Stated[turn.said] # {}
  /\ ctx.outcome = "ESCALATED_EMERGENCY" =>
       /\ Len(spoken) = 2 /\ spoken[1][1] = "guidance"
       /\ spoken[1][2] \in Stated[turn.said]
       /\ \A other \in Stated[turn.said] :
            HAZARD_SEVERITY[other] <= HAZARD_SEVERITY[spoken[1][2]]
       /\ spoken[2] = << "transfer", IF HAZARD_SEVERITY[spoken[1][2]] >= 90
                                     THEN "DIAL_911_GUIDANCE" ELSE "WARM_TRANSFER" >>

\* A caller is never charged with a failure for an outage, a refusal or a defect of ours,
\* a call is given up as our error only for what a vendor did, and a turn dies only of a
\* defect of ours.  For a reply that a model garbled the caller is charged as if nothing
\* had been said: errors.ts, 32-38, would have none of a model's failures taken so.
FailuresAreChargedFairly ==
  [][/\ (\E k \in SlotKeys : ctx'.failures[k] > ctx.failures[k])
          => turn'.fault \in {"caller", "model"}
     /\ ctx'.escalation = "AGENT_ERROR" => turn'.fault = "vendor"
     /\ turn'.phase = "threw" => turn'.fault = "us"]_vars

\* What the agent says of the business is an answer this contractor wrote, to a question
\* close enough to the one the caller asked, whatever the model selects.
SpokenIsCommitted ==
  \A i \in DOMAIN spoken :
    spoken[i][1] = "answer" =>
      \E e \in FaqIndex : /\ e.tenant = Tenant /\ e.answer = spoken[i][2]
                          /\ Score[turn.said][e.id] >= SIMILARITY_FLOOR

\* One opening holds both ends of the window the call agrees on, and if the window is
\* shorter than a week it holds every minute whose local time is between theirs, on the
\* night the clocks change too.  The rest may be unstaffed, whatever schedule.ts promises:
\* the days within a window of a week, and of an hour the clocks repeat what is earlier
\* than the window's start.
WindowsAreStaffed ==
  LET slot == ctx.slots["appointment_window"]
      w == slot.value
  IN slot # Empty =>
       \E h \in Hours :
         /\ Dow(w.from) = h.dow /\ MinuteOfDay(w.from) >= h.open
         /\ Dow(w.to) = h.dow /\ MinuteOfDay(w.to) <= h.close
         /\ LocalTime(w.to) - LocalTime(w.from) <= 6 * Day =>
              \A t \in w.from .. w.to :
                LocalTime(t) \in LocalTime(w.from) .. LocalTime(w.to) =>
                  Dow(t) = h.dow /\ MinuteOfDay(t) \in h.open .. h.close

\* "A clear yes, and nothing that reads as no": a slot is confirmed only by words that
\* are one.
NoIsNeverYes ==
  [][\A k \in SlotKeys :
       ctx'.slots[k] # Empty /\ ctx.slots[k] # Empty
         /\ ctx'.slots[k].confirmed /\ ~ctx.slots[k].confirmed
       => turn'.said \in PlainYeses]_vars

=============================================================================
