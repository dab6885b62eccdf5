----------------------------- MODULE Utterances -----------------------------
(***************************************************************************)
(* What the caller hears for an effect: utterance/src/{cached,render}.ts.  *)
(*                                                                         *)
(* A line is a list of the catalog's sentences, each named with what it is *)
(* filled with; only the answer to a question is not the catalog's.        *)
(***************************************************************************)
EXTENDS CallMachine, Hazards

CONSTANT NoReply   \* a question no committed answer was found for

\* The national digits of a North American number, all the digits of any other.
SpeakSlot(k, value) ==
  IF k # "callback_phone" THEN value
  ELSE IF Len(value.phone) = 11 /\ At(value.phone, 1) = "1"
       THEN [digits |-> SubSeq(value.phone, 2, 11)] ELSE [digits |-> value.phone]

ActionFor(reason, hazard) ==
  IF hazard # "none" THEN HAZARD_ACTIONS[hazard]
  ELSE IF reason = "OUT_OF_SERVICE_AREA" THEN "DECLINE" ELSE "WARM_TRANSFER"

\* Guidance or the reason first, then the transfer; the disclosure between the opening
\* and the invitation; a slot asked again once it has not come through.
Line(c, effect, hazard) ==
  LET k == effect.about
  IN CASE effect.type = "GREET" -> << << "opening" >>, << "disclosure" >>, << "invitation" >> >>
       [] effect.type = "ASK_FOR" ->
            << << "ask", k, IF c.failures[k] > 0 THEN "reprompt" ELSE "initial" >> >>
       [] effect.type = "READ_BACK" -> << << "readBack", k, SpeakSlot(k, c.slots[k].value) >> >>
       [] effect.type = "ESCALATE" ->
            << IF hazard # "none" THEN << "guidance", hazard >> ELSE << "escalation", k >>,
               << "transfer", ActionFor(k, hazard) >> >>
       [] effect.type = "CREATE_PENDING_BOOKING" ->
            << << "closing", SpeakSlot("callback_phone", c.slots["callback_phone"].value) >> >>
       [] effect.type = "SAY_FILLER" -> << << "filler" >> >>

\* The contractor's own words, or the promise of a call back.
AnswerLine(answer) == IF answer = NoReply THEN << << "unknown" >> >> ELSE << << "answer", answer >> >>

=============================================================================
