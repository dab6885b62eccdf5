----------------------------- MODULE MCDialogue -----------------------------
(* Dialogue for TLC: one caller, one contractor, and what each may meet. *)
EXTENDS Dialogue, TLC

Leak == "there's a gas leek behind the stove"
Flood == "my basement is flooding and i have a newborn baby here"
LeakAndBaby == "there's a gas leak and my baby is upstairs"
Smoke == "smoke is filling the kitchen"
Flooring == "we're installing new flooring next week"
Card == "my card is 4111 1111 1111 1111"
CardInOne == "it's 4111111111111112 ok"
PhoneAndZip == "3055551234 33135"
PhoneAndCard == "3055551234 4111 1111 1111 1111"
Question == "do you fix pools"
Plain == "yes that's right"
Wrong == "no that's wrong"
NotRight == "that isn't right"

MCSays == {Leak, Flood, LeakAndBaby, Smoke, Flooring, Card, CardInOne, PhoneAndZip,
           PhoneAndCard, Question, Plain, Wrong}
WithNotRight == {Plain, Wrong, NotRight, Flooring}

MCKept == [said \in MCSays \cup {"", NotRight} |->
  CASE said = Card -> "my card is [card number redacted]"
    [] said = CardInOne -> "it's [card number redacted] ok"
    [] OTHER -> said]

MCStated == [said \in MCSays \cup {"", NotRight} |->
  CASE said = Leak -> {"GAS_LEAK"}
    [] said = Flood -> {"FLOODING", "VULNERABLE_PERSON_AT_RISK"}
    [] said = LeakAndBaby -> {"GAS_LEAK"}
    [] said = Smoke -> {"FIRE"}
    [] OTHER -> {}]

MCPlainYeses == {Plain}

-----------------------------------------------------------------------------
Failed(status, code, body) == [status |-> status, code |-> code, body |-> body, object |-> Null]

MCFailures ==
  {Failed(NoAnswer, "none", "none"), Failed(429, "none", "none"), Failed(500, "none", "none"),
   Failed(400, "none", "none"), Failed(400, "tool_use_failed", "none"), Failed(401, "none", "none"),
   Failed(200, "none", "no call"), Failed(200, "none", "unparseable"),
   Failed(200, "none", "not an object")}

\* One failure of each kind.
FewFailures == {Failed(429, "none", "none"), Failed(200, "none", "not an object")}

Object(value, fits, number, confidence) ==
  [value |-> value, fits |-> fits, number |-> number, confidence |-> confidence]

Sound(value) == Object(value, TRUE, TRUE, 95)
Unheard == Object(Null, FALSE, TRUE, 0)

\* Minutes from a Sunday's midnight, UTC.  It is the Friday before the clocks go back, and
\* somebody is at work on the night they do.
Utc(day, hour) == day * Day + hour * 60
MCNow == Utc(5, 13)
MCUtcOffset(t) == IF t < Utc(7, 6) THEN -240 ELSE -300
MCHours == {[dow |-> d, open |-> 8 * 60, close |-> 17 * 60] : d \in {1, 5}}
             \cup {[dow |-> 0, open |-> 75, close |-> 180]}

Window(from, to) == [from |-> from, to |-> to]
PastClosing == Window(Utc(5, 20), Utc(5, 22))
MondayAtOpening == Window(Utc(8, 13), Utc(8, 15))
TooSoon == Window(Utc(5, 13), Utc(5, 15))
FridayToFriday == Window(Utc(5, 20), Utc(12, 20))

\* From half past one to a quarter to two, an hour later: nobody is there when the clocks
\* show one again.
RepeatedHour == Window(Utc(7, 5) + 30, Utc(7, 6) + 45)

HeardOfWindows ==
  {TooSoon, PastClosing, MondayAtOpening, FridayToFriday, RepeatedHour}

MCObjects == [k \in SlotKeys |->
  CASE k = "caller_name" -> {Sound([text |-> "ada"]), Unheard}
    [] k = "callback_phone" ->
         {Sound([heard |-> "(305) 555-1234"]), Sound([heard |-> "911"]),
          Object([heard |-> "1 305 555 9876"], TRUE, TRUE, 140)}
    [] k = "problem_description" -> {Object([text |-> "no heat"], TRUE, FALSE, 0)}
    [] k = "urgency" -> {Sound([text |-> "same day"]), Object([text |-> "pronto"], FALSE, TRUE, 90)}
    [] k = "service_address" -> {Object([heard |-> "one main"], TRUE, TRUE, 40)}
    [] k = "appointment_window" -> {Sound(w) : w \in HeardOfWindows}]

Answer(status, granularity, complete, formatted) ==
  [status |-> status, granularity |-> granularity, complete |-> complete, formatted |-> formatted,
   located |-> TRUE]

MCGeocoderAnswers ==
  {Answer(200, "PREMISE", TRUE, "1 main st"), Answer(200, "SUB_PREMISE", TRUE, "9 far rd"),
   [Answer(200, "SUB_PREMISE", TRUE, "9 far rd") EXCEPT !.located = FALSE],
   Answer(200, "ROUTE", TRUE, "main st"), Answer(200, "PREMISE", FALSE, "1 main st"),
   Answer(200, "PREMISE", TRUE, ""), Answer(503, "OTHER", FALSE, ""), Answer(403, "OTHER", FALSE, "")}

InTown == {Answer(200, "PREMISE", TRUE, "1 main st")}

MCValues ==
  {[text |-> "ada"], [text |-> "no heat"], [text |-> "same day"],
   [phone |-> "13055551234"], [phone |-> "13055559876"],
   [address |-> "1 main st", located |-> TRUE], [address |-> "9 far rd", located |-> TRUE],
   [address |-> "9 far rd", located |-> FALSE], [address |-> "one main", located |-> FALSE]}
    \cup HeardOfWindows

MCOutOfArea == {[address |-> "9 far rd", located |-> TRUE]}

-----------------------------------------------------------------------------
Faq(id, tenant, answer) == [id |-> [entry |-> id], tenant |-> tenant, answer |-> answer]

\* Two of ours close enough, one of ours that is not, and another contractor's.
MCFaqIndex ==
  {Faq("near" \o ToString(i), "ours", "we do pools") : i \in 1..2}
    \cup {Faq("off", "ours", "we close at five"), Faq("theirs", "theirs", "we do pools cheaper")}

MCScore == [said \in MCSays \cup {NotRight} |->
  [id \in {e.id : e \in MCFaqIndex} |->
     CASE said # Question -> 10
       [] id = [entry |-> "off"] -> 14
       [] id = [entry |-> "theirs"] -> 90
       [] OTHER -> 60]]

MCSelections ==
  {[value |-> id] : id \in {e.id : e \in MCFaqIndex} \cup {Null, [entry |-> "made up"]}}

=============================================================================
