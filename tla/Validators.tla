----------------------------- MODULE Validators -----------------------------
(***************************************************************************)
(* What our own code makes of what the extractor heard, before it may be a *)
(* slot's value: runtime/src/validate.ts over validators/src.              *)
(*                                                                         *)
(* Each slot's values are records with a field of their own, so that a     *)
(* book may hold any of them.  Time is counted in minutes of UTC, from a   *)
(* Sunday's midnight.  allowAfterHours, which no caller of the validator   *)
(* sets, is left out.                                                      *)
(***************************************************************************)
EXTENDS Speech

CONSTANTS
  Hours,         \* the tenant's openings: [dow, open, close], in local minutes
  UtcOffset(_),  \* of the tenant's zone, at an instant
  Now

MIN_LEAD_MINUTES == 60
MAX_DAYS_AHEAD == 60
MIN_DURATION_MINUTES == 30
Day == 24 * 60

ASSUME ValidatorsAssumption ==
  Hours \subseteq [dow : 0 .. 6, open : 0 .. Day, close : 0 .. Day] /\ Now \in Int

Accepted(value) == [verdict |-> "valid", value |-> value]
Unverified(value) == [verdict |-> "unavailable", value |-> value]
Rejected == [verdict |-> "invalid", value |-> << >>]

-----------------------------------------------------------------------------
(* phone.ts *)

\* North America: ten digits, or eleven with the country code said out of habit.
E164(raw) ==
  LET digits == Join(Words(raw, Digits), "")
  IN CASE At(raw, 1) = "+" -> digits
       [] At(raw, 1) # "+" /\ Len(digits) = 10 -> "1" \o digits
       [] At(raw, 1) # "+" /\ Len(digits) = 11 /\ At(digits, 1) = "1" -> digits
       [] OTHER -> ""

\* No area code or exchange starts with 0 or 1, and N11 is a service.
NanpProblem(national) ==
  \/ Len(national) # 10
  \/ At(national, 1) \in {"0", "1"}
  \/ At(national, 4) \in {"0", "1"}
  \/ SubSeq(national, 2, 3) = "11"

ValidatePhone(raw) ==
  LET e164 == E164(raw)
  IN IF \/ Len(e164) \notin 8 .. 15
        \/ At(e164, 1) = "0"
        \/ At(e164, 1) = "1" /\ NanpProblem(SubSeq(e164, 2, Len(e164)))
     THEN Rejected
     ELSE Accepted([phone |-> e164])

-----------------------------------------------------------------------------
(* address.ts, google.ts *)

GRANULARITY_ORDER ==
  << "GRANULARITY_UNSPECIFIED", "OTHER", "BLOCK", "ROUTE", "PREMISE_PROXIMITY", "PREMISE",
     "SUB_PREMISE" >>

Rank(granularity) == CHOOSE i \in DOMAIN GRANULARITY_ORDER : GRANULARITY_ORDER[i] = granularity

\* What Google's answer says of an address; a status of 0 is a dead socket.
Geocode(answer) ==
  CASE answer.status \in {0, 429} \/ answer.status >= 500 -> "unavailable"
    [] answer.status \notin {0, 200, 429} /\ answer.status < 500 -> "throws"
    [] answer.status = 200 /\ (Rank(answer.granularity) < Rank("PREMISE") \/ ~answer.complete)
         -> "not_found"
    [] OTHER -> IF answer.formatted = "" THEN "unavailable" ELSE "resolved"

\* A resolved address may still have no place on the map; one that could not be checked
\* stands as it was heard, with none.
ValidateAddress(heard, answer) ==
  CASE Geocode(answer) = "resolved" ->
         Accepted([address |-> answer.formatted, located |-> answer.located])
    [] Geocode(answer) = "not_found" -> Rejected
    [] OTHER -> Unverified([address |-> heard, located |-> FALSE])

-----------------------------------------------------------------------------
(* schedule.ts *)

LocalTime(t) == t + UtcOffset(t)
Dow(t) == (LocalTime(t) \div Day) % 7
MinuteOfDay(t) == LocalTime(t) % Day

\* Mutant of Staffed: a window may end after the shop has closed.
StaffedAtTheStart(w) ==
  \E h \in Hours : h.dow = Dow(w.from) /\ MinuteOfDay(w.from) \in h.open .. h.close

\* One opening holds both ends, on the same day of the week.
Staffed(w) ==
  /\ Dow(w.to) = Dow(w.from)
  /\ \E h \in Hours : /\ h.dow = Dow(w.from)
                      /\ MinuteOfDay(w.from) >= h.open
                      /\ MinuteOfDay(w.to) <= h.close

ValidateWindow(w) ==
  IF /\ w.to - w.from >= MIN_DURATION_MINUTES
     /\ w.from - Now >= MIN_LEAD_MINUTES
     /\ w.from - Now <= MAX_DAYS_AHEAD * Day
     /\ Staffed(w)
  THEN Accepted(w) ELSE Rejected

-----------------------------------------------------------------------------
(* validate.ts *)

\* Three slots have a validator; the others are stored as they were heard.
ValidateSlot(k, raw, answer) ==
  CASE k = "callback_phone"     -> ValidatePhone(raw.heard)
    [] k = "service_address"    -> ValidateAddress(raw.heard, answer)
    [] k = "appointment_window" -> ValidateWindow(raw)
    [] OTHER                    -> Accepted(raw)

=============================================================================
