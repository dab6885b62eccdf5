--------------------------- MODULE MCCallRuntime ---------------------------
(* Instances of CallRuntime for TLC. *)
EXTENDS CallRuntime, TLC

CONSTANTS t1, t2, t3, v1, v2, oneParty, allParty, old, new

MCValues == {v1, v2}
MCOutOfArea == {v2}
TwoTasks == {t1, t2}
ThreeTasks == {t1, t2, t3}
TaskSymmetry == Permutations(Tasks)

R(v, sure, verdict) == [value |-> v, sure |-> sure, verdict |-> verdict]

\* Every slot heard one way, but for one the caller may correct: the phone, or the
\* address, where v2 is outside the service area.
Correcting(key) ==
  [k \in SlotKeys |-> {R(v1, TRUE, "valid")} \cup IF k = key THEN {R(v2, TRUE, "valid")} ELSE {}]

PhoneReadings == Correcting("callback_phone")
AddressReadings == Correcting("service_address")
PlainReadings == Correcting("none")

MCAreaCodes == [npa \in {"502", "415"} |-> IF npa = "502" THEN oneParty ELSE allParty]
MCAllParty == {allParty}

End(npa, state, enabled, dpa) ==
  [caller |-> npa, stateCode |-> state, recordingEnabled |-> enabled, dpaVersion |-> dpa]

\* Two ends known to be one-party, a withheld number, a strict contractor, a strict
\* caller, an addendum that has lapsed, and a tenant nobody has configured.
MCParties ==
  {End("502", oneParty, TRUE, new), End(Absent, oneParty, TRUE, new),
   End("502", allParty, TRUE, new), End("415", oneParty, TRUE, new),
   End("502", oneParty, TRUE, old), End("502", Absent, FALSE, Absent)}

\* A call that is taped from the first ring.
TapedParties == {End("502", oneParty, TRUE, new)}

\* A call taped from the first ring, and one taped after the notice.
EitherTape == {End("502", oneParty, TRUE, new), End(Absent, oneParty, TRUE, new)}

=============================================================================
