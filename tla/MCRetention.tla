---------------------------- MODULE MCRetention ----------------------------
(* Retention with three calls, one of which was not recorded and one of which the carrier *)
(* never deletes, and two invocations that may overlap.                                  *)
EXTENDS Retention, TLC

CONSTANTS c0, c1, c2, r1, r2

ThreeCalls == {c0, c1, c2}
MCStartedAt == c0 :> 0 @@ c1 :> 1 @@ c2 :> 2
TwoRecorded == {c1, c2}
OneRefused == {c1}
TwoRuns == {r1, r2}
Turn(call, role, first) ==
  [call |-> call, role |-> role, text |-> "words", firstWordLatencyMs |-> first,
   turnLatencyMs |-> first, bargeIn |-> FALSE, turnTakeOk |-> first # NoLatency]
MCTurns == << Turn(c0, "agent", 400), Turn(c1, "agent", 1300), Turn(c1, "caller", NoLatency),
              Turn(c2, "agent", NoLatency) >>
MCOutcomeOf == c0 :> "BOOKED" @@ c1 :> "ESCALATED" @@ c2 :> "none"

=============================================================================
