---------------------------- MODULE CallLifecycle ----------------------------
(***************************************************************************)
(* What a call promises, whatever its slots: it is live, it may be         *)
(* interrupted by an emergency at most once, and it ends exactly once, in  *)
(* an outcome that is never rewritten.  An interrupted call is never       *)
(* booked and never declined for its address.                              *)
(***************************************************************************)
VARIABLES phase, outcome

lifecycleVars == << phase, outcome >>

Phases == {"live", "emergency", "over"}

Endings == {"BOOKED", "ESCALATED_EMERGENCY", "ESCALATED_OTHER", "AGENT_ERROR",
            "OUT_OF_SERVICE_AREA", "CALLER_HUNG_UP"}

\* The endings a call can come to from each phase.
EndingsOf(p) ==
  IF p = "live" THEN Endings \ {"ESCALATED_EMERGENCY"}
  ELSE Endings \ {"BOOKED", "OUT_OF_SERVICE_AREA"}

Init == phase = "live" /\ outcome = "none"

Interrupt == phase = "live" /\ phase' = "emergency" /\ UNCHANGED outcome

End == /\ phase # "over"
       /\ phase' = "over"
       /\ outcome' \in EndingsOf(phase)

Next == Interrupt \/ End

Spec == Init /\ [][Next]_lifecycleVars

=============================================================================
