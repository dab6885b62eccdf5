---------------------------- MODULE MCReporting ----------------------------
(* Reporting with two bookings of two contractors, in one quarter. *)
EXTENDS Reporting

CONSTANTS b1, b2, t1

TwoBookings == {b1, b2}
MCTenantOf == b1 :> t1 @@ b2 :> t1
MCCommittedAt == b1 :> 5 @@ b2 :> 3
MCSeen == b1 :> {"clean", "edited"} @@ b2 :> {"clean", "cancelled"}

Filled(label, argued) ==
  [status |-> 200, code |-> "none", body |-> "object", object |-> [value |-> label, argued |-> argued]]
Failed(status, code, body) == [status |-> status, code |-> code, body |-> body, object |-> Null]

\* Every label, one without an argument and one that is none; of the other booking, only
\* a model that cannot tell, an outage, and a request of ours that is refused.
MCTriageReplies ==
  b1 :> {Filled(label, argued) : label \in Classifications, argued \in BOOLEAN}
          \cup {Filled("SOMETHING_ELSE", TRUE), Failed(200, "none", "unparseable")}
  @@ b2 :> {Filled(Null, TRUE), Failed(200, "none", "not an object"), Failed(429, "none", "none"),
            Failed(400, "tool_use_failed", "none"), Failed(401, "none", "none")}

OneSampled == {b1}
HalfCoverage == [num |-> 1, den |-> 2]
FullAgreement == [num |-> 1, den |-> 1]
OneCallAMonth == [m \in 0..6 |-> 1]

=============================================================================
