------------------------------ MODULE MCCrmJobs ------------------------------
(* An instance of CrmJobs for TLC. *)
EXTENDS CrmJobs

MCOutages ==
  [housecall_pro |-> {Socket, Status(401), Status(429), Status(503)},
   jobber |-> {Socket, Status(401), Status(503), Throttled, Rejected, NoData}]

=============================================================================
