--------------------------- MODULE BookingPromise ---------------------------
(***************************************************************************)
(* What commitBooking() promises of each booking, whatever fails and       *)
(* however often it is run: the job first, then the caller is told, then   *)
(* the booking is reported as committed.  A commit is final and what was   *)
(* told is never undone, as long as the record of it can be read; and a    *)
(* booking that was given up may be taken up again.                        *)
(***************************************************************************)
CONSTANT Bookings

VARIABLES
  scheduled,   \* bookings with a job in the CRM
  told,        \* those whose caller was sent the confirmation
  outcome,     \* the last report of each, "none" before the first
  forgotten    \* those whose present worker cannot read what was done before

\* Who forgets is not the promise's to say: `forgotten` is read, and may change at any time.
promiseVars == << scheduled, told, outcome >>

GivenUp == {"ROLLED_BACK", "FAILED"}

Init == scheduled = {} /\ told = {} /\ outcome = [b \in Bookings |-> "none"]

Schedule(b) ==
  /\ b \notin scheduled /\ outcome[b] # "COMMITTED"
  /\ scheduled' = scheduled \cup {b}
  /\ UNCHANGED << told, outcome >>

Tell(b) ==
  /\ b \in scheduled
  /\ told' = told \cup {b}
  /\ UNCHANGED << scheduled, outcome >>

\* Reported as committed, the caller told at last or not at all.
Commit(b) ==
  /\ b \in scheduled
  /\ told' \in {told, told \cup {b}}
  /\ outcome' = [outcome EXCEPT ![b] = "COMMITTED"]
  /\ UNCHANGED scheduled

\* Not of a booking that was told or committed, unless its worker cannot know that.
GiveUp(b) ==
  /\ b \in forgotten \/ (b \notin told /\ outcome[b] # "COMMITTED")
  /\ \E report \in GivenUp : outcome' = [outcome EXCEPT ![b] = report]
  /\ UNCHANGED << scheduled, told >>

Next == \E b \in Bookings : Schedule(b) \/ Tell(b) \/ Commit(b) \/ GiveUp(b)

Spec == Init /\ [][Next]_promiseVars

=============================================================================
