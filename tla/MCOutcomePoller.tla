-------------------------- MODULE MCOutcomePoller --------------------------
(* An instance of OutcomePoller for TLC. *)
EXTENDS OutcomePoller

CONSTANTS b1, b2, r1, r2

TwoBookings == {b1, b2}
TwoRuns == {r1, r2}

\* A day apart.
ADayApart == [b \in Bookings |-> IF b = b1 THEN 0 ELSE 1]

\* A batch that holds both bookings, and one that is full with the older of them.
OneOrBoth == {1, 2}

\* A day on which one booking owes its first poll, and one by which all six are owed.
SomeDays == {0, 1, 8}

=============================================================================
