--------------------------- MODULE MCBookingSaga ---------------------------
(* Instances of BookingSaga for TLC. *)
EXTENDS BookingSaga

CONSTANTS b1, b2, old

TwoBookings == {b1, b2}
OneOld == {old}

D(acted, reply) == [acted |-> acted, reply |-> reply]

\* Answered; the connection lost after the write; throttled inside a 200; turned down.
JobberDeliveries == {D(TRUE, Ok), D(TRUE, Socket), D(FALSE, Throttled), D(FALSE, UserError)}

LostTexts == {"unsent", "lost"}

=============================================================================
