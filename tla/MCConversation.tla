--------------------------- MODULE MCConversation ---------------------------
(* An instance of Conversation for TLC. *)
EXTENDS Conversation

CONSTANTS v1, v2

MCValues == {v1, v2}
MCOutOfArea == {v2}

R(v, sure, verdict) == [value |-> v, sure |-> sure, verdict |-> verdict]

\* A name that may be heard with low confidence, be garbled or be refused by a
\* validator, and an address to correct: v2 is outside the area.
MCReadings ==
  [k \in SlotKeys |->
     CASE k = "caller_name"     -> {R(v1, TRUE, "valid"), R(v1, FALSE, "valid"),
                                    R(v1, TRUE, "invalid"), R(Garbled, TRUE, "valid")}
       [] k = "service_address" -> {R(v1, TRUE, "unavailable"), R(v2, TRUE, "valid")}
       [] OTHER                 -> {R(v1, TRUE, "valid")}]

\* One failure counter that can run up to the limit.
MCElusive == {"caller_name"}

=============================================================================
