------------------------------ MODULE SlotBook ------------------------------
(***************************************************************************)
(* The validated facts of one call: conversation/src/slot-book.ts.         *)
(*                                                                         *)
(* A value is a member of Values: the properties only tell equal values    *)
(* from different ones.  Garbled stands for a value the slot's schema      *)
(* refuses.  A confidence is kept as `sure`, whether it reaches the        *)
(* low-confidence threshold; the larger of two confidences is then a       *)
(* disjunction.  The revision counter, read only by the evaluation         *)
(* harness, is left out.                                                   *)
(***************************************************************************)
EXTENDS Naturals, Sequences

CONSTANTS
  Values,   \* what a slot may hold
  Garbled,  \* a value no slot schema accepts
  Empty     \* a slot without an entry

SLOT_KEYS == << "caller_name", "callback_phone", "service_address",
                "problem_description", "urgency", "appointment_window" >>

SlotKeys == {SLOT_KEYS[i] : i \in DOMAIN SLOT_KEYS}

\* The slots whose confirmation policy is "always"; the others are read back
\* only when they were heard with low confidence.
AlwaysConfirmed == {"callback_phone", "service_address", "appointment_window"}

Verdicts == {"valid", "invalid", "unavailable"}

Reading == [value : Values \cup {Garbled}, sure : BOOLEAN, verdict : Verdicts]

Entry == [value : Values, sure : BOOLEAN, confirmed : BOOLEAN, verdict : Verdicts]

Books == [SlotKeys -> Entry \cup {Empty}]

ASSUME SlotBookAssumption == Garbled \notin Values /\ Empty \notin Entry \cup Values

EmptyBook == [k \in SlotKeys |-> Empty]

\* The first member of a non-empty set of slots, in the order of SLOT_KEYS.
FirstOf(keys) ==
  SLOT_KEYS[CHOOSE i \in DOMAIN SLOT_KEYS :
              /\ SLOT_KEYS[i] \in keys
              /\ \A j \in 1 .. i - 1 : SLOT_KEYS[j] \notin keys]

\* Mutant of SchemaAccepts: the schema is not consulted.
AcceptsAnything(r) == TRUE

SchemaAccepts(r) == r.value \in Values

\* Mutant of Fresh: a value heard with confidence counts as confirmed.
FreshTrusted(r) ==
  [value |-> r.value, sure |-> r.sure, confirmed |-> r.sure, verdict |-> r.verdict]

Fresh(r) == [value |-> r.value, sure |-> r.sure, confirmed |-> FALSE, verdict |-> r.verdict]

HeardAgain(entry, r) == [entry EXCEPT !.sure = @ \/ r.sure, !.verdict = r.verdict]

\* Mutant of Fill: a correction keeps the confirmation of what it corrects.
FillKeepingConfirmation(book, k, r) ==
  [book EXCEPT ![k] = IF @ = Empty THEN Fresh(r)
                      ELSE [HeardAgain(@, r) EXCEPT !.value = r.value]]

\* Hearing the same value again keeps the confirmation and lets the confidence
\* only rise; any other value starts over, unconfirmed.
Fill(book, k, r) ==
  [book EXCEPT ![k] = IF @ # Empty /\ @.value = r.value THEN HeardAgain(@, r) ELSE Fresh(r)]

CanConfirm(book, k) == book[k] # Empty /\ book[k].verdict # "invalid"

Confirm(book, k) == [book EXCEPT ![k].confirmed = TRUE]

Unconfirm(book, k) ==
  IF book[k] = Empty THEN book ELSE [book EXCEPT ![k].confirmed = FALSE]

IsSatisfied(book, k) == book[k] # Empty /\ book[k].verdict # "invalid"

NeedsConfirmation(book, k) ==
  /\ book[k] # Empty
  /\ ~book[k].confirmed
  /\ k \in AlwaysConfirmed \/ ~book[k].sure

PendingConfirmations(book) == {k \in SlotKeys : NeedsConfirmation(book, k)}

=============================================================================
