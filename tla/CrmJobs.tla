------------------------------- MODULE CrmJobs -------------------------------
(***************************************************************************)
(* crm/src/{housecall,jobber,snapshot}.ts under workflows/src/outcomes.ts: *)
(* one booking's job, kept in either vendor's CRM, changed there by the    *)
(* contractor and by the vendor, and read back to see what was corrected.  *)
(*                                                                         *)
(* A field of a job holds what we sent or what the contractor put there.   *)
(* The vendor may respell a field (case, digits of a phone, ZIP+4, another *)
(* offset of an instant) or stop returning it; neither is a correction.    *)
(***************************************************************************)
EXTENDS CrmWire

CONSTANTS
  MaxTouches,   \* how often the job is touched in the CRM
  Outages       \* answers of a vendor that cannot be read, per provider

\* What cannot be read: no answer, a status that is neither a success nor "not found", a
\* GraphQL body with errors or without data.
TellsNothing(provider, reply) ==
  \/ reply.status = NoStatus
  \/ provider = "housecall_pro" /\ reply.status >= 400 /\ reply.status # 404
  \/ provider = "jobber" /\ (reply.status >= 400 \/ reply.errors # {} \/ ~reply.data)

ASSUME CrmJobsAssumption ==
  /\ MaxTouches \in Nat
  /\ Outages \in [CRM_PROVIDERS -> SUBSET [status : Nat, errors : SUBSET {"THROTTLED", "OTHER"},
                                           userErrors : BOOLEAN, data : BOOLEAN, id : BOOLEAN]]
  /\ \A p \in CRM_PROVIDERS : \A reply \in Outages[p] : TellsNothing(p, reply)

\* The parts a vendor stores each slot in, street standing for all an address must have.
Parts ==
  [caller_name |-> {"first", "last"}, callback_phone |-> {"phone"},
   service_address |-> {"street", "line2"}, problem_description |-> {"description"},
   appointment_window |-> {"start", "end"}]

DIFFABLE_SLOTS == DOMAIN Parts
Fields == UNION {Parts[slot] : slot \in DIFFABLE_SLOTS}

\* The parts that a caller may not have: a second name, a second address line.
Optional == {"last", "line2"}

\* How each vendor words what has become of a job, a Housecall Pro word by its stems.
Words ==
  [housecall_pro |->
     [open |-> {{"scheduled"}, {"in", "progress"}}, done |-> {{"complete", "d"}},
      cancelled |-> {{"cancel", "ed"}, {"pro", "cancel", "ed"}}],
   jobber |->
     [open |-> {"upcoming"}, done |-> {"completed", "requires_invoicing"},
      cancelled |-> {"archived"}]]
Fates == {"open", "done", "cancelled"}

VARIABLES
  blank,      \* the optional parts that are empty in what the caller said
  long,       \* whether the description outgrows Jobber's title
  edited,     \* the fields the contractor has changed
  respelled,  \* the fields the vendor writes in its own way
  omitted,    \* the fields, or the status, the vendor does not return
  fate,       \* what has become of the job, per provider
  touches,
  outcome     \* the last BookingOutcome of each provider, with the job it was read from

job == << blank, long, edited, respelled, omitted, fate >>
jobVars == << job, touches, outcome >>

NeverRead == [cancelled |-> FALSE, corrected |-> {}, fate |-> "unread", edited |-> {}, omitted |-> {}]

\* createJob() of either adapter has been answered.
JobInit ==
  /\ blank \in SUBSET Optional
  /\ long \in BOOLEAN
  /\ edited = {} /\ respelled = {} /\ omitted = {}
  /\ fate = [p \in CRM_PROVIDERS |-> "open"]
  /\ touches = 0
  /\ outcome = [p \in CRM_PROVIDERS |-> NeverRead]

-----------------------------------------------------------------------------
(* Reading a job back. *)

Piece(field, means, spelled) == [field |-> field, means |-> means, spelled |-> spelled]

\* str(): a non-empty string, or nothing.
Missing(field) == field \in omitted \/ (field \in blank /\ field \notin edited)

Part(field) ==
  Piece(field, IF field \in edited THEN "theirs" ELSE "ours",
               IF field \in respelled THEN "theirs" ELSE "ours")

Present(fields) == {Part(field) : field \in {f \in fields : ~Missing(f)}}

\* timeWindow(): both ends or neither.
TimeWindow(ends) == IF \E end \in ends : Missing(end) THEN {} ELSE Present(ends)

\* address(): everything but the second line, or nothing.
Address(lines) == IF Missing("street") THEN {} ELSE Present(lines)

\* Mutant of Description: the title is diffed, which createJob() has cut short.
DescriptionFromTitle(provider) ==
  IF provider = "jobber" /\ long THEN {Piece("description", "cut", "ours")}
  ELSE Present({"description"})

\* `instructions`, never `title`.
Description(provider) == Present({"description"})

\* The fields of a snapshot; no parts are a null.
ReadSlots(provider) ==
  [slot \in DIFFABLE_SLOTS |->
     IF slot = "service_address" THEN Address(Parts[slot])
     ELSE IF slot = "appointment_window" THEN TimeWindow(Parts[slot])
     ELSE IF slot = "problem_description" THEN Description(provider)
     ELSE Present(Parts[slot])]

\* Mutant of JobStatus: a cancellation is recognised by one word.
JobStatusExact(provider, word) ==
  IF provider = "jobber"
  THEN IF word = "archived" THEN "CANCELLED"
       ELSE IF word \in {"completed", "requires_invoicing"} THEN "COMPLETED" ELSE "SCHEDULED"
  ELSE IF word = {"cancel", "ed"} THEN "CANCELLED"
       ELSE IF "complete" \in word THEN "COMPLETED" ELSE "SCHEDULED"

\* jobStatus() of either vendor.
JobStatus(provider, word) ==
  IF provider = "jobber"
  THEN IF word = "archived" THEN "CANCELLED"
       ELSE IF word \in {"completed", "requires_invoicing"} THEN "COMPLETED" ELSE "SCHEDULED"
  ELSE IF "cancel" \in word THEN "CANCELLED"
       ELSE IF "complete" \in word THEN "COMPLETED" ELSE "SCHEDULED"

DeletedSnapshot == [status |-> "DELETED", slots |-> [slot \in DIFFABLE_SLOTS |-> {}]]

Snapshot(provider, word) ==
  [status |-> IF "status" \in omitted THEN "SCHEDULED" ELSE JobStatus(provider, word),
   slots |-> ReadSlots(provider)]

\* The booking's payload, in the parts it was sent in.
Payload ==
  [slot \in DIFFABLE_SLOTS |->
     {Piece(field, "ours", "ours") : field \in Parts[slot] \ blank}]

\* norm(), samePhone(), sameAddress(), sameWindow(): what the parts mean.
Norm(parts) == {[field |-> part.field, means |-> part.means] : part \in parts}

\* A null field is never a correction.
DiffBooking(payload, slots) ==
  {slot \in DIFFABLE_SLOTS : slots[slot] # {} /\ Norm(payload[slot]) # Norm(slots[slot])}

ObserveOutcome(snapshot) ==
  [cancelled |-> snapshot.status \in {"CANCELLED", "DELETED"},
   corrected |-> DiffBooking(Payload, snapshot.slots)]

-----------------------------------------------------------------------------
(* What happens to the job in the CRM. *)

Touch == touches < MaxTouches /\ touches' = touches + 1

Edit(field) ==
  /\ Touch
  /\ edited' = edited \cup {field}
  /\ UNCHANGED << blank, long, respelled, omitted, fate, outcome >>

Respell(field) ==
  /\ Touch
  /\ respelled' = respelled \cup {field}
  /\ UNCHANGED << blank, long, edited, omitted, fate, outcome >>

Omit(field) ==
  /\ Touch
  /\ omitted' = omitted \cup {field}
  /\ UNCHANGED << blank, long, edited, respelled, fate, outcome >>

\* The contractor runs, cancels or deletes the job.
Close(end) ==
  /\ Touch
  /\ fate' = [p \in CRM_PROVIDERS |-> end]
  /\ UNCHANGED << blank, long, edited, respelled, omitted, outcome >>

\* revokeJob(): Housecall Pro deletes the job, Jobber can only cancel it.
RevokeJob ==
  /\ Touch
  /\ fate' = [p \in CRM_PROVIDERS |-> IF p = "jobber" THEN "cancelled" ELSE "deleted"]
  /\ UNCHANGED << blank, long, edited, respelled, omitted, outcome >>

\* What the vendor answers when asked for the job, if it can be reached.
Answer(p) == IF fate[p] # "deleted" THEN Ok ELSE IF p = "jobber" THEN NoId ELSE Status(404)

\* observeOutcome(): readJob(), the raw payload kept, the diff.  Whatever is thrown
\* reaches the cron, and nothing is recorded.
ReadJob(p) ==
  /\ \E reply \in {Answer(p)} \cup Outages[p],
        word \in IF fate[p] = "deleted" THEN {"none"} ELSE Words[p][fate[p]] :
       LET verdict == ReadVerdict(p, reply)
           seen == ObserveOutcome(IF verdict = "gone" THEN DeletedSnapshot ELSE Snapshot(p, word))
       IN /\ verdict \in {"answer", "gone"}
          /\ outcome' = [outcome EXCEPT ![p] =
               [cancelled |-> seen.cancelled, corrected |-> seen.corrected,
                fate |-> fate[p], edited |-> edited, omitted |-> omitted]]
  /\ UNCHANGED << job, touches >>

JobNext ==
  \/ \E field \in Fields : Edit(field) \/ Respell(field)
  \/ \E field \in Fields \cup {"status"} : Omit(field)
  \/ \E end \in {"done", "cancelled", "deleted"} : Close(end)
  \/ RevokeJob
  \/ \E p \in CRM_PROVIDERS : ReadJob(p)

JobSpec == JobInit /\ [][JobNext]_jobVars

-----------------------------------------------------------------------------
(* Properties. *)

WasRead(p) == outcome[p].fate # "unread"

\* A look at a job reports as corrected the slots the contractor changed and the vendor
\* still returns, and no others: not what the vendor respells, cuts short, deletes or no
\* longer returns ("absence must never become a correction", types.ts 107), whichever
\* vendor keeps it.  Half a name, or a second address line, that is no longer returned
\* is an exception in the code: it is compared as an empty one.
CorrectionsAreTheContractors ==
  \A p \in CRM_PROVIDERS : WasRead(p) =>
    LET seen == outcome[p]
        changed(slot) == Parts[slot] \cap seen.edited # {}
        whole(slot) == Parts[slot] \cap seen.omitted = {}
        dropped(slot) == Parts[slot] \cap seen.omitted \cap {"first", "last", "line2"} # {}
    IN \A slot \in DIFFABLE_SLOTS :
         /\ slot \in seen.corrected => changed(slot) \/ dropped(slot)
         /\ changed(slot) /\ whole(slot) /\ seen.fate # "deleted" => slot \in seen.corrected

\* A job that the contractor has cancelled or deleted, or that we have revoked, is
\* reported as not having survived, in either vendor's vocabulary, and one that stands
\* or was run is not: an answer that could not be had is no outcome ("its symptom is a
\* perfect score", types.ts 155-158).
SurvivalIsTold ==
  \A p \in CRM_PROVIDERS : WasRead(p) =>
    LET seen == outcome[p]
    IN /\ seen.cancelled => seen.fate \in {"cancelled", "deleted"}
       /\ seen.fate = "deleted" => seen.cancelled
       /\ seen.fate = "cancelled" /\ "status" \notin seen.omitted => seen.cancelled

=============================================================================
