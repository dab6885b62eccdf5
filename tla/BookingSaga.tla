---------------------------- MODULE BookingSaga ----------------------------
(***************************************************************************)
(* workflows/src/{saga,booking}.ts over the CRM adapters: committing      *)
(* the bookings of ONE phone number to the contractor's CRM.  Bookings of  *)
(* different numbers touch no record in common.                            *)
(*                                                                         *)
(* A worker runs commitBooking() for its booking; every await is a step.   *)
(* A request may fail in transport before or after the vendor acts on it,  *)
(* may be refused for good, and the journal may be out of reach.  A worker *)
(* that dies is replaced by one that runs commitBooking() again with the   *)
(* same journal, which saga.ts assumes durable.                            *)
(*                                                                         *)
(* The vendor, external, answers a repeated idempotency key as it did the  *)
(* first time, refuses a write about a customer it does not have, and does *)
(* not answer that it did what it has not done.                            *)
(***************************************************************************)
EXTENDS CrmWire, FiniteSets, FiniteSetsExt, Sequences

CONSTANTS
  Bookings,     \* the bookings under way; the customer a booking makes has its name
  Old,          \* a customer with that number who may be there before any call
  MaxAttempts,  \* RetryPolicy.maxAttempts
  Provider,     \* the contractor's CRM
  Deliveries,   \* what may come of a request: whether it was acted on, and the answer
  CarrierFaults,\* what may come of a text that the carrier does not take
  JournalFails, \* whether the journal may reject a record
  MaxRuns       \* how often a booking is run, the first run included

ASSUME BookingSagaAssumption ==
  /\ Bookings \cap Old = {} /\ Cardinality(Old) <= 1
  /\ "none" \notin Bookings \cup Old
  /\ MaxAttempts \in Nat \ {0} /\ MaxRuns \in Nat \ {0}
  /\ Provider \in CRM_PROVIDERS
  /\ \A d \in Deliveries :
       /\ d.acted \in BOOLEAN /\ d.reply.status \in Nat
       /\ ~d.acted => Declines(Provider, d.reply)
  /\ CarrierFaults \subseteq {"unsent", "lost"} /\ JournalFails \in BOOLEAN

Customers == Bookings \cup Old
NoCustomer == "none"

\* The steps, in the order they are run, and those that write to the CRM.
\* Mutant of BOOKING_STEPS: the text goes out before the job is created.
StepsTextFirst == << "create_customer", "ensure_location", "send_sms", "create_job" >>

BOOKING_STEPS == << "create_customer", "ensure_location", "create_job", "send_sms" >>

CrmSteps == {"create_customer", "ensure_location", "create_job"}

VARIABLES
  at,           \* the awaited step of each worker
  attempt,      \* attempt() of the step it is at
  ref,          \* the CrmCustomerRef it holds
  journal,      \* the steps the journal has an output for
  compensated,  \* bookings whose customer step the journal calls compensated
  result,       \* BookingResult.status, once returned
  runs,         \* how often the booking has been run
  customers,    \* the customers with this number in the CRM
  job,          \* the customer each booking's job is for
  writes,       \* how often the vendor acted on each kind of write
  keys,         \* the idempotency keys it has seen
  texts,        \* confirmation messages the carrier took
  unread        \* observer: bookings being undone because a read of the journal was rejected

worker == << at, attempt, ref, runs >>
records == << journal, compensated, result >>
crm == << customers, job, writes, keys >>
vars == << worker, records, crm, texts, unread >>

Place(step, await) == [step |-> step, await |-> await]
Returned == Place("return", "nothing")
Undo == Place("rollback", "request")
NoCompensation == Place("rollback", "nothing")

\* upsertCustomer() looks the number up first, and does so again on every attempt.
Begin(step) == Place(step, IF step = "create_customer" THEN "find" ELSE "request")

\* The compensations a run has registered when a step of the transaction throws are those of
\* the steps it has an output of: the customer's, or none.
Rollback(step) == IF step = "create_customer" THEN NoCompensation ELSE Undo

\* Mutant of Key: a new key for every attempt.
KeyPerAttempt(b, step) == [booking |-> b, step |-> step, try |-> attempt[b]]

\* Deterministic per (call, step).
Key(b, step) == [booking |-> b, step |-> step, try |-> 1]

Init ==
  /\ at \in [Bookings -> {Begin("create_customer")}
                           \cup (IF JournalFails THEN {NoCompensation} ELSE {})]
  /\ attempt = [b \in Bookings |-> 1]
  /\ ref = [b \in Bookings |-> [id |-> NoCustomer, created |-> FALSE]]
  /\ journal = [b \in Bookings |-> {}]
  /\ compensated = {}
  /\ result = [b \in Bookings |-> "none"]
  /\ runs = [b \in Bookings |-> 1]
  /\ customers \in SUBSET Old
  /\ job = [b \in Bookings |-> NoCustomer]
  /\ writes = [b \in Bookings |-> [s \in CrmSteps |-> 0]]
  /\ keys = {}
  /\ texts = [b \in Bookings |-> 0]
  /\ unread = {b \in Bookings : at[b] = NoCompensation}

-----------------------------------------------------------------------------
(* What a worker does next. *)

Goto(b, place) == at' = [at EXCEPT ![b] = place]

Await(b, step, await) == at[b] = Place(step, await)

Return(b, status) ==
  /\ Goto(b, Returned)
  /\ result' = [result EXCEPT ![b] = status]
  /\ unread' = unread \ {b}

\* attempt() is over, with an output or without: the next step starts at its first try.
Answered(b, place) == Goto(b, place) /\ attempt' = [attempt EXCEPT ![b] = 1]

Failed(b, step) == Answered(b, Rollback(step))

\* Mutant of Retry: no limit.
RetryForever(b, step) == Goto(b, Begin(step)) /\ UNCHANGED attempt

\* isTransient(): the whole step is executed again, until maxAttempts.
Retry(b, step) ==
  IF attempt[b] < MaxAttempts
  THEN Goto(b, Begin(step)) /\ attempt' = [attempt EXCEPT ![b] = @ + 1]
  ELSE Failed(b, step)

-----------------------------------------------------------------------------
(* The vendor. *)

Seen(b, step) == Key(b, step) \in keys

\* A location and a job name the customer they are for.
Accepts(b, step) == Seen(b, step) \/ step = "create_customer" \/ ref[b].id \in customers

Act(b, step) ==
  IF Seen(b, step) THEN UNCHANGED crm
  ELSE /\ keys' = keys \cup {Key(b, step)}
       /\ writes' = [writes EXCEPT ![b][step] = @ + 1]
       /\ customers' = customers \cup (IF step = "create_customer" THEN {b} ELSE {})
       /\ job' = IF step = "create_job" THEN [job EXCEPT ![b] = ref[b].id] ELSE job

-----------------------------------------------------------------------------
(* The steps of a saga. *)

\* After an error: isRetryableStatus() and its kin decide whether attempt() goes on.
Thrown(b, step, verdict) ==
  \/ verdict = "retry" /\ Retry(b, step)
  \/ verdict = "fail" /\ Failed(b, step)

\* Mutant of Left: the text is outside the transaction, and outside the journal.
LeftAndText(done, i) ==
  {j \in i..Len(BOOKING_STEPS) : BOOKING_STEPS[j] \notin done \ {"send_sms"}}

\* The steps from the i-th on that have no output yet.
Left(done, i) == {j \in i..Len(BOOKING_STEPS) : BOOKING_STEPS[j] \notin done}

\* journal.completed(), from step i on: what the journal has an output of is not executed
\* again, and a read may reject.  Inside the transaction that undoes it; outside it, for the
\* text, nothing is undone.  No other worker writes this booking's journal, so the reads
\* between two requests are one step.
Proceed(b, i) ==
  LET left == Left(journal'[b], i)
      next == Min(left \cup {Len(BOOKING_STEPS)})
  IN /\ attempt' = [attempt EXCEPT ![b] = 1]
     /\ \/ /\ left # {}
           /\ Goto(b, Begin(BOOKING_STEPS[next]))
           /\ unread' = unread \ {b}
           /\ UNCHANGED result
        \/ /\ left = {} \/ (JournalFails /\ BOOKING_STEPS[next] = "send_sms")
           /\ Return(b, "COMMITTED")
        \/ /\ JournalFails
           /\ \E j \in i..next :
                BOOKING_STEPS[j] \in CrmSteps /\ Goto(b, Rollback(BOOKING_STEPS[j]))
           /\ unread' = unread \cup {b}
           /\ UNCHANGED result

\* upsertCustomer(): the customers with this number, the first of them if any.
FindCustomer(b) ==
  /\ Await(b, "create_customer", "find")
  /\ \/ \E c \in customers :
          /\ ref' = [ref EXCEPT ![b] = [id |-> c, created |-> FALSE]]
          /\ Answered(b, Place("create_customer", "record"))
     \/ /\ customers = {}
        /\ Goto(b, Place("create_customer", "request"))
        /\ UNCHANGED << attempt, ref >>
     \/ /\ \E d \in Deliveries : Thrown(b, "create_customer", RequestVerdict(Provider, d.reply))
        /\ UNCHANGED ref
  /\ UNCHANGED << runs, records, crm, texts, unread >>

\* The write of a step, acted on and answered.
WriteAnswered(b, step) ==
  /\ Await(b, step, "request")
  /\ Accepts(b, step)
  /\ \E d \in Deliveries : d.acted /\ WriteVerdict(Provider, d.reply) = "answer"
  /\ Act(b, step)
  /\ ref' = IF step = "create_customer"
            THEN [ref EXCEPT ![b] = [id |-> b, created |-> TRUE]] ELSE ref
  /\ Answered(b, Place(step, "record"))
  /\ UNCHANGED << runs, records, texts, unread >>

\* Acted on, and the answer lost, an error or unreadable.
WriteLost(b, step) ==
  /\ Await(b, step, "request")
  /\ Accepts(b, step)
  /\ Act(b, step)
  /\ \E d \in Deliveries : d.acted /\ Thrown(b, step, WriteVerdict(Provider, d.reply))
  /\ UNCHANGED << ref, runs, records, texts, unread >>

WriteFailed(b, step) ==
  /\ Await(b, step, "request")
  /\ \/ \E d \in Deliveries : ~d.acted /\ Thrown(b, step, WriteVerdict(Provider, d.reply))
     \/ ~Accepts(b, step) /\ Failed(b, step)
  /\ UNCHANGED << ref, runs, records, crm, texts, unread >>

\* journal.record(), and on to the next step.
Record(b, i) ==
  /\ Await(b, BOOKING_STEPS[i], "record")
  /\ journal' = [journal EXCEPT ![b] = @ \cup {BOOKING_STEPS[i]}]
  /\ Proceed(b, i + 1)
  /\ UNCHANGED << ref, runs, compensated, crm, texts >>

\* journal.record() rejects inside the try: the step's own compensation is not registered.
RecordFailed(b, step) ==
  /\ Await(b, step, "record")
  /\ JournalFails
  /\ Failed(b, step)
  /\ UNCHANGED << ref, runs, records, crm, texts, unread >>

-----------------------------------------------------------------------------
(* The confirmation message, outside the transaction. *)

\* Nothing that goes wrong with the text, or with its record, is retried or undone.
SendText(b) ==
  /\ Await(b, "send_sms", "request")
  /\ \/ /\ texts' = [texts EXCEPT ![b] = @ + 1]
        /\ Goto(b, Place("send_sms", "record"))
        /\ UNCHANGED << result, unread >>
     \/ /\ "unsent" \in CarrierFaults
        /\ Return(b, "COMMITTED")
        /\ UNCHANGED texts
     \/ /\ "lost" \in CarrierFaults
        /\ texts' = [texts EXCEPT ![b] = @ + 1]
        /\ Return(b, "COMMITTED")
  /\ UNCHANGED << attempt, ref, runs, journal, compensated, crm >>

RecordText(b) ==
  /\ Await(b, "send_sms", "record")
  /\ \/ journal' = [journal EXCEPT ![b] = @ \cup {"send_sms"}]
     \/ JournalFails /\ UNCHANGED journal
  /\ Return(b, "COMMITTED")
  /\ UNCHANGED << attempt, ref, runs, compensated, crm, texts >>

-----------------------------------------------------------------------------
(* rollback().  A run has the job's compensation only once the transaction  *)
(* is over, so the customer's is the only one that ever runs; and it has    *)
(* that one only if this run has an output of the customer's step.          *)

\* journal.isCompensated() is asked of the compensation this run has registered.
MustRevoke(b) == b \notin compensated

NothingToUndo(b) ==
  /\ at[b] = NoCompensation \/ (at[b] = Undo /\ ~MustRevoke(b))
  /\ Return(b, "ROLLED_BACK")
  /\ UNCHANGED << attempt, ref, runs, journal, compensated, crm, texts >>

\* isCompensated() rejects: rollback() throws before anything is undone.
UndoUnknown(b) ==
  /\ at[b] = Undo
  /\ JournalFails
  /\ Return(b, "FAILED")
  /\ UNCHANGED << attempt, ref, runs, journal, compensated, crm, texts >>

\* Mutant of KeepsCustomer: `created` is not looked at.
KeepsNobody(b) == FALSE

\* revokeCustomer(): never a customer who predates this booking.
KeepsCustomer(b) == ~ref[b].created

KeepCustomer(b) ==
  /\ at[b] = Undo
  /\ MustRevoke(b) /\ KeepsCustomer(b)
  /\ Goto(b, Place("rollback", "record"))
  /\ UNCHANGED << attempt, ref, runs, records, crm, texts, unread >>

\* What throws out of a compensation is a RollbackFailure, whatever its cause.
RevokeAnswered(b, verdict) ==
  IF verdict = "answer" THEN Goto(b, Place("rollback", "record")) /\ UNCHANGED << result, unread >>
  ELSE Return(b, "FAILED")

\* The customer deleted or archived, under a key of its own; it is not retried.
RevokeCustomer(b) ==
  /\ at[b] = Undo
  /\ MustRevoke(b) /\ ~KeepsCustomer(b)
  /\ customers' = customers \ {ref[b].id}
  /\ \E d \in Deliveries :
       /\ d.acted
       /\ RevokeAnswered(b, RevokeVerdict(Provider, d.reply))
  /\ UNCHANGED << attempt, ref, runs, journal, compensated, job, writes, keys, texts >>

\* The vendor has not acted.
RevokeFailed(b) ==
  /\ at[b] = Undo
  /\ MustRevoke(b) /\ ~KeepsCustomer(b)
  /\ \E d \in Deliveries :
       /\ ~d.acted
       /\ RevokeAnswered(b, RevokeVerdict(Provider, d.reply))
  /\ UNCHANGED << attempt, ref, runs, journal, compensated, crm, texts >>

\* markCompensated()
MarkCompensated(b) ==
  /\ Await(b, "rollback", "record")
  /\ \/ compensated' = compensated \cup {b} /\ Return(b, "ROLLED_BACK")
     \/ JournalFails /\ Return(b, "FAILED") /\ UNCHANGED compensated
  /\ UNCHANGED << attempt, ref, runs, journal, crm, texts >>

-----------------------------------------------------------------------------
(* The worker dies, before or after it has returned, and the booking is run *)
(* again: all it remembers is what the journal has.                         *)

\* Mutant of Rerun: the journal died with the worker.
RerunWithNewJournal(b) ==
  /\ runs[b] < MaxRuns
  /\ runs' = [runs EXCEPT ![b] = @ + 1]
  /\ journal' = [journal EXCEPT ![b] = {}]
  /\ Proceed(b, 1)
  /\ UNCHANGED << ref, compensated, crm, texts >>

Rerun(b) ==
  /\ runs[b] < MaxRuns
  /\ runs' = [runs EXCEPT ![b] = @ + 1]
  /\ UNCHANGED journal
  /\ Proceed(b, 1)
  /\ ref' = IF "create_customer" \in journal[b] THEN ref
            ELSE [ref EXCEPT ![b] = [id |-> NoCustomer, created |-> FALSE]]
  /\ UNCHANGED << compensated, crm, texts >>

-----------------------------------------------------------------------------
\* What a worker awaits decides which of these it may do next.
Works(b) ==
  \/ FindCustomer(b)
  \/ \E i \in DOMAIN BOOKING_STEPS :
       LET step == BOOKING_STEPS[i]
       IN /\ at[b].step = step /\ step \in CrmSteps
          /\ \/ WriteAnswered(b, step) \/ WriteLost(b, step) \/ WriteFailed(b, step)
             \/ Record(b, i) \/ RecordFailed(b, step)
  \/ at[b].step = "send_sms" /\ (SendText(b) \/ RecordText(b))
  \/ /\ at[b].step = "rollback"
     /\ \/ NothingToUndo(b) \/ UndoUnknown(b) \/ KeepCustomer(b)
        \/ RevokeCustomer(b) \/ RevokeFailed(b) \/ MarkCompensated(b)

Next == \E b \in Bookings : Works(b) \/ Rerun(b)

Spec == Init /\ [][Next]_vars

\* Every request and every journal write settles: the HTTP transport and the journal
\* answer or throw, and the backoff timer fires.  Nothing makes a worker die.
FairSpec == Spec /\ \A b \in Bookings : WF_vars(Works(b))

-----------------------------------------------------------------------------
(* Properties. *)

Places ==
  [step : CrmSteps \cup {"send_sms"}, await : {"find", "request", "record"}]
    \cup [step : {"rollback"}, await : {"nothing", "request", "record"}] \cup {Returned}

\* Every variable holds a value of its kind.
TypeOK ==
  /\ at \in [Bookings -> Places]
  /\ attempt \in [Bookings -> 1..MaxAttempts]
  /\ ref \in [Bookings -> [id : Customers \cup {NoCustomer}, created : BOOLEAN]]
  /\ journal \in [Bookings -> SUBSET (CrmSteps \cup {"send_sms"})]
  /\ compensated \subseteq Bookings
  /\ result \in [Bookings -> {"none", "COMMITTED", "ROLLED_BACK", "FAILED"}]
  /\ runs \in [Bookings -> 1..MaxRuns]
  /\ customers \subseteq Customers
  /\ job \in [Bookings -> Customers \cup {NoCustomer}]
  /\ writes \in [Bookings -> [CrmSteps -> Nat]]
  /\ keys \subseteq [booking : Bookings, step : CrmSteps, try : Nat]
  /\ texts \in [Bookings -> 0..MaxRuns]
  /\ unread \subseteq Bookings

\* "A retry that creates a second job is worse than the failure it was recovering from":
\* whatever is lost, retried, rolled back and run again, the vendor acts at most once on
\* each write of a booking.
WrittenOnce == \A b \in Bookings, step \in CrmSteps : writes[b][step] <= 1

\* A caller who is told by text of an appointment, and a booking reported as committed,
\* has its job in the CRM.
ConfirmedMeansJob ==
  \A b \in Bookings :
    (result[b] = "COMMITTED" \/ texts[b] > 0) => job[b] # NoCustomer

\* A text cannot be taken back and carries no key: no run sends two, and no run sends one
\* for a booking whose journal has it, so that a second text takes a run that died, or whose
\* record was refused, between the first and its record.
OneTextPerRun ==
  \A b \in Bookings :
    /\ texts[b] <= runs[b]
    /\ Await(b, "send_sms", "request") => texts[b] < runs[b] /\ "send_sms" \notin journal[b]

\* A customer leaves the CRM only by the rollback of the booking that created it, never
\* one who was there before.
RevokesOnlyItsOwn ==
  [][\A c \in customers \ customers' : c \in Bookings /\ at[c] = Undo]_vars

Promise == INSTANCE BookingPromise
  WITH scheduled <- {b \in Bookings : job[b] # NoCustomer},
       told <- {b \in Bookings : texts[b] > 0},
       outcome <- result,
       forgotten <- unread

\* Through crashes, retries, lost answers and re-runs each booking keeps what is promised
\* of it: nobody is told before there is a job, nobody who was told is rolled back, and a
\* commit is never taken back.
KeepsThePromise == Promise!Spec

\* A rollback undoes what the journal knows of: a run that reports ROLLED_BACK of a booking
\* whose customer it created and recorded leaves no such customer behind, however its earlier
\* runs were cut off; unless it is undone because the journal would not be read, for then the
\* run may have no compensation to undo it with.
RecordedWorkIsUndone ==
  [][\A b \in Bookings :
       (/\ at[b] # Returned /\ at'[b] = Returned /\ result'[b] = "ROLLED_BACK"
        /\ "create_customer" \in journal[b] /\ ref[b].created /\ b \notin unread)
         => b \notin customers']_vars

\* Every booking is reported on in the end, however many requests fail.
EveryBookingIsSettled == <>(\A b \in Bookings : result[b] # "none")

=============================================================================
