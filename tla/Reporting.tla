----------------------------- MODULE Reporting -----------------------------
(***************************************************************************)
(* What becomes of the poller's observations: the nightly triage of        *)
(* workflows/src/triage.ts over db/src/stores.ts, the weekly audit, and    *)
(* the quarterly publication of workflows/src/publication.ts, with the     *)
(* gates of telemetry/src/publication.ts, into the append-only ledger.     *)
(*                                                                         *)
(* A row's instant is its place in `outcomes`.  Time is in months.         *)
(***************************************************************************)
EXTENDS Naturals, Sequences, SequencesExt, OutcomeLabels, ModelCalls

CONSTANTS
  Bookings,        \* committed bookings
  TenantOf,        \* the tenant of each
  CommittedAt,     \* the month each was committed
  Seen,            \* what a poll of each may find: "clean", "edited" or "cancelled"
  Vendor,          \* whose model the triager asks
  TriageReplies,   \* what it may answer of the corrections of each booking
  AuditSample,     \* bookings whose bucket() is below AUDIT_SAMPLE_RATE
  RequiredPolls,   \* POLL_OFFSETS_MS.length
  TRIAGE_BATCH_LIMIT,
  MIN_COHORT_TENANTS, MIN_COHORT_BOOKINGS, MIN_COHORT_CALLS,
  MIN_OBSERVED_COVERAGE,   \* [num, den]
  CallsIn,         \* the calls of each month
  FirstMonth, LastMonth    \* bound on the months modelled

ASSUME ReportingAssumption ==
  /\ CommittedAt \in [Bookings -> 0..LastMonth]
  /\ \A b \in Bookings : Seen[b] \subseteq {"clean", "edited", "cancelled"}
  /\ Vendor \in Vendors /\ AuditSample \subseteq Bookings
  /\ RequiredPolls \in Nat \ {0} /\ TRIAGE_BATCH_LIMIT \in Nat \ {0}
  /\ MIN_COHORT_TENANTS \in Nat /\ MIN_COHORT_BOOKINGS \in Nat \ {0}
  /\ MIN_COHORT_CALLS \in Nat
  /\ MIN_OBSERVED_COVERAGE \in [num : Nat, den : Nat \ {0}]
  /\ CallsIn \in [0..LastMonth -> Nat]
  /\ FirstMonth \in 3..LastMonth /\ LastMonth \in Nat

VARIABLES
  month,
  completedPolls,   \* bookings.completed_polls
  outcomes,         \* the outcomes table, in the order of observation
  ledger            \* reliability_reports

vars == << month, completedPolls, outcomes, ledger >>

Init ==
  /\ month = FirstMonth
  /\ completedPolls = [b \in Bookings |-> 0]
  /\ outcomes = << >>
  /\ ledger = {}

Rows == ToSet(outcomes)

-----------------------------------------------------------------------------
\* A poll that was made: the poller's transaction, as OutcomePoller has it.
Poll(b) ==
  /\ CommittedAt[b] <= month
  /\ completedPolls[b] < RequiredPolls
  /\ \E seen \in Seen[b] :
       outcomes' = Append(outcomes,
         [booking |-> b, observedAt |-> Len(outcomes) + 1,
          cancelled |-> seen = "cancelled", edited |-> seen = "edited",
          classification |-> Unlabelled, humanLabel |-> Unlabelled])
  /\ completedPolls' = [completedPolls EXCEPT ![b] = @ + 1]
  /\ UNCHANGED << month, ledger >>

-----------------------------------------------------------------------------
(* Triage.  The batch is read, judged and labelled in one transaction of the tenant, which *)
(* touches the classification alone: nothing another transaction writes is lost by it, and *)
(* one that dies leaves nothing.                                                          *)

\* Mutant of AwaitsTriage: a correction an auditor has labelled is taken for done.
AwaitsTriageUnlessAudited(row) ==
  row.classification = Unlabelled /\ row.humanLabel = Unlabelled /\ IsCorrected(row)

AwaitsTriage(row) == row.classification = Unlabelled /\ IsCorrected(row)

\* pending(): the oldest rows that await triage, up to the limit, by their instants.
Pending(tenant) ==
  LET due == SelectSeq(outcomes, LAMBDA row :
               AwaitsTriage(row) /\ TenantOf[row.booking] = tenant)
  IN {due[i].observedAt : i \in {j \in DOMAIN due : j <= TRIAGE_BATCH_LIMIT}}

\* What a run may make of a row: a label, or none when the model declined or gave no
\* answer.  A refusal that is our own defect is thrown, and the run's transaction with it.
Answers(row) ==
  {IF verdict \in Classifications THEN verdict ELSE Unlabelled : verdict \in
     {TriageVerdict(Vendor, reply, Classifications) : reply \in TriageReplies[row.booking]}
       \ {"throws"}}

\* classify(): the derived columns of one observation.
Classify(row, label) == [row EXCEPT !.classification = label]

RunTriage(tenant) ==
  \E labels \in [Pending(tenant) -> Classifications \cup {Unlabelled}] :
    /\ \A i \in Pending(tenant) : labels[i] \in Answers(outcomes[i])
    /\ outcomes' = [i \in DOMAIN outcomes |->
         IF i \in Pending(tenant) THEN Classify(outcomes[i], labels[i]) ELSE outcomes[i]]
    /\ UNCHANGED << month, completedPolls, ledger >>

\* auditSample(): the corrections whose booking's hash is low enough, the same ones every week.
Sampled(rows) == {row \in rows : IsCorrected(row) /\ row.booking \in AuditSample}

\* recordHumanLabel(): the auditor labels an observation of the sample.
Audit(b) ==
  /\ \E i \in DOMAIN outcomes, label \in Classifications :
       /\ outcomes[i].booking = b /\ outcomes[i] \in Sampled(Rows)
       /\ outcomes' = [outcomes EXCEPT ![i].humanLabel = label]
  /\ UNCHANGED << month, completedPolls, ledger >>

-----------------------------------------------------------------------------
(* Publication *)

\* lastCompleteQuarter()
LastCompleteQuarter ==
  LET thisQuarter == 3 * (month \div 3) IN [start |-> thisQuarter - 3, end |-> thisQuarter]

Committed == {[booking |-> b, tenant |-> TenantOf[b], committedAt |-> CommittedAt[b],
               completedPolls |-> completedPolls[b]] : b \in Bookings}

CallsOf(window) ==
  FoldSet(LAMBDA m, n : n + CallsIn[m], 0,
          {m \in DOMAIN CallsIn : m >= window.start /\ m < window.end})

CohortOf(window) == Cohort(Committed, Rows, CallsOf(window), window, RequiredPolls)

\* Mutant of Publishes: a quarter without a booking that stood is not published.
PublishesUnlessAllWrong(cohort) ==
  /\ cohort.tenants >= MIN_COHORT_TENANTS
  /\ cohort.calls >= MIN_COHORT_CALLS
  /\ cohort.committed >= MIN_COHORT_BOOKINGS
  /\ cohort.corrected < cohort.committed
  /\ ReachesFloor(cohort.committed, cohort.committed + cohort.immature, MIN_OBSERVED_COVERAGE)

\* decidePublication(): the four gates.
Publishes(cohort) ==
  /\ cohort.tenants >= MIN_COHORT_TENANTS
  /\ cohort.calls >= MIN_COHORT_CALLS
  /\ cohort.committed >= MIN_COHORT_BOOKINGS
  /\ ReachesFloor(cohort.committed, cohort.committed + cohort.immature, MIN_OBSERVED_COVERAGE)

\* The report of a cohort that passes them; a rate is its numerator over `committed`.
Report(cohort) ==
  [window |-> cohort.window, tenants |-> cohort.tenants, calls |-> cohort.calls,
   committed |-> cohort.committed, immature |-> cohort.immature,
   corrected |-> cohort.corrected, agentErrors |-> cohort.agentErrors,
   published |-> PublishedCorrectionRate(cohort),
   audited |-> cohort.audited, agreed |-> cohort.agreed, worst |-> cohort.worst]

ReportsOf(window) == {report \in ledger : report.window = window}

\* Mutant of InsertReport: ON CONFLICT DO UPDATE.
InsertOrUpdateReport(report) == (ledger \ ReportsOf(report.window)) \cup {report}

\* publish(): ON CONFLICT (window_start, window_end, methodology_version) DO NOTHING.
InsertReport(report) ==
  IF ReportsOf(report.window) # {} THEN ledger ELSE ledger \cup {report}

RunPublication ==
  LET cohort == CohortOf(LastCompleteQuarter)
  IN /\ Publishes(cohort)
     /\ ledger' = InsertReport(Report(cohort))
     /\ UNCHANGED << month, completedPolls, outcomes >>

NextMonth ==
  /\ month < LastMonth
  /\ month' = month + 1
  /\ UNCHANGED << completedPolls, outcomes, ledger >>

-----------------------------------------------------------------------------
Tenants == {TenantOf[b] : b \in Bookings}

Next ==
  \/ NextMonth
  \/ RunPublication
  \/ \E tenant \in Tenants : RunTriage(tenant)
  \/ \E b \in Bookings : Poll(b) \/ Audit(b)

Spec == Init /\ [][Next]_vars

\* Triage keeps being run, and a model that is asked again and again labels something of
\* what it can tell.
FairSpec == Spec /\ \A tenant \in Tenants : WF_vars(RunTriage(tenant))

-----------------------------------------------------------------------------
(* Properties. *)

\* "These expressions must agree with the TypeScript exactly": what the SQL cohort counts
\* of the bookings whose polls are done is what the dashboard counts of the same rows.
CohortAgreesWithTelemetry ==
  LET cohort == CohortOf(LastCompleteQuarter)
      matured == Matured(Committed, LastCompleteQuarter, RequiredPolls)
      rows == {row \in Rows : \E m \in matured : m.booking = row.booking}
      figures == OutcomeFigures(rows)
  IN \A count \in DOMAIN figures : cohort[count] = figures[count]

\* A contractor is never invoiced for a booking the published figure calls our own error,
\* whoever labelled it and whichever observation the label was given to.
NeverBilledForOurError ==
  \A m \in 0..LastMonth :
    LET jobs == {[booking |-> c.booking, committedAt |-> c.committedAt] : c \in Committed}
        invoice == InvoiceFor(jobs, Rows, [start |-> m, end |-> m + 1], 1)
        ours == {j.booking : j \in {k \in Judged(Rows, Matured(Committed,
                   [start |-> 0, end |-> LastMonth + 1], RequiredPolls)) :
                     k.corrected /\ k.blamedOnUs}}
    IN \A line \in invoice.lines : line.waived = "billed" => line.booking \notin ours

\* A correction the model has left unlabelled costs us and never the contractor.  Had it not
\* labelled a row, no fewer bookings would count as our error, no fewer would be waived, and
\* the published number would not be smaller as long as it is the same rate; and only a label
\* the auditor was asked about decides which rate that is.  (Such a label, dropped, may lift
\* the agreement to its floor and the number from the larger rate to the smaller one, although
\* "every failure mode of this pipeline pushes the published number UP",
\* groq-triager.test.ts 126.)
BacklogNeverFlatters ==
  \A i \in DOMAIN outcomes :
    LET fewer == ToSet([outcomes EXCEPT ![i] = Classify(@, Unlabelled)])
        without == PublishedCorrectionRate(OutcomeFigures(fewer))
        with == PublishedCorrectionRate(OutcomeFigures(Rows))
    IN /\ OutcomeFigures(fewer).agentErrors >= OutcomeFigures(Rows).agentErrors
       /\ \A b \in Bookings : WaiverFor(fewer, b) = "billed" => WaiverFor(Rows, b) = "billed"
       /\ without.basis = with.basis => without.corrections >= with.corrections
       /\ outcomes[i].humanLabel = Unlabelled => without.basis = with.basis

\* A quarter is published or withheld for the size of its sample, never for what it shows:
\* had every look at its bookings found them ruined, or untouched, or had nobody looked,
\* the gates would decide alike (no gate of decidePublication() reads the rate, and no
\* figure that the gates do read is taken from an outcome).
SampleAloneDecides ==
  LET window == LastCompleteQuarter
      Decision(rows) ==
        Publishes(Cohort(Committed, rows, CallsOf(window), window, RequiredPolls))
      ruined == {[row EXCEPT !.cancelled = TRUE] : row \in Rows}
      untouched == {[row EXCEPT !.cancelled = FALSE, !.edited = FALSE] : row \in Rows}
  IN \A rows \in {ruined, untouched, {}} : Decision(rows) <=> Decision(Rows)

\* The first figure of a quarter stands: polls that come in later, relabelled rows and a
\* second invocation neither rewrite it nor put another beside it.
FirstFigureStands ==
  [][\A report \in ledger : {r \in ledger' : r.window = report.window} = {report}]_vars

\* Every correction the model can tell is labelled in the end, although rows it declines
\* stay at the head of the batch.
EveryCorrectionIsLabelled ==
  <>[](\A i \in DOMAIN outcomes :
         IsCorrected(outcomes[i]) /\ outcomes[i].classification = Unlabelled
           => Answers(outcomes[i]) \subseteq {Unlabelled})

=============================================================================
