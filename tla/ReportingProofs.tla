-------------------------- MODULE ReportingProofs --------------------------
(***************************************************************************)
(* Theorems about Reporting, for every set of bookings and contractors,    *)
(* every answer of the triaging model, every audit, every floor of the     *)
(* publication gates and every number of months.                           *)
(***************************************************************************)
EXTENDS Reporting, WellFoundedInduction, TLAPS, FiniteSetTheorems

Row == BookingOutcome(Bookings, Nat)

Typed ==
  /\ month \in 0..LastMonth
  /\ completedPolls \in [Bookings -> Nat]
  /\ outcomes \in Seq(Row)

\* No two observations share an instant.
InOrder == \A i \in DOMAIN outcomes : outcomes[i].observedAt = i

\* A quarter has one report: what the unique index of the ledger guarantees.
OneReportEach == \A r, s \in ledger : r.window = s.window => r = s

IInv == Typed /\ InOrder /\ OneReportEach

-----------------------------------------------------------------------------
(* The invariant *)

LEMMA InitGood == Init => IInv
<1> SUFFICES ASSUME Init PROVE IInv
  OBVIOUS
<1>1. month \in 0..LastMonth
  BY ReportingAssumption DEF Init
<1>2. outcomes \in Seq(Row)
  BY DEF Init
<1>3. InOrder /\ OneReportEach
  BY DEF Init, InOrder, OneReportEach
<1> QED
  BY <1>1, <1>2, <1>3 DEF Init, IInv, Typed

\* A step that only rewrites labels keeps the table well-formed.
LEMMA Relabelling ==
  ASSUME IInv, UNCHANGED << month, completedPolls, ledger >>,
         NEW f, f \in [DOMAIN outcomes -> Row],
         \A i \in DOMAIN outcomes : f[i].observedAt = outcomes[i].observedAt,
         outcomes' = f
  PROVE  IInv'
<1>1. DOMAIN outcomes = 1..Len(outcomes) /\ Len(outcomes) \in Nat
  BY DEF IInv, Typed
<1>2. outcomes' \in Seq(Row) /\ DOMAIN outcomes' = DOMAIN outcomes
  <2>1. f \in [1..Len(outcomes) -> Row]
    BY <1>1
  <2>2. f \in Seq(Row)
    BY <2>1, <1>1
  <2> QED
    BY <2>2
<1> QED
  BY <1>2 DEF IInv, Typed, InOrder, OneReportEach

LEMMA ClassifyKeeps ==
  ASSUME NEW row \in Row, NEW label \in Classifications \cup {Unlabelled}
  PROVE  /\ Classify(row, label) \in Row
         /\ Classify(row, label).observedAt = row.observedAt
         /\ Classify(row, label).booking = row.booking
         /\ Classify(row, label).cancelled = row.cancelled
         /\ Classify(row, label).edited = row.edited
         /\ Classify(row, label).humanLabel = row.humanLabel
         /\ Classify(row, label).classification = label
BY DEF Classify, Row, BookingOutcome

LEMMA TriageGood ==
  ASSUME IInv, NEW tenant, RunTriage(tenant)
  PROVE  IInv'
<1> DEFINE P == Pending(tenant)
<1>1. PICK labels \in [P -> Classifications \cup {Unlabelled}] :
        /\ outcomes' = [i \in DOMAIN outcomes |->
             IF i \in P THEN Classify(outcomes[i], labels[i]) ELSE outcomes[i]]
        /\ UNCHANGED << month, completedPolls, ledger >>
  BY Zenon DEF RunTriage
<1> HIDE DEF P
<1> DEFINE f == [i \in DOMAIN outcomes |->
             IF i \in P THEN Classify(outcomes[i], labels[i]) ELSE outcomes[i]]
<1>2. \A i \in DOMAIN outcomes : outcomes[i] \in Row
  BY DEF IInv, Typed
<1>3. ASSUME NEW i \in DOMAIN outcomes
      PROVE  f[i] \in Row /\ f[i].observedAt = outcomes[i].observedAt
  <2>1. CASE i \in P
    <3>1. labels[i] \in Classifications \cup {Unlabelled}
      BY <2>1, <1>1
    <3>2. f[i] = Classify(outcomes[i], labels[i])
      BY <2>1
    <3> HIDE DEF f
    <3> QED
      BY <3>1, <3>2, <1>2, ClassifyKeeps
  <2>2. CASE i \notin P
    BY <2>2, <1>2
  <2> QED
    BY <2>1, <2>2
<1>4. f \in [DOMAIN outcomes -> Row] /\ outcomes' = f
  BY <1>1, <1>3
<1> HIDE DEF f
<1> QED
  BY <1>1, <1>3, <1>4, Relabelling

LEMMA PollGood ==
  ASSUME IInv, NEW b \in Bookings, Poll(b)
  PROVE  IInv'
<1>1. PICK seen \in Seen[b] : outcomes' = Append(outcomes,
         [booking |-> b, observedAt |-> Len(outcomes) + 1,
          cancelled |-> seen = "cancelled", edited |-> seen = "edited",
          classification |-> Unlabelled, humanLabel |-> Unlabelled])
  BY DEF Poll
<1> DEFINE new == [booking |-> b, observedAt |-> Len(outcomes) + 1,
          cancelled |-> seen = "cancelled", edited |-> seen = "edited",
          classification |-> Unlabelled, humanLabel |-> Unlabelled]
<1>2. outcomes \in Seq(Row) /\ Len(outcomes) \in Nat
  BY DEF IInv, Typed
<1>3. new \in Row /\ new.observedAt = Len(outcomes) + 1
  BY <1>2 DEF Row, BookingOutcome
<1>4. outcomes' = Append(outcomes, new)
  BY <1>1
<1> HIDE DEF new
<1>5. outcomes' \in Seq(Row)
  BY <1>2, <1>3, <1>4
<1>6. InOrder'
  BY <1>2, <1>3, <1>4 DEF IInv, InOrder
<1>7. completedPolls' \in [Bookings -> Nat] /\ month' = month /\ ledger' = ledger
  BY DEF IInv, Typed, Poll
<1> QED
  BY <1>5, <1>6, <1>7 DEF IInv, Typed, OneReportEach

LEMMA AuditGood ==
  ASSUME IInv, NEW b \in Bookings, Audit(b)
  PROVE  IInv'
<1>1. PICK i \in DOMAIN outcomes, label \in Classifications :
        outcomes' = [outcomes EXCEPT ![i].humanLabel = label]
  BY DEF Audit
<1> DEFINE g == [outcomes[i] EXCEPT !.humanLabel = label]
           f == [outcomes EXCEPT ![i] = g]
<1>2. \A k \in DOMAIN outcomes : outcomes[k] \in Row
  BY DEF IInv, Typed
<1>3. g \in Row /\ g.observedAt = outcomes[i].observedAt
  BY <1>2 DEF Row, BookingOutcome
<1>4. outcomes' = f
  BY <1>1
<1> HIDE DEF g
<1>5. f \in [DOMAIN outcomes -> Row]
  <2>1. outcomes \in [DOMAIN outcomes -> Row]
    BY <1>2 DEF IInv, Typed
  <2> QED
    BY <2>1, <1>3
<1>6. \A k \in DOMAIN outcomes : f[k].observedAt = outcomes[k].observedAt
  BY <1>3
<1>7. UNCHANGED << month, completedPolls, ledger >>
  BY DEF Audit
<1> HIDE DEF f
<1> QED
  BY <1>4, <1>5, <1>6, <1>7, Relabelling

\* What a run of the publication does to the ledger, whatever the report says.
LEMMA LedgerOnlyGrows ==
  ASSUME NEW report, OneReportEach, ledger' = InsertReport(report)
  PROVE  /\ OneReportEach'
         /\ \A old \in ledger : {r \in ledger' : r.window = old.window} = {old}
<1>1. CASE ReportsOf(report.window) # {}
  <2>1. ledger' = ledger
    BY <1>1 DEF InsertReport
  <2> QED
    BY <2>1, Zenon DEF OneReportEach
<1>2. CASE ReportsOf(report.window) = {}
  <2>1. ledger' = ledger \cup {report}
    BY <1>2 DEF InsertReport
  <2>2. \A old \in ledger : old.window # report.window
    BY <1>2 DEF ReportsOf
  <2> QED
    BY <2>1, <2>2 DEF OneReportEach
<1> QED
  BY <1>1, <1>2

LEMMA PublicationGood ==
  ASSUME IInv, RunPublication
  PROVE  IInv'
<1>1. OneReportEach' /\ UNCHANGED << month, completedPolls, outcomes >>
  BY LedgerOnlyGrows DEF RunPublication, IInv
<1> QED
  BY <1>1 DEF IInv, Typed, InOrder

LEMMA StepGood == IInv /\ [Next]_vars => IInv'
<1> SUFFICES ASSUME IInv, [Next]_vars PROVE IInv'
  OBVIOUS
<1>1. CASE NextMonth
  BY <1>1, ReportingAssumption DEF NextMonth, IInv, Typed, InOrder, OneReportEach
<1>2. CASE RunPublication
  BY <1>2, PublicationGood
<1>3. ASSUME NEW tenant \in Tenants, RunTriage(tenant) PROVE IInv'
  BY <1>3, TriageGood
<1>4. ASSUME NEW b \in Bookings, Poll(b) PROVE IInv'
  BY <1>4, PollGood
<1>5. ASSUME NEW b \in Bookings, Audit(b) PROVE IInv'
  BY <1>5, AuditGood
<1>6. CASE UNCHANGED vars
  BY <1>6 DEF vars, IInv, Typed, InOrder, OneReportEach
<1> QED
  BY <1>1, <1>2, <1>3, <1>4, <1>5, <1>6 DEF Next

\* The observations are a table with one row per instant, and a quarter has one report,
\* whatever is polled, triaged, audited and published, in any order.
THEOREM IInvHolds == Spec => []IInv
<1>1. Init => IInv
  BY InitGood
<1>2. IInv /\ [Next]_vars => IInv'
  BY StepGood
<1> QED
  BY <1>1, <1>2, PTL DEF Spec

-----------------------------------------------------------------------------
(* The ledger, and the gates before it *)

LEMMA FigureStandsInAStep ==
  ASSUME IInv, [Next]_vars
  PROVE  \A report \in ledger : {r \in ledger' : r.window = report.window} = {report}
<1>1. CASE RunPublication
  BY <1>1, LedgerOnlyGrows DEF RunPublication, IInv
<1>2. CASE ledger' = ledger
  BY <1>2, Zenon DEF IInv, OneReportEach
<1>3. ASSUME NEW tenant, RunTriage(tenant) PROVE ledger' = ledger
  BY <1>3 DEF RunTriage
<1> QED
  BY <1>1, <1>2, <1>3 DEF Next, NextMonth, Poll, Audit, vars

\* The figure a quarter was first published with stays in the ledger, alone, through
\* every later poll, label, audit and invocation of the cron: publish() never updates.
THEOREM TheFirstFigureStands == Spec => FirstFigureStands
<1> DEFINE Stands == \A report \in ledger :
                       {r \in ledger' : r.window = report.window} = {report}
<1>1. IInv /\ [Next]_vars => Stands
  BY FigureStandsInAStep
<1>2. IInv /\ [Next]_vars => [Stands]_vars
  BY <1>1
<1> QED
  BY <1>2, IInvHolds, PTL DEF Spec, FirstFigureStands

\* Whether a quarter is published does not depend on what was observed of its bookings:
\* the four gates of decidePublication() read no figure that an outcome decides.
THEOREM TheSampleDecides == Spec => []SampleAloneDecides
<1>1. ASSUME NEW rows, NEW others, NEW calls, NEW window
      PROVE  Publishes(Cohort(Committed, rows, calls, window, RequiredPolls))
               <=> Publishes(Cohort(Committed, others, calls, window, RequiredPolls))
  <2> DEFINE C == Cohort(Committed, rows, calls, window, RequiredPolls)
             D == Cohort(Committed, others, calls, window, RequiredPolls)
  <2>1. /\ C.tenants = D.tenants /\ C.calls = D.calls
        /\ C.committed = D.committed /\ C.immature = D.immature
    BY Zenon DEF Cohort
  <2> HIDE DEF C, D
  <2>2. Publishes(C) <=> Publishes(D)
    BY <2>1, Zenon DEF Publishes
  <2> QED
    BY <2>2 DEF C, D
<1>2. SampleAloneDecides
  BY <1>1, Zenon DEF SampleAloneDecides
<1> QED
  BY <1>2, PTL

-----------------------------------------------------------------------------
(* The last thing seen of a booking *)

\* A table of observations: finitely many instants, one row at each.
Table(rows) ==
  /\ rows \subseteq Row
  /\ \A r, s \in rows : r.observedAt = s.observedAt => r = s
  /\ \E n \in Nat : \A r \in rows : r.observedAt <= n

LEMMA ATableIsFinite ==
  ASSUME NEW rows, Table(rows)
  PROVE  IsFiniteSet(rows)
<1>1. PICK n \in Nat : \A r \in rows : r.observedAt <= n
  BY DEF Table
<1>2. \A r \in rows : r.observedAt \in 0..n
  BY <1>1 DEF Table, Row, BookingOutcome
<1> DEFINE at == [r \in rows |-> r.observedAt]
<1>3. at \in Injection(rows, 0..n)
  BY <1>2 DEF Injection, IsInjective, Table
<1>4. IsFiniteSet(0..n)
  BY FS_Interval
<1> QED
  BY <1>3, <1>4, FS_Injection

\* A set of natural numbers has a least one: the age of the last look at a booking.
LEMMA LeastNatural ==
  ASSUME NEW S \in SUBSET Nat, S # {}
  PROVE  \E x \in S : \A y \in S : x <= y
<1>1. PICK x \in S : \A y \in S : ~ (<<y, x>> \in OpToRel(<, Nat))
  BY NatLessThanWellFounded, WFMin
<1>2. \A a, b \in Nat : a < b => <<a, b>> \in OpToRel(<, Nat)
  <2>. DEFINE Below == {ss \in Nat \X Nat : ss[1] < ss[2]}
  <2>1. OpToRel(<, Nat) = Below
    BY Zenon DEF OpToRel
  <2>2. \A a, b \in Nat : a < b => <<a, b>> \in Below
    OBVIOUS
  <2>. HIDE DEF Below
  <2>. QED
    BY <2>1, <2>2, Zenon
<1>3. \A y \in S : ~(y < x)
  BY <1>1, <1>2, Zenon
<1>. QED
  BY <1>3

\* A booking that has been looked at at all has a last look.
LEMMA ALastLook ==
  ASSUME NEW rows, Table(rows), NEW b, \E row \in rows : row.booking = b
  PROVE  \E row \in LatestPerBooking(rows) : row.booking = b
<1>1. PICK n \in Nat : \A r \in rows : r.observedAt <= n
  BY DEF Table
<1>2. \A r \in rows : r.observedAt \in Nat /\ n - r.observedAt \in Nat
  BY <1>1 DEF Table, Row, BookingOutcome
<1> DEFINE Own == {r \in rows : r.booking = b}
           Ago == {n - r.observedAt : r \in Own}
<1>3. Ago \in SUBSET Nat /\ Ago # {}
  BY <1>2
<1>4. PICK least \in Ago : \A y \in Ago : least <= y
  BY <1>3, LeastNatural
<1>5. PICK row \in Own : least = n - row.observedAt
  OBVIOUS
<1>6. \A other \in Own : n - row.observedAt <= n - other.observedAt
  BY <1>4, <1>5
<1>7. \A other \in Own : other.observedAt <= row.observedAt
  BY <1>2, <1>6
<1> QED
  BY <1>5, <1>7, Zenon DEF LatestPerBooking

\* And only one.
LEMMA OneLastLook ==
  ASSUME NEW rows, Table(rows)
  PROVE  \A r, s \in LatestPerBooking(rows) : r.booking = s.booking => r = s
<1> SUFFICES ASSUME NEW r \in LatestPerBooking(rows), NEW s \in LatestPerBooking(rows),
                    r.booking = s.booking
             PROVE  r = s
  BY Zenon
<1>1. r \in rows /\ s \in rows /\ r.observedAt <= s.observedAt /\ s.observedAt <= r.observedAt
  BY Zenon DEF LatestPerBooking
<1>2. r.observedAt \in Nat /\ s.observedAt \in Nat
  BY <1>1 DEF Table, Row, BookingOutcome
<1>3. r.observedAt = s.observedAt
  BY <1>1, <1>2
<1> QED
  BY <1>1, <1>3, Zenon DEF Table

\* The rows DISTINCT ON picks in SQL are the ones TypeScript keeps in its map.
LEMMA SameLastLooks ==
  ASSUME NEW rows, Table(rows), NEW matured
  PROVE  DistinctOnBooking(rows, matured) =
           LatestPerBooking({row \in rows : \E m \in matured : m.booking = row.booking})
<1> DEFINE Own == {row \in rows : \E m \in matured : m.booking = row.booking}
           IsLast(row, b) == /\ row.booking = b.booking
                           /\ \A other \in rows : other.booking = b.booking =>
                                other.observedAt <= row.observedAt
           Looked == {m \in matured : \E row \in rows : row.booking = m.booking}
           Pick(b) == CHOOSE row \in rows : IsLast(row, b)
<1>1. ASSUME NEW b \in Looked
      PROVE  Pick(b) \in rows /\ IsLast(Pick(b), b)
  <2>1. \E row \in rows : row.booking = b.booking
    OBVIOUS
  <2>2. PICK row \in LatestPerBooking(rows) : row.booking = b.booking
    BY <2>1, ALastLook
  <2>3. row \in rows /\ IsLast(row, b)
    BY <2>2, Zenon DEF LatestPerBooking
  <2> HIDE DEF IsLast
  <2> QED
    BY <2>3, Zenon
<1>2. ASSUME NEW b \in Looked, NEW row \in rows, IsLast(row, b)
      PROVE  row = Pick(b)
  <2>1. Pick(b) \in rows /\ IsLast(Pick(b), b)
    BY <1>1
  <2> HIDE DEF Pick
  <2>2. row.observedAt <= Pick(b).observedAt /\ Pick(b).observedAt <= row.observedAt
    BY <2>1, <1>2
  <2>3. row.observedAt \in Nat /\ Pick(b).observedAt \in Nat
    BY <2>1 DEF Table, Row, BookingOutcome
  <2>4. row.observedAt = Pick(b).observedAt
    BY <2>2, <2>3
  <2> QED
    BY <2>1, <2>4, Zenon DEF Table
<1>3. ASSUME NEW b \in Looked PROVE Pick(b) \in LatestPerBooking(Own)
  <2>1. Pick(b) \in rows /\ IsLast(Pick(b), b) /\ b \in matured
    BY <1>1
  <2> HIDE DEF Pick
  <2> QED
    BY <2>1 DEF LatestPerBooking
<1>4. ASSUME NEW row \in LatestPerBooking(Own) PROVE \E b \in Looked : row = Pick(b)
  <2>1. row \in rows /\ \A other \in Own : other.booking = row.booking =>
                          other.observedAt <= row.observedAt
    BY DEF LatestPerBooking
  <2>2. PICK b \in matured : b.booking = row.booking
    BY DEF LatestPerBooking
  <2>3. b \in Looked /\ IsLast(row, b)
    BY <2>1, <2>2
  <2> HIDE DEF Pick, IsLast, Looked
  <2> QED
    BY <2>1, <2>3, <1>2
<1>5. DistinctOnBooking(rows, matured) = {Pick(b) : b \in Looked}
  BY Zenon DEF DistinctOnBooking
<1> HIDE DEF Pick, Looked, Own
<1>6. {Pick(b) : b \in Looked} = LatestPerBooking(Own)
  BY <1>3, <1>4
<1> QED
  BY <1>5, <1>6 DEF Own

\* The observations are such a table, and stay one when labels are rewritten.
LEMMA TheRowsAreATable == IInv => Table(Rows)
<1> SUFFICES ASSUME IInv PROVE Table(Rows)
  OBVIOUS
<1>1. DOMAIN outcomes = 1..Len(outcomes) /\ Len(outcomes) \in Nat
      /\ \A i \in DOMAIN outcomes : outcomes[i] \in Row /\ outcomes[i].observedAt = i
  BY DEF IInv, Typed, InOrder
<1>2. \A r \in Rows : \E i \in DOMAIN outcomes : r = outcomes[i]
  BY DEF Rows, ToSet
<1>3. Rows \subseteq Row /\ \A r, s \in Rows : r.observedAt = s.observedAt => r = s
  BY <1>1, <1>2
<1>4. \A r \in Rows : r.observedAt <= Len(outcomes)
  BY <1>1, <1>2
<1> QED
  BY <1>1, <1>3, <1>4 DEF Table

-----------------------------------------------------------------------------
(* SQL and TypeScript count alike *)

\* What the SQL computes of a row is what TypeScript asks of it.
LEMMA JudgeReads ==
  ASSUME NEW row \in Row
  PROVE  /\ Judge(row).booking = row.booking
         /\ Judge(row).corrected <=> IsCorrected(row)
         /\ Judge(row).blamedOnUs <=> IsAgentError(row)
         /\ Judge(row).audited <=> IsAudited(row)
         /\ Judge(row).agreed <=> (IsAudited(row) /\ row.humanLabel = row.classification)
<1>1. Judge(row).booking = row.booking /\ (Judge(row).corrected <=> IsCorrected(row))
  BY DEF Judge, IsCorrected
<1>2. Judge(row).audited <=> IsAudited(row)
  BY DEF Judge, IsAudited
<1>3. Judge(row).agreed <=> (IsAudited(row) /\ row.humanLabel = row.classification)
  BY DEF Judge, IsAudited
<1>4. Judge(row).blamedOnUs <=> IsAgentError(row)
  BY DEF Judge, IsAgentError, EffectiveLabel
<1> QED
  BY <1>1, <1>2, <1>3, <1>4

\* Judging rows of different bookings leaves as many as there were.
LEMMA JudgingKeepsTheCount ==
  ASSUME NEW A, IsFiniteSet(A), A \subseteq Row,
         \A r, s \in A : r.booking = s.booking => r = s
  PROVE  Cardinality({Judge(row) : row \in A}) = Cardinality(A)
<1> DEFINE J == {Judge(row) : row \in A}
           judge == [row \in A |-> Judge(row)]
<1>1. \A r \in A : Judge(r).booking = r.booking
  BY JudgeReads
<1>2. judge \in Injection(A, J)
  <2>1. judge \in [A -> J]
    OBVIOUS
  <2>2. \A r, s \in A : Judge(r) = Judge(s) => r = s
    BY <1>1, Zenon
  <2> QED
    BY <2>1, <2>2 DEF Injection, IsInjective
<1>3. judge \in Surjection(A, J)
  BY DEF Surjection
<1>4. ExistsBijection(A, J)
  BY <1>2, <1>3 DEF ExistsBijection, Bijection
<1> QED
  BY <1>4, FS_Bijection

\* "These expressions must agree with the TypeScript exactly" (migration 0004): whatever
\* was observed and whoever labelled it, corrected bookings, our errors, audited ones and
\* the ones the auditor agreed with are as many by SQL as by computeMetrics().
THEOREM SqlAndTypeScriptCountAlike == Spec => []CohortAgreesWithTelemetry
<1>1. ASSUME IInv PROVE CohortAgreesWithTelemetry
  <2> DEFINE matured == Matured(Committed, LastCompleteQuarter, RequiredPolls)
             own == {row \in Rows : \E m \in matured : m.booking = row.booking}
             last == LatestPerBooking(own)
             judged == Judged(Rows, matured)
             cohort == CohortOf(LastCompleteQuarter)
             figures == OutcomeFigures(own)
  <2>1. Table(Rows)
    BY <1>1, TheRowsAreATable
  <2>2. Table(own)
    BY <2>1 DEF Table
  <2>3. /\ last \subseteq Row /\ IsFiniteSet(last)
        /\ \A r, s \in last : r.booking = s.booking => r = s
    <3>1. IsFiniteSet(own) /\ own \subseteq Row
      BY <2>2, ATableIsFinite DEF Table
    <3> HIDE DEF own
    <3>2. last \in SUBSET own
      BY DEF LatestPerBooking
    <3>3. IsFiniteSet(last)
      BY <3>1, <3>2, FS_Subset
    <3> QED
      BY <2>2, <3>1, <3>2, <3>3, OneLastLook, Zenon
  <2>4. judged = {Judge(row) : row \in last}
    BY <2>1, SameLastLooks, Zenon DEF Judged
  <2>5. /\ cohort.corrected = Cardinality({j \in judged : j.corrected /\ TRUE})
        /\ cohort.agentErrors = Cardinality({j \in judged : j.corrected /\ j.blamedOnUs})
        /\ cohort.audited = Cardinality({j \in judged : j.corrected /\ j.audited})
        /\ cohort.agreed = Cardinality({j \in judged : j.corrected /\ j.agreed})
    BY Zenon DEF CohortOf, Cohort
  <2>6. figures = [corrected |-> Cardinality({row \in last : IsCorrected(row)}),
                   agentErrors |-> Cardinality({row \in {r \in last : IsCorrected(r)} : IsAgentError(row)}),
                   audited |-> Cardinality({row \in {r \in last : IsCorrected(r)} : IsAudited(row)}),
                   agreed |-> Cardinality({row \in {q \in {r \in last : IsCorrected(r)} : IsAudited(q)} :
                                             row.humanLabel = row.classification})]
    BY Zenon DEF OutcomeFigures
  <2> HIDE DEF matured, own, last, judged, cohort, figures
  <2>7. ASSUME NEW A \in SUBSET last, NEW J, J = {Judge(row) : row \in A}
        PROVE  Cardinality(J) = Cardinality(A)
    <3>1. IsFiniteSet(A)
      BY <2>3, FS_Subset
    <3> QED
      BY <3>1, <2>3, <2>7, JudgingKeepsTheCount
  <2>8. \A row \in last : /\ Judge(row).corrected <=> IsCorrected(row)
                          /\ Judge(row).blamedOnUs <=> IsAgentError(row)
                          /\ Judge(row).audited <=> IsAudited(row)
                          /\ Judge(row).agreed <=> (IsAudited(row) /\ row.humanLabel = row.classification)
    BY <2>3, JudgeReads
  <2>9. cohort.corrected = figures.corrected
    <3> DEFINE A == {row \in last : IsCorrected(row)}
    <3>1. {j \in judged : j.corrected /\ TRUE} = {Judge(row) : row \in A}
      BY <2>4, <2>8
    <3> QED
      BY <3>1, <2>5, <2>6, <2>7
  <2>10. cohort.agentErrors = figures.agentErrors
    <3> DEFINE A == {row \in {r \in last : IsCorrected(r)} : IsAgentError(row)}
    <3>1. {j \in judged : j.corrected /\ j.blamedOnUs} = {Judge(row) : row \in A}
      BY <2>4, <2>8
    <3> QED
      BY <3>1, <2>5, <2>6, <2>7
  <2>11. cohort.audited = figures.audited
    <3> DEFINE A == {row \in {r \in last : IsCorrected(r)} : IsAudited(row)}
    <3>1. {j \in judged : j.corrected /\ j.audited} = {Judge(row) : row \in A}
      BY <2>4, <2>8
    <3> QED
      BY <3>1, <2>5, <2>6, <2>7
  <2>12. cohort.agreed = figures.agreed
    <3> DEFINE A == {row \in {q \in {r \in last : IsCorrected(r)} : IsAudited(q)} :
                       row.humanLabel = row.classification}
    <3>1. {j \in judged : j.corrected /\ j.agreed} = {Judge(row) : row \in A}
      BY <2>4, <2>8
    <3> QED
      BY <3>1, <2>5, <2>6, <2>7
  <2>13. DOMAIN figures = {"corrected", "agentErrors", "audited", "agreed"}
    BY <2>6
  <2>14. \A count \in DOMAIN figures : cohort[count] = figures[count]
    BY <2>9, <2>10, <2>11, <2>12, <2>13
  <2> QED
    BY <2>14, Zenon DEF CohortAgreesWithTelemetry, cohort, figures, matured, own
<1> QED
  BY <1>1, IInvHolds, PTL

-----------------------------------------------------------------------------
(* Who is charged, and who is blamed *)

\* A booking that is billed was never seen cancelled last, and if it was last seen edited
\* the effective label says that the contractor changed his mind.
LEMMA BilledMeans ==
  ASSUME NEW rows, Table(rows), NEW b, NEW row \in LatestPerBooking(rows), row.booking = b
  PROVE  WaiverFor(rows, b) = "billed"
           <=> (~row.cancelled /\ (~IsCorrected(row) \/ ~IsAgentError(row)))
<1> DEFINE seen == {r \in LatestPerBooking(rows) : r.booking = b}
<1>1. seen = {row}
  BY OneLastLook
<1>2. WaiverFor(rows, b) =
        IF seen = {} THEN "billed"
        ELSE IF \E r \in seen : r.cancelled THEN "cancelled"
        ELSE IF \E r \in seen : ~IsCorrected(r) \/ ~IsAgentError(r) THEN "billed"
        ELSE IF \E r \in seen : EffectiveLabel(r) = Unlabelled THEN "untriaged"
        ELSE "agent_error"
  BY Zenon DEF WaiverFor
<1> HIDE DEF seen
<1>3. seen # {} /\ \A r : r \in seen <=> r = row
  BY <1>1
<1> QED
  BY <1>2, <1>3

LEMMA NoLookIsBilled ==
  ASSUME NEW rows, NEW b, \A row \in LatestPerBooking(rows) : row.booking # b
  PROVE  WaiverFor(rows, b) = "billed"
<1>1. {r \in LatestPerBooking(rows) : r.booking = b} = {}
  OBVIOUS
<1> QED
  BY <1>1, Zenon DEF WaiverFor

\* No booking that the published figure calls our own error is a billed line of any
\* invoice: SQL and the invoice judge by the same last observation and the same label,
\* whoever labelled it and whichever of the booking's observations was labelled.
THEOREM OurErrorsAreNotBilled == Spec => []NeverBilledForOurError
<1>1. ASSUME IInv PROVE NeverBilledForOurError
  <2> DEFINE matured == Matured(Committed, [start |-> 0, end |-> LastMonth + 1], RequiredPolls)
             ours == {j.booking : j \in {k \in Judged(Rows, matured) : k.corrected /\ k.blamedOnUs}}
             jobs == {[booking |-> c.booking, committedAt |-> c.committedAt] : c \in Committed}
  <2>1. Table(Rows)
    BY <1>1, TheRowsAreATable
  <2> DEFINE own == {row \in Rows : \E m \in matured : m.booking = row.booking}
  <2>2. own \subseteq Rows /\ \A r \in Rows, s \in own : r.booking = s.booking => r \in own
    OBVIOUS
  <2>3. \A row \in LatestPerBooking(own) : row \in LatestPerBooking(Rows)
    <3> HIDE DEF own
    <3> QED
      BY <2>2 DEF LatestPerBooking
  <2>4. ASSUME NEW b \in ours PROVE WaiverFor(Rows, b) # "billed"
    <3>1. PICK j \in Judged(Rows, matured) : j.corrected /\ j.blamedOnUs /\ j.booking = b
      OBVIOUS
    <3>2. Judged(Rows, matured) = {Judge(row) : row \in LatestPerBooking(own)}
      BY <2>1, SameLastLooks, Zenon DEF Judged
    <3>3. PICK row \in LatestPerBooking(own) : j = Judge(row)
      BY <3>1, <3>2, Zenon
    <3> HIDE DEF own, matured, ours
    <3>4. row \in LatestPerBooking(Rows) /\ row \in Row
      BY <2>1, <2>3, <3>3 DEF LatestPerBooking, Table
    <3>5. IsCorrected(row) /\ IsAgentError(row) /\ row.booking = b
      BY <3>1, <3>3, <3>4, JudgeReads
    <3> QED
      BY <2>1, <3>4, <3>5, BilledMeans
  <2>5. ASSUME NEW m \in 0..LastMonth,
               NEW line \in InvoiceFor(jobs, Rows, [start |-> m, end |-> m + 1], 1).lines
        PROVE  line.waived = WaiverFor(Rows, line.booking)
    BY DEF InvoiceFor
  <2> HIDE DEF matured, jobs
  <2>6. \A m \in 0..LastMonth :
          \A line \in InvoiceFor(jobs, Rows, [start |-> m, end |-> m + 1], 1).lines :
            line.waived = "billed" => line.booking \notin ours
    BY <2>4, <2>5, Zenon
  <2> QED
    BY <2>6, Zenon DEF NeverBilledForOurError, matured, jobs
<1> QED
  BY <1>1, IInvHolds, PTL

-----------------------------------------------------------------------------
(* What a backlog of triage does to the figure *)

\* Take the model's label from any row: no fewer bookings count as our error, nor are more
\* billed, the published number is not smaller as long as it is the same rate, and it is
\* the same rate unless the auditor had labelled the row too.
THEOREM ABacklogNeverFlatters == Spec => []BacklogNeverFlatters
<1>1. ASSUME IInv, NEW i \in DOMAIN outcomes
      PROVE  LET fewer == ToSet([outcomes EXCEPT ![i] = Classify(@, Unlabelled)])
                 without == PublishedCorrectionRate(OutcomeFigures(fewer))
                 with == PublishedCorrectionRate(OutcomeFigures(Rows))
             IN /\ OutcomeFigures(fewer).agentErrors >= OutcomeFigures(Rows).agentErrors
                /\ \A b \in Bookings :
                     WaiverFor(fewer, b) = "billed" => WaiverFor(Rows, b) = "billed"
                /\ without.basis = with.basis => without.corrections >= with.corrections
                /\ outcomes[i].humanLabel = Unlabelled => without.basis = with.basis
  <2> DEFINE f == [outcomes EXCEPT ![i] = Classify(@, Unlabelled)]
             fewer == ToSet(f)
             strip(row) == f[row.observedAt]
  <2>1. /\ DOMAIN outcomes = 1..Len(outcomes) /\ Len(outcomes) \in Nat
        /\ \A k \in DOMAIN outcomes : outcomes[k] \in Row /\ outcomes[k].observedAt = k
    BY <1>1 DEF IInv, Typed, InOrder
  <2>2. /\ DOMAIN f = DOMAIN outcomes
        /\ f[i] = Classify(outcomes[i], Unlabelled)
        /\ \A k \in DOMAIN outcomes : k # i => f[k] = outcomes[k]
    BY <2>1
  <2> HIDE DEF f
  <2>3. ASSUME NEW k \in DOMAIN outcomes
        PROVE  /\ f[k] \in Row
               /\ f[k].observedAt = k
               /\ f[k].booking = outcomes[k].booking
               /\ f[k].cancelled = outcomes[k].cancelled
               /\ f[k].edited = outcomes[k].edited
               /\ f[k].humanLabel = outcomes[k].humanLabel
               /\ f[k].classification \in {outcomes[k].classification, Unlabelled}
    <3>1. CASE k = i
      BY <2>1, <2>2, <3>1, ClassifyKeeps DEF Unlabelled
    <3>2. CASE k # i
      BY <2>1, <2>2, <3>2
    <3> QED
      BY <3>1, <3>2
  <2>4. /\ \A r \in Rows : r.observedAt \in DOMAIN outcomes /\ r = outcomes[r.observedAt]
        /\ \A k \in DOMAIN outcomes : outcomes[k] \in Rows
    BY <2>1 DEF Rows, ToSet
  <2>5. /\ \A r \in fewer : r.observedAt \in DOMAIN outcomes /\ r = f[r.observedAt]
        /\ \A k \in DOMAIN outcomes : f[k] \in fewer
    BY <2>2, <2>3 DEF ToSet
  <2>6. Table(Rows)
    BY <1>1, TheRowsAreATable
  <2>7. Table(fewer)
    <3>1. fewer \subseteq Row
      BY <2>3, <2>5
    <3>2. \A r, s \in fewer : r.observedAt = s.observedAt => r = s
      BY <2>5, Zenon
    <3>3. \A r \in fewer : r.observedAt <= Len(outcomes)
      BY <2>1, <2>5
    <3> QED
      BY <2>1, <3>1, <3>2, <3>3 DEF Table
  <2> HIDE DEF fewer
  <2>8. \A r \in LatestPerBooking(Rows) : strip(r) \in LatestPerBooking(fewer)
    <3> SUFFICES ASSUME NEW r \in LatestPerBooking(Rows)
                 PROVE  strip(r) \in LatestPerBooking(fewer)
      OBVIOUS
    <3>1. r \in Rows /\ \A other \in Rows : other.booking = r.booking =>
                          other.observedAt <= r.observedAt
      BY Zenon DEF LatestPerBooking
    <3>2. strip(r) \in fewer /\ strip(r).booking = r.booking /\ strip(r).observedAt = r.observedAt
      BY <2>3, <2>4, <2>5, <3>1
    <3>3. ASSUME NEW other \in fewer, other.booking = strip(r).booking
          PROVE  other.observedAt <= strip(r).observedAt
      <4> DEFINE before == outcomes[other.observedAt]
      <4>1. before \in Rows /\ before.observedAt = other.observedAt /\ before.booking = other.booking
        BY <2>1, <2>3, <2>4, <2>5
      <4> HIDE DEF before
      <4> QED
        BY <3>1, <3>2, <3>3, <4>1
    <3> QED
      BY <3>2, <3>3, Zenon DEF LatestPerBooking
  <2>9. \A r \in Rows : /\ strip(r).booking = r.booking
                        /\ strip(r).observedAt = r.observedAt
                        /\ strip(r).cancelled = r.cancelled
                        /\ IsCorrected(strip(r)) <=> IsCorrected(r)
                        /\ IsAgentError(r) => IsAgentError(strip(r))
    <3> SUFFICES ASSUME NEW r \in Rows
                 PROVE  /\ strip(r).booking = r.booking
                        /\ strip(r).observedAt = r.observedAt
                        /\ strip(r).cancelled = r.cancelled
                        /\ IsCorrected(strip(r)) <=> IsCorrected(r)
                        /\ IsAgentError(r) => IsAgentError(strip(r))
      OBVIOUS
    <3>1. r.observedAt \in DOMAIN outcomes /\ r = outcomes[r.observedAt]
      BY <2>4
    <3> DEFINE t == strip(r)
    <3>2. /\ t.booking = r.booking /\ t.observedAt = r.observedAt
          /\ t.cancelled = r.cancelled /\ t.edited = r.edited
          /\ t.humanLabel = r.humanLabel
          /\ t.classification = r.classification \/ t.classification = Unlabelled
      BY <2>3, <3>1
    <3> HIDE DEF t
    <3>3. IsCorrected(t) <=> IsCorrected(r)
      BY <3>2, Zenon DEF IsCorrected
    <3>4. IsAgentError(r) => IsAgentError(t)
      BY <3>2 DEF IsAgentError, EffectiveLabel
    <3> QED
      BY <3>2, <3>3, <3>4 DEF t
  <2> DEFINE Errors(rows) == {row \in {r \in LatestPerBooking(rows) : IsCorrected(r)} :
                                IsAgentError(row)}
  <2>10. /\ OutcomeFigures(fewer).agentErrors = Cardinality(Errors(fewer))
         /\ OutcomeFigures(Rows).agentErrors = Cardinality(Errors(Rows))
    BY DEF OutcomeFigures
  <2> DEFINE strips == [r \in Errors(Rows) |-> strip(r)]
  <2>11. \A r \in LatestPerBooking(Rows) : r \in Rows
    BY DEF LatestPerBooking
  <2> HIDE DEF strip
  <2>12. \A r \in Errors(Rows) : r \in Rows /\ strip(r) \in Errors(fewer)
    BY <2>8, <2>9, <2>11
  <2>13. strips \in Injection(Errors(Rows), Errors(fewer))
    <3>1. strips \in [Errors(Rows) -> Errors(fewer)]
      BY <2>12
    <3>2. ASSUME NEW r \in Errors(Rows), NEW s \in Errors(Rows), strip(r) = strip(s)
          PROVE  r = s
      <4>1. r \in Rows /\ s \in Rows
        BY <2>12
      <4>2. r.observedAt = s.observedAt
        BY <2>9, <3>2, <4>1
      <4> QED
        BY <2>6, <4>1, <4>2, Zenon DEF Table
    <3> HIDE DEF Errors
    <3> QED
      BY <3>1, <3>2 DEF Injection, IsInjective
  <2>14. IsFiniteSet(Errors(Rows)) /\ IsFiniteSet(Errors(fewer))
    <3>1. IsFiniteSet(Rows) /\ IsFiniteSet(fewer)
      BY <2>6, <2>7, ATableIsFinite
    <3>2. Errors(Rows) \in SUBSET Rows /\ Errors(fewer) \in SUBSET fewer
      BY DEF LatestPerBooking
    <3> HIDE DEF Errors
    <3> QED
      BY <3>1, <3>2, FS_Subset
  <2>15. OutcomeFigures(fewer).agentErrors >= OutcomeFigures(Rows).agentErrors
    <3> HIDE DEF Errors
    <3>1. Cardinality(Errors(Rows)) <= Cardinality(Errors(fewer))
      BY <2>13, <2>14, FS_Injection
    <3>2. Cardinality(Errors(Rows)) \in Nat /\ Cardinality(Errors(fewer)) \in Nat
      BY <2>14, FS_CardinalityType
    <3> QED
      BY <2>10, <3>1, <3>2
  <2>16. ASSUME NEW b \in Bookings, WaiverFor(fewer, b) = "billed"
         PROVE  WaiverFor(Rows, b) = "billed"
    <3>1. CASE \A row \in LatestPerBooking(Rows) : row.booking # b
      BY <3>1, NoLookIsBilled
    <3>2. ASSUME NEW row \in LatestPerBooking(Rows), row.booking = b
          PROVE  WaiverFor(Rows, b) = "billed"
      <4>1. row \in Rows /\ strip(row) \in LatestPerBooking(fewer) /\ strip(row).booking = b
        BY <2>8, <2>9, <2>11, <3>2
      <4>2. ~strip(row).cancelled /\ (~IsCorrected(strip(row)) \/ ~IsAgentError(strip(row)))
        BY <2>7, <2>16, <4>1, BilledMeans
      <4>3. ~row.cancelled /\ (~IsCorrected(row) \/ ~IsAgentError(row))
        BY <2>9, <4>1, <4>2
      <4> QED
        BY <2>6, <3>2, <4>3, BilledMeans
    <3> QED
      BY <3>1, <3>2
  <2> DEFINE Corrected(rows) == {r \in LatestPerBooking(rows) : IsCorrected(r)}
             Audited(rows) == {r \in Corrected(rows) : IsAudited(r)}
             F == OutcomeFigures(fewer)
             G == OutcomeFigures(Rows)
  <2>17. F.corrected >= G.corrected
    <3>1. \A r \in Corrected(Rows) : r \in Rows /\ strip(r) \in Corrected(fewer)
      BY <2>8, <2>9, <2>11
    <3> DEFINE kept == [r \in Corrected(Rows) |-> strip(r)]
    <3>2. kept \in Injection(Corrected(Rows), Corrected(fewer))
      <4>1. kept \in [Corrected(Rows) -> Corrected(fewer)]
        BY <3>1
      <4>2. ASSUME NEW r \in Corrected(Rows), NEW s \in Corrected(Rows), strip(r) = strip(s)
            PROVE  r = s
        <5>1. r \in Rows /\ s \in Rows
          BY <3>1
        <5>2. r.observedAt = s.observedAt
          BY <2>9, <4>2, <5>1
        <5> QED
          BY <2>6, <5>1, <5>2, Zenon DEF Table
      <4> HIDE DEF Corrected
      <4> QED
        BY <4>1, <4>2 DEF Injection, IsInjective
    <3>3. IsFiniteSet(Corrected(Rows)) /\ IsFiniteSet(Corrected(fewer))
      <4>1. IsFiniteSet(Rows) /\ IsFiniteSet(fewer)
        BY <2>6, <2>7, ATableIsFinite
      <4>2. Corrected(Rows) \in SUBSET Rows /\ Corrected(fewer) \in SUBSET fewer
        BY DEF LatestPerBooking
      <4> HIDE DEF Corrected
      <4> QED
        BY <4>1, <4>2, FS_Subset
    <3>4. F.corrected = Cardinality(Corrected(fewer)) /\ G.corrected = Cardinality(Corrected(Rows))
      BY DEF OutcomeFigures
    <3> HIDE DEF Corrected, kept, F, G
    <3>5. Cardinality(Corrected(Rows)) <= Cardinality(Corrected(fewer))
      BY <3>2, <3>3, FS_Injection
    <3>6. Cardinality(Corrected(Rows)) \in Nat /\ Cardinality(Corrected(fewer)) \in Nat
      BY <3>3, FS_CardinalityType
    <3> QED
      BY <3>4, <3>5, <3>6
  <2>18. ASSUME outcomes[i].humanLabel = Unlabelled
         PROVE  F.audited = G.audited /\ F.agreed = G.agreed
    <3>1. ASSUME NEW r, IsAudited(r) PROVE (r \in fewer <=> r \in Rows)
      <4>1. ASSUME NEW k \in DOMAIN outcomes, r = outcomes[k] \/ r = f[k] PROVE k # i
        BY <2>3, <2>18, <3>1, <4>1 DEF IsAudited
      <4>2. ASSUME r \in fewer PROVE r \in Rows
        <5>1. r.observedAt \in DOMAIN outcomes /\ r = f[r.observedAt]
          BY <2>5, <4>2
        <5>2. r = outcomes[r.observedAt]
          BY <2>2, <4>1, <5>1
        <5> QED
          BY <2>4, <5>1, <5>2
      <4>3. ASSUME r \in Rows PROVE r \in fewer
        <5>1. r.observedAt \in DOMAIN outcomes /\ r = outcomes[r.observedAt]
          BY <2>4, <4>3
        <5>2. r = f[r.observedAt]
          BY <2>2, <4>1, <5>1
        <5> QED
          BY <2>5, <5>1, <5>2
      <4> QED
        BY <4>2, <4>3
    <3>2. ASSUME NEW r, r \in Rows, r \in fewer
          PROVE  r \in LatestPerBooking(fewer) <=> r \in LatestPerBooking(Rows)
      <4>1. ASSUME r \in LatestPerBooking(fewer), NEW other \in Rows, other.booking = r.booking
            PROVE  other.observedAt <= r.observedAt
        <5>1. /\ f[other.observedAt] \in fewer /\ f[other.observedAt].booking = r.booking
              /\ f[other.observedAt].observedAt = other.observedAt
          BY <2>3, <2>4, <2>5, <4>1
        <5> QED
          BY <4>1, <5>1 DEF LatestPerBooking
      <4>2. ASSUME r \in LatestPerBooking(Rows), NEW other \in fewer, other.booking = r.booking
            PROVE  other.observedAt <= r.observedAt
        <5> DEFINE o == outcomes[other.observedAt]
        <5>1. o \in Rows /\ o.booking = r.booking /\ o.observedAt = other.observedAt
          BY <2>1, <2>3, <2>4, <2>5, <4>2
        <5> HIDE DEF o
        <5> QED
          BY <4>2, <5>1 DEF LatestPerBooking
      <4> QED
        BY <3>2, <4>1, <4>2 DEF LatestPerBooking
    <3>3. Audited(fewer) = Audited(Rows)
      <4>1. ASSUME NEW r, IsAudited(r)
            PROVE  r \in LatestPerBooking(fewer) <=> r \in LatestPerBooking(Rows)
        <5>1. r \in fewer <=> r \in Rows
          BY <3>1, <4>1
        <5>2. /\ r \in LatestPerBooking(fewer) => r \in fewer
              /\ r \in LatestPerBooking(Rows) => r \in Rows
          BY DEF LatestPerBooking
        <5> QED
          BY <3>2, <5>1, <5>2
      <4> QED
        BY <4>1
    <3> HIDE DEF Audited
    <3>4. /\ F.audited = Cardinality(Audited(fewer)) /\ G.audited = Cardinality(Audited(Rows))
          /\ F.agreed = Cardinality({r \in Audited(fewer) : r.humanLabel = r.classification})
          /\ G.agreed = Cardinality({r \in Audited(Rows) : r.humanLabel = r.classification})
      BY Zenon DEF OutcomeFigures, Audited
    <3> HIDE DEF F, G
    <3> QED
      BY <3>3, <3>4, Zenon
  <2> DEFINE without == PublishedCorrectionRate(F)
             with == PublishedCorrectionRate(G)
  <2> HIDE DEF F, G
  <2>19. ASSUME F.agentErrors >= G.agentErrors, without.basis = with.basis
         PROVE  without.corrections >= with.corrections
    <3>1. \A x : LET rate == PublishedCorrectionRate(x)
                 IN \/ rate.basis = "agent_error" /\ rate.corrections = x.agentErrors
                    \/ rate.basis = "raw" /\ rate.corrections = x.corrected
      BY DEF PublishedCorrectionRate
    <3> QED
      BY <2>17, <2>19, <3>1
  <2>20. ASSUME outcomes[i].humanLabel = Unlabelled PROVE without.basis = with.basis
    <3>1. EarnsItsPlace(F) <=> EarnsItsPlace(G)
      BY <2>18, <2>20, Zenon DEF EarnsItsPlace
    <3> QED
      BY <3>1 DEF PublishedCorrectionRate
  <2>21. F.agentErrors >= G.agentErrors
    BY <2>15 DEF F, G
  <2> HIDE DEF without, with
  <2> QED
    BY <2>16, <2>19, <2>20, <2>21, Zenon DEF without, with, F, G, fewer, f
<1>2. IInv => BacklogNeverFlatters
  BY <1>1, Zenon DEF BacklogNeverFlatters
<1> QED
  BY <1>2, IInvHolds, PTL

=============================================================================
