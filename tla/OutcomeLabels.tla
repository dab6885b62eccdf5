--------------------------- MODULE OutcomeLabels ---------------------------
(***************************************************************************)
(* What an observation of a committed booking counts for: the definitions  *)
(* of contracts/src/booking.ts, the figures telemetry/src/metrics.ts takes *)
(* from them, the invoice of billing/src/invoice.ts, and the cohort that   *)
(* migration 0004 counts in SQL over the same rows.                        *)
(*                                                                         *)
(* A row is one observation.  `edited` is whether correctedFields has any  *)
(* key, `observedAt` an instant no two rows of a booking share.            *)
(***************************************************************************)
EXTENDS Naturals, FiniteSets, FiniteSetsExt

CONSTANTS
  MIN_AUDITED_OUTCOMES,       \* audited corrections the classifier needs
  AUDIT_AGREEMENT_FLOOR       \* agreement it needs: [num, den]

Unlabelled == "unlabelled"    \* null
Classifications == {"agent_error", "business_change"}

ASSUME OutcomeLabelsAssumption ==
  /\ MIN_AUDITED_OUTCOMES \in Nat
  /\ AUDIT_AGREEMENT_FLOOR \in [num : Nat, den : Nat \ {0}]

BookingOutcome(bookings, instants) ==
  [booking : bookings, observedAt : instants, cancelled : BOOLEAN, edited : BOOLEAN,
   classification : Classifications \cup {Unlabelled},
   humanLabel : Classifications \cup {Unlabelled}]

IsCorrected(row) == row.cancelled \/ row.edited

\* "The human wins."
EffectiveLabel(row) ==
  IF row.humanLabel # Unlabelled THEN row.humanLabel ELSE row.classification

\* Mutant of IsAgentError: a correction nobody has labelled is nobody's fault.
OnlyIfLabelledOurs(row) == EffectiveLabel(row) = "agent_error"

IsAgentError(row) == EffectiveLabel(row) \in {Unlabelled, "agent_error"}

\* One row per booking: the last thing seen.
LatestPerBooking(rows) ==
  {row \in rows :
     \A other \in rows : other.booking = row.booking => other.observedAt <= row.observedAt}

IsAudited(row) == row.humanLabel # Unlabelled /\ row.classification # Unlabelled

-----------------------------------------------------------------------------
(* telemetry/src/metrics.ts: the four counts of computeMetrics() that outcomes decide. *)

OutcomeFigures(rows) ==
  LET corrected == {row \in LatestPerBooking(rows) : IsCorrected(row)}
      audited == {row \in corrected : IsAudited(row)}
  IN [corrected |-> Cardinality(corrected),
      agentErrors |-> Cardinality({row \in corrected : IsAgentError(row)}),
      audited |-> Cardinality(audited),
      agreed |-> Cardinality({row \in audited : row.humanLabel = row.classification})]

\* ratio() at or above a floor; 0 when there is nothing to divide by.
ReachesFloor(numerator, denominator, floor) ==
  IF denominator = 0 THEN floor.num = 0
  ELSE numerator * floor.den >= floor.num * denominator

\* publishedCorrectionRate(): which of the two rates may be quoted.
EarnsItsPlace(figures) ==
  /\ figures.audited >= MIN_AUDITED_OUTCOMES
  /\ ReachesFloor(figures.agreed, figures.audited, AUDIT_AGREEMENT_FLOOR)

PublishedCorrectionRate(figures) ==
  IF EarnsItsPlace(figures)
  THEN [basis |-> "agent_error", corrections |-> figures.agentErrors]
  ELSE [basis |-> "raw", corrections |-> figures.corrected]

-----------------------------------------------------------------------------
(* Migration 0004: the same definitions, in SQL, over the bookings of a window.  A      *)
(* booking is [booking, tenant, committedAt, completedPolls].                           *)

WindowBookings(bookings, window) ==
  {b \in bookings : b.committedAt >= window.start /\ b.committedAt < window.end}

Matured(bookings, window, requiredPolls) ==
  {b \in WindowBookings(bookings, window) : b.completedPolls >= requiredPolls}

\* SELECT DISTINCT ON (booking_id) ... ORDER BY booking_id, observed_at DESC
DistinctOnBooking(rows, matured) ==
  {CHOOSE row \in rows :
     row.booking = b.booking /\ \A other \in rows :
       other.booking = b.booking => other.observedAt <= row.observedAt
   : b \in {m \in matured : \E row \in rows : row.booking = m.booking}}

\* Mutant of Judge: COALESCE with its arguments the other way round.
JudgeModelFirst(row) ==
  LET label == IF row.classification # Unlabelled THEN row.classification ELSE row.humanLabel
  IN [booking |-> row.booking,
      corrected |-> row.cancelled \/ row.edited,
      blamedOnUs |-> label = Unlabelled \/ label = "agent_error",
      audited |-> row.humanLabel # Unlabelled /\ row.classification # Unlabelled,
      agreed |-> row.humanLabel # Unlabelled /\ row.humanLabel = row.classification]

\* COALESCE(human_label, classification), and the columns computed from it.
Judge(row) ==
  LET label == IF row.humanLabel # Unlabelled THEN row.humanLabel ELSE row.classification
  IN [booking |-> row.booking,
      corrected |-> row.cancelled \/ row.edited,
      blamedOnUs |-> label = Unlabelled \/ label = "agent_error",
      audited |-> row.humanLabel # Unlabelled /\ row.classification # Unlabelled,
      agreed |-> row.humanLabel # Unlabelled /\ row.humanLabel = row.classification]

Judged(rows, matured) == {Judge(row) : row \in DistinctOnBooking(rows, matured)}

\* The tenant with the highest rate, the larger of two with the same.
WorstTenant(judged, matured) ==
  LET tenants == {m.tenant : m \in matured}
      bookings(t) == Cardinality({m \in matured : m.tenant = t})
      corrected(t) == Cardinality({m \in matured : m.tenant = t /\
                        \E j \in judged : j.booking = m.booking /\ j.corrected})
      figure(t) == [corrected |-> corrected(t), bookings |-> bookings(t)]
      atLeast(f, g) == \/ f.corrected * g.bookings > g.corrected * f.bookings
                       \/ /\ f.corrected * g.bookings = g.corrected * f.bookings
                          /\ f.bookings >= g.bookings
  IN IF tenants = {} THEN [corrected |-> 0, bookings |-> 0]
     ELSE CHOOSE f \in {figure(t) : t \in tenants} :
            \A t \in tenants : atLeast(f, figure(t))

\* app_reliability_cohort()
Cohort(bookings, rows, calls, window, requiredPolls) ==
  LET matured == Matured(bookings, window, requiredPolls)
      judged == Judged(rows, matured)
      counted(P(_)) == Cardinality({j \in judged : j.corrected /\ P(j)})
  IN [window |-> window,
      tenants |-> Cardinality({m.tenant : m \in matured}),
      calls |-> calls,
      committed |-> Cardinality(matured),
      immature |-> Cardinality(WindowBookings(bookings, window) \ matured),
      corrected |-> counted(LAMBDA j : TRUE),
      agentErrors |-> counted(LAMBDA j : j.blamedOnUs),
      audited |-> counted(LAMBDA j : j.audited),
      agreed |-> counted(LAMBDA j : j.agreed),
      worst |-> WorstTenant(judged, matured)]

-----------------------------------------------------------------------------
(* billing/src/invoice.ts *)

\* Mutant of WaiverFor: only the model's label is looked at.
WaiverForModelLabel(rows, booking) ==
  LET seen == {row \in LatestPerBooking(rows) : row.booking = booking}
  IN IF \E row \in seen : row.cancelled THEN "cancelled"
     ELSE IF \E row \in seen : row.edited /\ row.classification # "business_change"
     THEN "agent_error" ELSE "billed"

\* waiverFor(): why the booking is not charged for, or that it is.
WaiverFor(rows, booking) ==
  LET seen == {row \in LatestPerBooking(rows) : row.booking = booking}
      some(P(_)) == \E row \in seen : P(row)
  IN IF seen = {} THEN "billed"
     ELSE IF some(LAMBDA row : row.cancelled) THEN "cancelled"
     ELSE IF some(LAMBDA row : ~IsCorrected(row) \/ ~IsAgentError(row)) THEN "billed"
     ELSE IF some(LAMBDA row : EffectiveLabel(row) = Unlabelled) THEN "untriaged"
     ELSE "agent_error"

\* invoiceFor(): a line for each job committed in the period, its end exclusive.
InvoiceFor(jobs, rows, period, price) ==
  LET inPeriod == {j \in jobs : j.committedAt >= period.start /\ j.committedAt < period.end}
      lines == {[booking |-> j.booking, waived |-> WaiverFor(rows, j.booking)] : j \in inPeriod}
      billed == {line \in lines : line.waived = "billed"}
  IN [lines |-> lines,
      booked |-> Cardinality(inPeriod),
      billed |-> Cardinality(billed),
      total |-> Cardinality(billed) * price,
      staleTriage |-> Cardinality({line \in lines : line.waived = "untriaged"})]

=============================================================================
