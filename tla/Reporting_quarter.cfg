SPECIFICATION FairSpec
CONSTANTS
  b1 = b1
  b2 = b2
  t1 = t1
  Bookings <- TwoBookings
  TenantOf <- MCTenantOf
  CommittedAt <- MCCommittedAt
  Seen <- MCSeen
  Null = Null
  Vendor = "groq"
  TriageReplies <- MCTriageReplies
  AuditSample <- OneSampled
  RequiredPolls = 2
  TRIAGE_BATCH_LIMIT = 3
  MIN_COHORT_TENANTS = 1
  MIN_COHORT_BOOKINGS = 1
  MIN_COHORT_CALLS = 3
  MIN_OBSERVED_COVERAGE <- HalfCoverage
  MIN_AUDITED_OUTCOMES = 1
  AUDIT_AGREEMENT_FLOOR <- FullAgreement
  CallsIn <- OneCallAMonth
  FirstMonth = 5
  LastMonth = 6
CHECK_DEADLOCK FALSE
INVARIANTS CohortAgreesWithTelemetry NeverBilledForOurError BacklogNeverFlatters SampleAloneDecides
PROPERTIES FirstFigureStands EveryCorrectionIsLabelled
