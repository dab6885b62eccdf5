SPECIFICATION FairSpec
CONSTANTS
  c0 = c0
  c1 = c1
  c2 = c2
  r1 = r1
  r2 = r2
  Calls <- ThreeCalls
  StartedAt <- MCStartedAt
  Recorded <- TwoRecorded
  Turns <- MCTurns
  OutcomeOf <- MCOutcomeOf
  Refused <- OneRefused
  Runs <- TwoRuns
  RECORDING_RETENTION_DAYS = 1
  TRANSCRIPT_RETENTION_DAYS = 2
  RETENTION_BATCH_LIMIT = 2
  WritesMayFail = TRUE
  RunsMayDie = TRUE
  MaxDay = 5
CHECK_DEADLOCK FALSE
INVARIANTS TombstoneMeansGone NothingForgottenEarly
PROPERTIES FiguresOutliveTheWords EveryPromiseIsKept
