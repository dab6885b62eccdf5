SPECIFICATION FairSpec
CONSTANTS
  b1 = b1
  b2 = b2
  r1 = r1
  r2 = r2
  Bookings <- TwoBookings
  CommittedAt <- ADayApart
  Runs <- TwoRuns
  Limits <- OneOrBoth
  Unstorable <- TwoBookings
  RunsMayDie = TRUE
  Days <- SomeDays
CHECK_DEADLOCK FALSE
INVARIANTS ConsumedPollsWereMade
PROPERTIES EveryPollIsMade
