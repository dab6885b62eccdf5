SPECIFICATION FairSpec
CONSTANTS
  b1 = b1
  b2 = b2
  old = old
  Bookings <- TwoBookings
  Old <- OneOld
  MaxAttempts = 2
  Provider = "jobber"
  Deliveries <- JobberDeliveries
  CarrierFaults <- LostTexts
  JournalFails = TRUE
  MaxRuns = 2
CHECK_DEADLOCK FALSE
INVARIANTS WrittenOnce ConfirmedMeansJob OneTextPerRun
PROPERTIES RecordedWorkIsUndone RevokesOnlyItsOwn KeepsThePromise EveryBookingIsSettled
