SPECIFICATION FairSpec
CONSTANTS
  t1 = t1
  t2 = t2
  t3 = t3
  v1 = v1
  v2 = v2
  oneParty = oneParty
  allParty = allParty
  old = old
  new = new
  Absent = Absent
  DPA_VERSION = new
  AREA_CODE_STATE <- MCAreaCodes
  ALL_PARTY_CONSENT_STATES <- MCAllParty
  Parties <- EitherTape
  Garbled = Garbled
  Empty = Empty
  Values <- MCValues
  OutOfArea <- MCOutOfArea
  FailureLimit = 1
  Tasks <- TwoTasks
  Readings <- AddressReadings
  MaxFaqAnswers = 0
  BargesAgain = TRUE
  SubmitMayFail = FALSE
CHECK_DEADLOCK FALSE
INVARIANT OneEnding
PROPERTIES EndingsAreReached ImplementsLifecycle
