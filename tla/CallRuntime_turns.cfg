SPECIFICATION Spec
CONSTANTS
  t1 = t1
  t2 = t2
  t3 = t3
  v1 = v1
  v2 = v2
  oneParty = oneParty
  allParty = allParty
  old = old
  new = new
  Absent = Absent
  DPA_VERSION = new
  AREA_CODE_STATE <- MCAreaCodes
  ALL_PARTY_CONSENT_STATES <- MCAllParty
  Parties <- MCParties
  Garbled = Garbled
  Empty = Empty
  Values <- MCValues
  OutOfArea <- MCOutOfArea
  FailureLimit = 2
  Tasks <- ThreeTasks
  Readings <- PhoneReadings
  MaxFaqAnswers = 1
  BargesAgain = FALSE
  SubmitMayFail = TRUE
CHECK_DEADLOCK FALSE
SYMMETRY TaskSymmetry
INVARIANTS NoticeBeforeTape ConfirmedAsOffered ExpectsWhatIsOwed
