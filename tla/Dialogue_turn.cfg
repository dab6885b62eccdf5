SPECIFICATION Spec
CONSTANTS
  Null = Null
  Empty = Empty
  Garbled = Garbled
  NoReply = NoReply
  Values <- MCValues
  OutOfArea <- MCOutOfArea
  FailureLimit = 2
  OutdoorTempF = {20}
  Hours <- MCHours
  UtcOffset <- MCUtcOffset
  Now <- MCNow
  Says <- MCSays
  Failures <- MCFailures
  Objects <- MCObjects
  GeocoderAnswers <- MCGeocoderAnswers
  FaqIndex <- MCFaqIndex
  Score <- MCScore
  Selections <- MCSelections
  Tenant = "ours"
  MaxFaqAnswers = 1
  Kept <- MCKept
  Stated <- MCStated
  PlainYeses <- MCPlainYeses
CHECK_DEADLOCK FALSE
INVARIANTS CardsAndOnlyCards WorstHazardActs SpokenIsCommitted WindowsAreStaffed
PROPERTIES FailuresAreChargedFairly
