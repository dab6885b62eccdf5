SPECIFICATION Spec
CONSTANTS
  v1 = v1
  v2 = v2
  Garbled = Garbled
  Empty = Empty
  Values <- MCValues
  OutOfArea <- MCOutOfArea
  Readings <- MCReadings
  Elusive <- MCElusive
  FailureLimit = 2
INVARIANTS TypeOK BookedAsAgreed EndingIsConsistent HazardNeverBooks
INVARIANTS FailuresBelowLimit OneThingToSay
PROPERTIES ImplementsLifecycle NeitherShortNorPast
