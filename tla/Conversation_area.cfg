SPECIFICATION Spec
CONSTANTS
  v1 = v1
  v2 = v2
  Garbled = Garbled
  Empty = Empty
  Values <- MCValues
  OutOfArea <- MCOutOfArea
  Readings <- MCReadings
  Elusive <- MCElusive
  FailureLimit = 1
INVARIANT OutOfAreaNeverBooked
