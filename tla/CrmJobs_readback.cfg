SPECIFICATION JobSpec
CONSTANTS
  MaxTouches = 2
  Outages <- MCOutages
CHECK_DEADLOCK FALSE
INVARIANTS CorrectionsAreTheContractors SurvivalIsTold
