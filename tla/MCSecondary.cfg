SPECIFICATION Spec
CONSTANTS
  Modulus = 8
  Scheduled = Scheduled
  Forced = {f1}
  Operators = {o1, o2}
  None = None
  Refresh = 1
  Retry = 1
  Expire = 2
  Spread = 2
  Settings <- SomeSettings
  Starts = {7}
  SameMillis = FALSE
  MaxEdits = 1
  MaxPatches = 2
  MaxTime = 3
  Spent <- SomeSpent
  f1 = f1
  o1 = o1
  o2 = o2
SYMMETRY OperatorSymmetry
INVARIANTS
  SerialNamesRecords
  EditsSurviveTransfers
  NeverServedPastExpiry
PROPERTIES
  RetypedZoneIsLeftAlone
  ScheduleKeepsItsDistance
CHECK_DEADLOCK FALSE
