SPECIFICATION FairSpec
CONSTANTS
  Modulus = 8
  Targets = {t1}
  None = None
  MaxNotifyAttempts = 2
  Starts = {7}
  MaxEdits = 2
  MaxChanges = 1
  MaxFaults = 2
  t1 = t1
INVARIANTS
  RecordedWasHeard
  RoundIsBounded
PROPERTIES
  EveryTargetSettles
