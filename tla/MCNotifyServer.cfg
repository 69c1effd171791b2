SPECIFICATION FairSpec
CONSTANTS
  Modulus = 8
  Handlers = {h1}
  Workers = {w1, w2}
  Scheduler = Scheduler
  None = None
  Starts = {7}
  MaxEdits = 1
  h1 = h1
  w1 = w1
  w2 = w2
INVARIANTS
  QuietIsCurrent
  NoWorkWhenDown
PROPERTIES
  CopyNeverOlder
  EveryNotifySeen
  ShutdownEnds
CHECK_DEADLOCK FALSE
