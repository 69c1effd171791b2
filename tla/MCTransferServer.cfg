SPECIFICATION Spec
CONSTANTS
  Modulus = 8
  Conns = {1, 2}
  Cap = 1
  Target = 4
  SigSize = 1
  None = None
  p1 = p1
  p2 = p2
  k1 = k1
  sync = sync
  Replicas <- Registered
  StartZones <- Firsts
  ZoneAt <- Published
  QuestionAt <- Asked
  MaxAsks = 2
  MaxReloads = 1
  MaxFaults = 1
INVARIANT EnvelopesCarryTheZone
INVARIANT NoLateClose
PROPERTY Implements
PROPERTY EveryAskEnds
CHECK_DEADLOCK FALSE
