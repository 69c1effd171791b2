SPECIFICATION Spec
CONSTANTS
  Handlers = {1, 2}
  fwd = fwd
  rev = rev
  Apex = Apex
  None = None
  za = za
  zb = zb
  n1 = n1
  n2 = n2
  x = x
  other = other
  Modulus = 16
  StartRows <- Rows
  StartRecords <- StartRecs
  Bodies <- SomeBodies
  TTLs = {1, 2}
  Files <- NearFiles
  Patches <- SomePatches
  Budgets <- Scenarios
INVARIANT UpToDateMeansCurrent
INVARIANT NoDanglingPTR
PROPERTY Propagates
CHECK_DEADLOCK FALSE
