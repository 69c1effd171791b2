\* One main, two replicas, two handlers at once.
CONSTANTS
  None = None
  m1 = m1
  m2 = m2
  tv = tv
  nas = nas
  Operators = {1, 2}
  Replicas = {1, 2}
  Reaching = {1}
  ScopeBodies <- Bodies
  ResBodies <- ResRows
  LeaseBodies <- Leases
  StartScopes <- TwoScopes
  StartReservations <- OneReservation
  LocalAddrs = {3}
  PageLimit = 1
  Budgets <- Scenarios
SPECIFICATION FairSpec
INVARIANTS OkMeansInForce PairIsTheEngines ReleasedStaysGone
PROPERTIES Converges StandbyAgrees
CHECK_DEADLOCK FALSE
