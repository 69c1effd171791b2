\* One box, two mains at the same version.
CONSTANTS
  m1 = m1
  m2 = m2
  Mains = {m1, m2}
  Box = box
  None = None
  Ids = {1, 2}
  ZoneIds = {1}
  ma = ma
  mb = mb
  Matchers = {ma, mb}
  StartClients <- ByMain
  OwnClients <- Swapped
  SettingKeys = {"upstreams"}
  PairingMaxAttempts = 1
  MaxCodes = 1
  MaxPeers = 2
  MaxEvents = 2
  Spent <- OneSpent
SPECIFICATION FairSpec
INVARIANTS LevelMeansEqual TransferStateMatchesRecords
PROPERTIES EnteredBySpendingACode Converges
CHECK_DEADLOCK FALSE
