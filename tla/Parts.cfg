CONSTANTS
  Player = {p1, p2}
  Node = {n1}
  PoolSize = 2
  LeaseDuration = 1
  Quarantine = 3
  Retention = 1
  MaxSkew = 1
  MaxWait = 1
  MaxClock = 5
  Nobody = Nobody
  Renamed = Renamed
  Release = {1, 2}
  Digest = {1}
  Source = {1}
  Place = {1, 2}
  Transfer = {1}
  MaxImports = 2
  MaxEdits = 2
  MaxRevision = 2
  Peer = {peer}
  Port <- MCPort
  Sends <- MCSends
  Window = 2
  QueueLimit = 2
  FlowLimit = 1
  MaxSeq = 3
  MaxUpdates = 2
  Content = {"a", "b"}
  Largest = 4
  PartLimit = 3
  Relay = {1, 2}
  Latency = {2, 5}
  Wanted = 1
  Failures = 2
  RelayWindow = 1
  Hold = 2
  MaxRounds = 3
SPECIFICATION PartsSpec
CHECK_DEADLOCK FALSE
SYMMETRY Symmetry
INVARIANTS
  AddressExclusive
  RolloutInv
  RequiredCanUpdate
  LanInv
  OnlyInForce
  FragmentsInv
PROPERTIES
  QuarantineHolds
  SteadyAndHealthy
