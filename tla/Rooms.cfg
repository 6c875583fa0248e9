CONSTANTS
  alice = alice
  bob = bob
  a1 = a1
  a2 = a2
  b1 = b1
  r1 = r1
  r2 = r2
  User = {alice, bob}
  Device = {a1, a2, b1}
  Room = {r1, r2}
  UserOf <- MCUserOf
  FirstGrant <- MCFirstGrant
  Capacity = 2
  Mac = {}
  RoomLife = 2
  InviteLife = 1
  GrantLife = 2
  Enforced = {a1}
  Suspended = {}
  Leasing = {}
  PoolSize = 2
  LeaseDuration = 1
  Quarantine = 2
  Retention = 0
  MaxSkew = 0
  MaxWait = 0
  MaxClock = 2
  Nobody = Nobody
  Renamed = Renamed
  Peer = {peer}
  EngineRoom = {"a", "b"}
  Life = 1
  MaxIssued = 2
  MaxChanges = 2
  EngineClock = 1
SPECIFICATION PartsSpec
INVARIANTS
  SeatsKept
  EngineInv
  RevokedKeepsNothing
PROPERTIES
  EndsAreFinalAndAnnounced
  RoomsClose
  MembersLeave
  AddressesFree
  RulesByRestart
