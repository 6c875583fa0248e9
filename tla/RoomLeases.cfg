CONSTANTS
  alice = alice
  bob = bob
  a1 = a1
  b1 = b1
  r1 = r1
  User = {alice, bob}
  Device = {a1, b1}
  Room = {r1}
  UserOf <- MCUserOf
  FirstGrant <- MCFirstGrant
  Capacity = 2
  Mac = {1}
  RoomLife = 1
  InviteLife = 1
  GrantLife = 2
  Enforced = {}
  Suspended = {}
  Leasing = {b1}
  PoolSize = 2
  LeaseDuration = 1
  Quarantine = 2
  Retention = 0
  MaxSkew = 0
  MaxWait = 1
  MaxClock = 2
  Nobody = Nobody
  Renamed = Renamed
SPECIFICATION Spec
INVARIANTS
  RoomInv
  BannedStayOut
PROPERTIES
  PoolImplemented
