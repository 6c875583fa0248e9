CONSTANTS
  c1 = c1
  c2 = c2
  k1 = k1
  Command = {c1, c2}
  Key = {k1}
  KeyOf <- MCKeyOf
  Lead <- MCLead
  Window = 2
  MaxWait = 1
  Tolerance = 1
  MaxRuns = 2
  MaxClock = 2
  NoCommand = NoCommand
  Room = {"r1"}
  noRoom = noRoom
  MaxJoins = 1
  MaxRoster = 1
  NetworkFaults = 1
  Browser = {"b1", "b2"}
  Subject = {"s1", "s2"}
  Known = {"s1"}
  LoginRoom = {"r1", "r2"}
  LoginFaults = 1
  MaxRevision = 2
  MaxVersion = 2
  JobFaults = 1
  MaxOffers = 1
  MaxManual = 1
  WindowsUser = {"owner1", "owner2"}
  nobody = nobody
  MaxPackage = 2
  MaxAdapters = 2
  SetupFaults = 1
SPECIFICATION PartsSpec
CHECK_DEADLOCK FALSE
INVARIANTS
  OnceInTime
  OneMeaningPerKey
  NetworkInv
  LoginInv
  JobInv
  SetupInv
PROPERTIES
  PendingEnds
  Reconnects
  AccountsKept
  SetupSteps
  LoginEnds
  InterruptedEnds
