CONSTANTS
  c1 = c1
  c2 = c2
  NoCommand = NoCommand
  Devices = 1
  Command = {c1, c2}
  KindOf <- MCKindOf
  Held = {}
  Revocable = {}
  Window = 2
  Lag = 1
  MaxClock = 2
SPECIFICATION PartsSpec
CHECK_DEADLOCK FALSE
INVARIANTS
  LedgerInv
  OutcomesTrue
  AccountsInv
PROPERTIES
  WritesImplemented
