CONSTANTS
  c1 = c1
  c2 = c2
  NoCommand = NoCommand
  FirstKind = "enter"
  SecondKind = "manage"
  Devices = 1
  Command = {c1}
  KindOf <- MCKindOf
  Held = {}
  Revocable = {}
  Window = 2
  Lag = 0
  MaxClock = 2
SPECIFICATION Spec
CHECK_DEADLOCK FALSE
INVARIANTS
  SucceededMeansApplied
