CONSTANTS
  User = {u1, u2}
  Nobody = Nobody
  TornWrites = TRUE
  MaxVersion = 2
  MaxAdapters = 2
  MaxFaults = 2
SPECIFICATION Spec
CHECK_DEADLOCK FALSE
INVARIANTS
  Repairable
