CONSTANTS
  c1 = c1
  k1 = k1
  Command = {c1}
  Key = {k1}
  KeyOf <- MCKeyOf
  Lead <- MCLead
  Window = 2
  MaxWait = 1
  Tolerance = 1
  MaxRuns = 2
  MaxClock = 3
  NoCommand = NoCommand
SPECIFICATION Spec
INVARIANTS
  TolerableClockServed
