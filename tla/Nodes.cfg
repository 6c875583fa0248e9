CONSTANTS
  Machine = {m1, m2}
  Key = {k1, k2}
  Port = {p1, p2}
  Orders = {"disable", "resume", "restart", "replace", "revoke"}
  MaxRevision = 3
  MaxFaults = 1
  MaxLate = 1
  Nobody = Nobody
SPECIFICATION Spec
CHECK_DEADLOCK FALSE
INVARIANTS
  NodeInv
  OutcomesTrue
  ReportsAccepted
PROPERTIES
  PortApproved
  EndsAreFinal
SYMMETRY Symmetry
