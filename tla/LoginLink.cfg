CONSTANTS
  Link = TRUE
  Browser = {b1, b2}
  Subject = {s1, s2}
  Known = {s1}
  Room = {r1}
  MaxFaults = 2
  MaxRevision = 2
SPECIFICATION FairSpec
CHECK_DEADLOCK FALSE
PROPERTIES
  LoginEnds
