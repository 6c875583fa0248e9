CONSTANTS
  MaxVersion = 2
  MaxFaults = 1
  MaxOffers = 1
  MaxManual = 1
SPECIFICATION Spec
CHECK_DEADLOCK FALSE
PROPERTIES
  NeverDowngrades
