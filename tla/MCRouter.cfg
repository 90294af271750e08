CONSTANTS
  lookuptables <- MCLookuptables
  Bound <- MCBound
  Flows <- MCFlows
  FifoSize = 1
  InFlight = 3
SPECIFICATION NetworkSpec
CHECK_DEADLOCK FALSE

INVARIANTS
  RightModule

PROPERTIES
  InOrder
  Arrives
