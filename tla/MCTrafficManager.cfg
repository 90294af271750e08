CONSTANTS
  PacketCount = 6
  Priorities = 2
  PriorityOf <- MCPriorityOf
  Settings <- MCSettings
  Weights <- MCWeights
  MaxBuffer = 2
SPECIFICATION FairSpec
INVARIANTS
  Conserved
  FifoPerPriority
PROPERTY
  EverySent
CHECK_DEADLOCK FALSE
