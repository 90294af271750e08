CONSTANTS
  Threads = {1, 2}
  Counts = {1, 2}
  NoThread = 0
  Tokens = 16
  JobCount = 4
  ReadCount = 2
SPECIFICATION FairSpec
INVARIANTS
  JobsConserved
  NothingMissed
PROPERTIES
  LoneThreadFinishes
CHECK_DEADLOCK FALSE
