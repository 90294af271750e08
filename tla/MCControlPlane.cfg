CONSTANTS
  Cores = {"core1", "core2"}
  Tables = {"lpm", "exact"}
  BootCount = 2
  DebugCount = 4
  DebugTypes = {"Begin", "Insert", "End", "Delete"}
  Transactions = 1
  Rows = 2
  Answers <- MCAnswers
  AgentFirst = TRUE
SPECIFICATION FairSpec
INVARIANTS
  ConfirmedInstalled
  InsertedOnce
  LookupsAtomic
PROPERTY
  CommandsFinish
CHECK_DEADLOCK FALSE
