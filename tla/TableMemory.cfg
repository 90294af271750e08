CONSTANTS
  Layout <- MCLayout
  Mapped = {"ClusterMemory"}
  Region <- MCRegion
  Word = 32
  Kinds = {"UnibitNode", "HashTableEntry", "MultibitNode", "LCNode"}
  Value = {0, 1}
  Untouched = 2
  NodeCount = 2
  CopyCount = 1
  CallCount = 1
  Cores = {"core0", "core1"}
  Core0 = "core0"
  QueueSize = 6
  Indeterminate = {6, 700}
  ChipWords = 8
  TableWords = 176
SPECIFICATION Spec
INVARIANTS
  BlocksApart
  ReadsBack
CHECK_DEADLOCK FALSE
