CONSTANTS
  PacketCount = 5
  Ids <- MCIds
  NumContexts = 3
  ContextOf <- MCContextOf
  Clusters = {1}
  ClusterOf <- MCOneCluster
SPECIFICATION FairSpec
INVARIANTS
  NothingLost
  NoLostWakeup
PROPERTIES
  EventuallySent
  AbstractSpec
CHECK_DEADLOCK FALSE
