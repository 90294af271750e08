CONSTANTS
  PacketCount = 3
  Ids <- MCIds
  NumContexts = 3
  ContextOf <- MCContextOf
  Clusters = {1, 2}
  ClusterOf <- MCTwoClusters
SPECIFICATION Spec
INVARIANT NothingLost
CHECK_DEADLOCK FALSE
