CONSTANTS
  JobCount = 3
  Clusters = {"a", "b"}
  Cores = {1, 2, 3}
  ClusterOf <- MCClusterOf
  PutMayBlock = FALSE
SPECIFICATION FairSpec
INVARIANTS
  JobsConserved
  AnnouncedInOrder
  NoStrandedJob
PROPERTY
  EveryJobRuns
CHECK_DEADLOCK FALSE
