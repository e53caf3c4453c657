SPECIFICATION ClusterSpec
CONSTANTS
  N = 2
  R = 1
  W = 2
  StableVersions = TRUE
  ReadRepair = TRUE
  Requests <- OneClientIds
  Plan <- OneClient
  Scenarios <- AllAtOnce
  Keys = {"x"}
  Values = {1, 2, 3}
  None = None
  Faults = {"ClientRequest"}
  MaxFaults = 1
INVARIANT Linearizable
