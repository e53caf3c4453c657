SPECIFICATION ClusterSpec
CONSTANTS
  N = 3
  R = 2
  W = 2
  StableVersions = TRUE
  ReadRepair = TRUE
  Requests <- MajorityIds
  Plan <- Majority
  Scenarios <- AllAtOnce
  Keys = {"x"}
  Values = {1, 2, 3}
  None = None
  Faults = {"lose", "ReadRequest", "ReadReply", "WriteRequest", "WriteAck", "ClientReply"}
  MaxFaults = 1
INVARIANT RealTimeOrder
INVARIANT AnsweredIsDurable
PROPERTY StoreNeverGoesBack
