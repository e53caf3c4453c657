SPECIFICATION ClusterSpec
CONSTANTS
  N = 2
  R = 1
  W = 2
  StableVersions = TRUE
  ReadRepair = TRUE
  Requests <- RacesAndReadsIds
  Plan <- RacesAndReads
  Scenarios <- RacesOrReads
  Keys = {"x"}
  Values = {1, 2, 3}
  None = None
  Faults = {"lose"}
  MaxFaults = 1
INVARIANT Linearizable
INVARIANT RealTimeOrder
INVARIANT NoFaultNoDoubt
INVARIANT StampIdentifiesValue
