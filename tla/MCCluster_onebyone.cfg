SPECIFICATION FairClusterSpec
CONSTANTS
  N = 2
  R = 1
  W = 2
  StableVersions = TRUE
  ReadRepair = TRUE
  Requests <- WriteThenSwapIds
  Plan <- WriteThenSwap
  Scenarios <- AllAtOnce
  Keys = {"x"}
  Values = {1, 2, 3}
  None = None
  Faults = {"lose", "crash", "early"}
  MaxFaults = 2
INVARIANT TypeOK
INVARIANT Linearizable
INVARIANT RealTimeOrder
INVARIANT RefusedSwapLeavesNoTrace
PROPERTY PlansFinish
PROPERTY RoundsClose
