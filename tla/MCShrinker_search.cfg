SPECIFICATION Spec
CONSTANTS
  Original <- Failing
  Decided <- Faults
  Runs <- SomeRuns
  Budget = 20
  Profiles <- OneProfile
  SearchSeeds = 1
  Keys = {"x", "y"}
  NoKey = NoKey
  NoSchedule = NoSchedule
  None = None
INVARIANT TypeOK
INVARIANT ReportIsOfOneRun
INVARIANT BudgetIsKept
INVARIANT NothingLeftToDelete
INVARIANT RebuiltIsReported
