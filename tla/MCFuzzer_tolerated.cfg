SPECIFICATION Spec
CONSTANTS
  Plans <- TwoSizes
  DefaultRest = "x,y"
  Verdicts <- AllVerdicts
  NTasks = 3
  ChunkSize = 2
  Workers = {v, w}
  NoChunk = NoChunk
  MaxSessions = 2
INVARIANT ToleratedIsRecorded
