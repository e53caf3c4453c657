SPECIFICATION FairSpec
CONSTANTS
  Plans <- OtherKeys
  DefaultRest = "x,y"
  Verdicts <- SomeVerdicts
  NTasks = 3
  ChunkSize = 2
  Workers = {v, w}
  NoChunk = NoChunk
  MaxSessions = 2
INVARIANT TypeOK
INVARIANT WorkersDoNotMatter
INVARIANT FailuresAreKept
INVARIANT RedOnce
INVARIANT RecordedFailuresReproduce
PROPERTY ExploringEnds
