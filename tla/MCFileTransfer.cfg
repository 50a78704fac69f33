CONSTANTS
  ChunkCount = 3
  ChunksPerTick = 1
  ProgressStep = 2
  Attempts = 1
  Restarting = {"receiver"}
  MaxDisturbances = 1
SPECIFICATION FairSpec
INVARIANTS TypeOK CompletionIsEarned SkippedChunksWereWritten
PROPERTIES SendingEnds
CHECK_DEADLOCK FALSE
