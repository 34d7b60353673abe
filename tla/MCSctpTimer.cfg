SPECIFICATION Spec
CONSTANTS
  Chunks = 3
  ChunkLen <- LongShortLong
  FirstTsn = 1
  TsnRange = 131072
  MTU = 1400
  MaxCredits = 100000
  FastRetry = 3
  MaxCopies = 2
  MaxSacks = 2
  MaxPauses = 0
INVARIANTS
  TimerRuns
CHECK_DEADLOCK FALSE
