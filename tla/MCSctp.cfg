SPECIFICATION FairSpec
CONSTANTS
  Chunks = 3
  ChunkLen <- LongShortLong
  FirstTsn = 1
  TsnRange = 131072
  MTU = 1400
  MaxCredits = 100000
  FastRetry = 2
  MaxCopies = 1
  MaxSacks = 2
  MaxPauses = 2
INVARIANTS
  TypeOK
  NoSkip
  ExactlyOnce
  NothingForgotten
  WindowConserved
  NoStuckSend
PROPERTIES
  AllArrive
CHECK_DEADLOCK FALSE
