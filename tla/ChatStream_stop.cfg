SPECIFICATION Spec
CONSTANTS
  Turn = {t1}
  Chunk <- Chunks
  MaxTurns = 1
  MaxSymbols = 2
  Ahead = 1
CHECK_DEADLOCK FALSE
INVARIANT ReplySaved
