SPECIFICATION Spec
CONSTANTS
  Turn = {t1, t2}
  Chunk <- Chunks
  MaxTurns = 2
  MaxSymbols = 6
  Ahead = 1
SYMMETRY Symmetric
CONSTRAINT Quiet
CHECK_DEADLOCK FALSE
INVARIANTS TypeOK PartsInOrder SavedAsShown ShowsVisible ToolCallsAnswered TurnsRemembered
