SPECIFICATION Spec
CONSTANTS
  Settings <- MCSettings
  Spare = 1
  Task = {k1, k2}
  MaxTime = 6
  NoSummary = NoSummary
SYMMETRY Symmetric
INVARIANTS NothingForgotten RecentKept
