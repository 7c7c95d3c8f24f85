SPECIFICATION Spec
CONSTANTS
  Settings <- Defaults
  Spare = 1
  Task = {k1, k2}
  MaxTime = 6
  NoSummary = NoSummary
SYMMETRY Symmetric
PROPERTY ThresholdCompresses
