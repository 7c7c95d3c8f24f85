SPECIFICATION ServerSpec
CONSTANTS
  Pair = {k1, k2, k3}
  Flight = {f1, f2}
  NoPair = NoPair
INVARIANT RotatedOnce
