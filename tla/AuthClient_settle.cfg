SPECIFICATION FairSpec
CONSTANTS
  Pair = {k1, k2}
  Flight = {f1}
  Call = {c1, c2}
  NoPair = NoPair
INVARIANTS TypeOK SessionAlive LoggedOutStaysOut
PROPERTY CallsSettle
