SPECIFICATION Spec
CONSTANTS
  Conv = {1, 2, 3}
  Text = {x, y}
  Limit = 1
  MaxTime = 2
  Turn = {t1, t2}
  Home = Home
  NoText = NoText
  NoData = NoData
  MaxMessages = 2
  MaxUsed = 2
SYMMETRY Symmetric
CONSTRAINT Apart
CHECK_DEADLOCK FALSE
INVARIANTS TypeOK PagesDescend NothingSkipped SentShown SentOnce NoForeignMessages StoreFollowsView ViewComplete
