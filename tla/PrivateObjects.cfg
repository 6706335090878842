SPECIFICATION FairSpec
CONSTANTS
  Keys = {"event"}
  Files = {"file"}
  Writers = {w1, w2}
  Purgers = {p1, p2}
  w1 = w1
  w2 = w2
  p1 = p1
  p2 = p2
  MaxToken = 3
  SlowDeletes = FALSE
INVARIANT TypeOK
INVARIANT OwnedIsStored
INVARIANT Tracked
PROPERTY AbandonedIsDeleted
CHECK_DEADLOCK FALSE
