SPECIFICATION Spec
CONSTANTS
  Keys = {"event"}
  Files = {}
  Writers = {w1}
  Purgers = {p1}
  w1 = w1
  w2 = w2
  p1 = p1
  p2 = p2
  MaxToken = 2
  SlowDeletes = FALSE
INVARIANT ReplaySurvivesCrash
CHECK_DEADLOCK FALSE
