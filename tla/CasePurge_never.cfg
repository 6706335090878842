SPECIFICATION FairSpec
CONSTANTS
  Cases = {"a", "b"}
  Sources = {"shared", "own"}
  Links <- MCLinks
  Executors = {e1, e2}
  e1 = e1
  e2 = e2
  MaxDeletions <- MCMaxDeletions
  MaxToken = 2
  MaxFaults = 0
PROPERTY DueDeletionsEnd
CHECK_DEADLOCK FALSE
