SPECIFICATION FairSpec
CONSTANTS
  Cases = {"a", "b"}
  Sources = {"shared", "own"}
  Links <- MCLinks
  Executors = {e1, e2}
  e1 = e1
  e2 = e2
  MaxDeletions <- MCMaxDeletions
  MaxToken = 2
  MaxFaults = 2
INVARIANT TypeOK
INVARIANT KeptCasesAreWhole
PROPERTY ImplementsRecoverableDeletion
PROPERTY DeletedObjectsLeave
CHECK_DEADLOCK FALSE
