SPECIFICATION FairSpec
CONSTANTS
  People = {"ann", "bea"}
  Deleted = {"ann"}
  Workers = {w1, w2}
  w1 = w1
  w2 = w2
  Cycles = {"c1", "c2"}
  MaxChanges = 1
  MaxFaults = 1
INVARIANT TypeOK
INVARIANT PurgedStaysOut
PROPERTY SteadyStayActive
PROPERTY IndexConverges
