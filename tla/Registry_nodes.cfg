SPECIFICATION FairSpec
CHECK_DEADLOCK FALSE
CONSTANTS
  n1 = n1
  n2 = n2
  n3 = n3
  NoNode = NoNode
  Nodes = {n1, n2, n3}
  Old = {n2, n3}
  Points = {1, 2, 3, 4, 5, 6}
  Virtual <- SharedPoints
  MaxAttempts = 3
  MaxRestarts = 2
  Env <- AllEnv
INVARIANTS
  TypeOK
  RingIsCovered
  ToldMeansListed
PROPERTIES
  MovesOnlyItsOwn
  StatusConverges
