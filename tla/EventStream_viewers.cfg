SPECIFICATION FairSpec
CONSTANTS
  Viewers = {v1}
  NoEnd = NoEnd
  Buffer = 2
  MaxSample = 3
  Env <- AllEnv
INVARIANTS
  TypeOK
  SubscribersAreOpen
  SeenIsStored
  EndIsComplete
  EndIsTrue
PROPERTIES
  ImplementsFeed
  EveryViewerIsTold
CHECK_DEADLOCK FALSE
