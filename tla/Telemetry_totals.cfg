SPECIFICATION FairSpec
CONSTANTS
  w1 = w1
  NoEntry = NoEntry
  Workers = {w1}
  Tests = {1, 2}
  VUs = 1
  MaxRecorded = 1
  MaxInFlight = 2
  Env <- AllEnv
INVARIANTS
  TypeOK
  FinalBatchIsWhole
  KeptApart
  CompletedIsExact
PROPERTIES
  TotalsConverge
