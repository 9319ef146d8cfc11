SPECIFICATION FairSpec
CONSTANTS
  Tests = {t1}
  Workers = {w1, w2}
  NoTest = NoTest
  Env = {"lost_report", "lost_call"}
INVARIANT
  CompletedOnEveryWord
PROPERTIES
  EveryTestCompletes
  FleetComesToRest
