SPECIFICATION Spec
CONSTANTS
  Tests = {t1, t2}
  Workers = {w1}
  NoTest = NoTest
  Env = {"overlap", "stop", "lost_call", "slow_unwind"}
INVARIANTS
  TypeOK
  CompletedMeansFinished
  CurrentTestIsTrue
