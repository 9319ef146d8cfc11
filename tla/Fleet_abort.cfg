SPECIFICATION Spec
CONSTANTS
  Tests = {t1}
  Workers = {w1}
  NoTest = NoTest
  Env = {"stop"}
INVARIANT
  StoppedIsAborted
