SPECIFICATION Spec
CONSTANTS
  Tests = {t1, t2}
  Workers = {w1, w2}
  NoTest = NoTest
  Env = {}
SYMMETRY WorkerSymmetry
PROPERTY
  ImplementsOneAtATime
