SPECIFICATION Spec
CONSTANTS
  Nodes = {1, 2, 3}
  MaxCapacity = 4
  MaxTarget = 4
  IntMax = 4
INVARIANTS
  TypeOK
  PeakIsShared
  StageIsExact
  StageIsProportional
PROPERTY
  WithinCapacity
