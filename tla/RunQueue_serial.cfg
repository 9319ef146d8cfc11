SPECIFICATION Spec
CONSTANTS
  Runs = {1, 2}
  Users = {u1, u2}
  NoRun = NoRun
  MaxAttempts = 2
  Faults = {"dispatch_error"}
SYMMETRY UserSymmetry
INVARIANTS
  TypeOK
  ExecutesInSlot
PROPERTY
  ImplementsOneAtATime
