SPECIFICATION Spec
CONSTANTS
  Runs = {1, 2}
  Users = {u1}
  NoRun = NoRun
  MaxAttempts = 2
  Faults = {}
INVARIANT
  CancelledNeverExecutes
