SPECIFICATION FairSpec
CONSTANTS
  Runs = {1}
  Users = {u1, u2}
  NoRun = NoRun
  MaxAttempts = 2
  Faults <- AllFaults
PROPERTY
  SlotReleased
