SPECIFICATION FairSpec
CONSTANTS
  Runs = {1, 2}
  Users = {u1}
  NoRun = NoRun
  MaxAttempts = 2
  Faults <- RecordedFaults
INVARIANTS
  SlotHeld
  SlotOwned
  RunningRowHoldsSlot
  RecordedHasSession
  DoneIsTerminal
PROPERTIES
  Finality
  EveryRunSettles
