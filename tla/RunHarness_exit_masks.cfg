SPECIFICATION Spec
CONSTANTS
  Faults = {"adapterExit"}
  MaxCancels = 0
  MaxWrites = 1
INVARIANTS IncompatibleNeverScored
