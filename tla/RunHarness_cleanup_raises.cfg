SPECIFICATION Spec
CONSTANTS
  Faults = {"cleanup"}
  MaxCancels = 0
  MaxWrites = 1
INVARIANTS VerdictSurvivesCleanup
