SPECIFICATION FairSpec
CONSTANTS
  Faults <- AnyCall
  MaxCancels = 2
  MaxWrites = 2
INVARIANTS TypeOK StaleVerdictIsFlagged CompletedIsEarned ObservedBeforeRelease VerdictLostOnlyByCleanup IncompatibleScoredIsFlagged
PROPERTIES ImplementsLifecycle RunsAnswered
