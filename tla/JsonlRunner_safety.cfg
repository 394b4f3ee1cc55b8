SPECIFICATION Spec
CONSTANTS
  Keys <- TwoKeys
  Script <- Mixed
  Lines <- AllLines
  MaxLines = 2
  OutCap = 2
  RunSizes = {1, 2, 3}
  PipeCap = 1
  HighWater = 1
  Inherits = {"stdin", "stdout", "stderr"}
  MaxCancels = 2
INVARIANTS TypeOK ReturnedImpliesReaped FailureLeavesTrace CompletedMeansCleanTranscript EventsFollowReplies ScriptOnce
PROPERTIES SignalsInOrder TeardownReaps
