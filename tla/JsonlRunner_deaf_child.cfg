SPECIFICATION DeafSpec
CONSTANTS
  Keys <- OneKey
  Script <- NoScript
  Lines <- CaughtLines
  MaxLines = 1
  OutCap = 1
  RunSizes = {2}
  PipeCap = 1
  HighWater = 1
  Inherits = {}
  MaxCancels = 0
PROPERTIES TimeoutReaps
