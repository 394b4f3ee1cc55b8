SPECIFICATION FairSessionSpec
CONSTANTS
  Keys <- OneKey
  Script <- OneApproval
  Lines <- EachCourse
  MaxLines = 2
  OutCap = 2
  RunSizes = {1, 2, 3}
  PipeCap = 1
  HighWater = 1
  Inherits = {"stdin", "stdout", "stderr"}
  MaxCancels = 1
  Me = Me
  None = None
INVARIANTS EndsReaped
PROPERTIES ImplementsContract ImplementsSession SessionsEnd
