SPECIFICATION Spec
CONSTANTS
  Sessions = {s1, s2}
  None = None
  Width = 2
  MaxCancels = 0
INVARIANTS OneChild
