SPECIFICATION Spec
CONSTANTS
  Sessions = {s1, s2, s3, s4}
  None = None
  Width = 1
  MaxCancels = 3
SYMMETRY Interchangeable
INVARIANTS TypeOK OneChild OwnChild LeftoverCostsOne
PROPERTIES EndsClean
