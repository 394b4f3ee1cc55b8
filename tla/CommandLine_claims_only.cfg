SPECIFICATION Spec
CONSTANTS
  Json <- SomeJson
  Within <- Occurs
  Length <- Lengths
  Digits <- Numerals
  Files <- ThreePaths
  Stem <- Stems
  Nothing = Nothing
  Contents <- AllOutput
  Manifests <- Lists
  Invocations <- SuiteOnly
  Worlds <- SomeWorlds
  Claims <- SomeClaims
  References <- Fixed
INVARIANTS StateDecides
