SPECIFICATION Spec
CONSTANTS
  Json <- SomeJson
  Within <- Occurs
  Length <- Lengths
  Digits <- Numerals
  Files <- ThreePaths
  Stem <- Stems
  Nothing = Nothing
  Contents <- Various
  Manifests <- AnyManifest
  Invocations <- Both
  Worlds <- SomeWorlds
  Claims <- SomeClaims
  References <- Fixed
INVARIANTS TypeOK SuiteExact ExitExact MissingNeverCounts StateDecides
