CONSTANTS
  m1 = m1
  m2 = m2
  s1 = s1
  s2 = s2
  a1 = a1
  g1 = g1
  Artifacts <- OneArtifact
  Managers <- TwoManagers
  Sweepers <- TwoSweepers
  Gaps <- None
  Trades <- None
  NamedByGap <- NoNames
  NamedByTrade <- NoNames
  Targets <- OneTarget
  MaxDetails = 2
  MaxHolds = 2
  MaxCuts = 0
SPECIFICATION Spec
SYMMETRY Symmetry
INVARIANTS HoldsProtect
CHECK_DEADLOCK FALSE
