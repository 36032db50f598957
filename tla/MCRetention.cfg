CONSTANTS
  m1 = m1
  m2 = m2
  s1 = s1
  s2 = s2
  a1 = a1
  g1 = g1
  Artifacts <- OneArtifact
  Managers <- TwoManagers
  Sweepers <- TwoSweepers
  Gaps <- OneGap
  Trades <- OneTrade
  NamedByGap <- GapNames
  NamedByTrade <- TradeNames
  Targets <- OneTarget
  MaxDetails = 2
  MaxHolds = 2
  MaxCuts = 1
SPECIFICATION Spec
SYMMETRY Symmetry
INVARIANTS TypeOK HeldIsKept HoldsMatchTheirLog LedgerIsExact
PROPERTIES EvidenceIsKept
CHECK_DEADLOCK FALSE
