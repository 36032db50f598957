CONSTANTS
  w1 = w1
  w2 = w2
  Writers <- TwoWriters
  Days <- OneDay
  Seconds <- TwoLengths
  MaxCommits = 2
  MaxCuts = 2
  MaxPlans = 2
SPECIFICATION Spec
SYMMETRY Symmetry
INVARIANTS TypeOK TwoWritersNeedATheft MinuteSurvives DeletionsAreLedgered CatalogResolvesUntilRetention
CHECK_DEADLOCK FALSE
