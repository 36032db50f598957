CONSTANTS
  BatchesOf <- AllKinds
  Invalid <- Rejects
  PartOf <- Partition
  MaxCommits = 4
  MaxCuts = 2
SPECIFICATION FairSpec
INVARIANTS TypeOK CatalogResolves CheckpointHasGaps ReturnedIsActive
PROPERTIES CommitsLikeALog RepeatsReturn
CHECK_DEADLOCK FALSE
