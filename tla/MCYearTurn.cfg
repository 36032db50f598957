CONSTANTS
  BatchesOf <- OpenInterest
  Invalid <- Rejects
  PartOf <- Partition
  MaxCommits = 4
  MaxCuts = 2
SPECIFICATION Spec
INVARIANT ActiveIsCumulative
CHECK_DEADLOCK FALSE
