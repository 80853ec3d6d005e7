\* A namespace whose newest CSV has settled has nothing left to do.
CHECK_DEADLOCK FALSE
SPECIFICATION FairSpec
CONSTANTS
  NoCSV = NoCSV
  CSVs = {"v1", "v2", "v3"}
  Replaces <- Replaces3
  FailForward = TRUE
  Overlap = TRUE
  UserDeletes = FALSE
  GetErrors = FALSE
  UpdateErrors = FALSE
  MaxFaults = 1
  MaxLag = 2
  NumWorkers = 2
INVARIANTS
  NoPanic
  OldestFirst
  ChainUnbroken
  CollectedAfterSuccess
PROPERTIES
  
  ImplementsChain
  UpgradeCompletes
