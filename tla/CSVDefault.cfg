\* A namespace whose newest CSV has settled has nothing left to do.
CHECK_DEADLOCK FALSE
SPECIFICATION Spec
CONSTANTS
  NoCSV = NoCSV
  CSVs = {"v1", "v2"}
  Replaces <- Replaces2
  FailForward = FALSE
  Overlap = TRUE
  UserDeletes = TRUE
  GetErrors = TRUE
  UpdateErrors = TRUE
  MaxFaults = 2
  MaxLag = 2
  NumWorkers = 2
PROPERTIES
  UpgradeStrategy
