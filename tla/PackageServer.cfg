SPECIFICATION FairSpec
CONSTANTS
  Keys = {k1}
  Packages = {p1}
  NoSource = NoSource
  Gone = Gone
  MaxConns = 2
  MaxFaults = 1
  MaxAddress = 2
  MaxChanges = 1
  Deletes = TRUE
  Recreates = FALSE
PROPERTIES CacheConverges RemovedWatcherExits
\* A server whose only catalog is deleted has nothing left to do.
CHECK_DEADLOCK FALSE
