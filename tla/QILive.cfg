SPECIFICATION FairSpec
CONSTANTS
  Keys = {k1, k2}
  NoKey = NoKey
  Workers = {w1, w2}
  MaxRequeues = 1
  MaxVersion = 1
  MaxFailures = 2
  Failing = {k1}
  Stops = TRUE
  k1 = k1
  k2 = k2
  w1 = w1
  w2 = w2
INVARIANTS TypeOK OneWorkerPerKey NothingMissed NoLostWakeup
PROPERTIES ImplementsService EventuallySynced WorkersReturn
\* A stopped operator has nothing left to do.
CHECK_DEADLOCK FALSE
