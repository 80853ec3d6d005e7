SPECIFICATION FairSpec
CONSTANTS
  Keys = {a}
  Callers = {r1, r2}
  Capacity = 1
  MaxHeaders = 3
  MaxChannels = 4
  MaxReconnects = 2
  MaxFaults = 1
INVARIANTS OneFetchPerCatalog ResultComplete NoDoubleClose
PROPERTIES CallsReturn EventuallyCurrent
