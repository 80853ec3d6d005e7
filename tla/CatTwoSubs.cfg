\* A namespace whose subscriptions are at their latest versions has nothing left to do.
CHECK_DEADLOCK FALSE
SPECIFICATION Spec
CONSTANTS
  Subs = {"s1","s2"}
  MaxVersion = 1
  MaxPlans = 3
  MaxPlanCount = 1
  MaxDeletes = 1
  Manual = {}
  FailForward = FALSE
  Attenuated = FALSE
  Burst = FALSE
  UserDeletes = FALSE
  Crashes = TRUE
  CSVsFail = FALSE
  MaxFaults = 1
  SubLag = 0
  CSVLag = 0
  PlanLag = 0
INVARIANTS
  PendingHasPlan
  AtLatestIsInstalled
PROPERTIES
  SweepLosesNothing
