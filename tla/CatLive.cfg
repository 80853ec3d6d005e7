\* A namespace whose subscriptions are at their latest versions has nothing left to do.
CHECK_DEADLOCK FALSE
SPECIFICATION FairSpec
CONSTANTS
  Subs = {"s1"}
  MaxVersion = 3
  MaxPlans = 4
  MaxPlanCount = 2
  MaxDeletes = 5
  Manual = {}
  FailForward = FALSE
  Attenuated = TRUE
  Burst = TRUE
  UserDeletes = FALSE
  Crashes = FALSE
  CSVsFail = FALSE
  MaxFaults = 2
  SubLag = 1
  CSVLag = 0
  PlanLag = 0
PROPERTIES
  Converges
  OneVersionAtATime
