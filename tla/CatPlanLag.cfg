\* A namespace whose subscriptions are at their latest versions has nothing left to do.
CHECK_DEADLOCK FALSE
SPECIFICATION Spec
CONSTANTS
  Subs = {"s1"}
  MaxVersion = 2
  MaxPlans = 2
  MaxPlanCount = 2
  MaxDeletes = 5
  Manual = {"s1"}
  FailForward = TRUE
  Attenuated = TRUE
  Burst = FALSE
  UserDeletes = TRUE
  Crashes = TRUE
  CSVsFail = TRUE
  MaxFaults = 1
  SubLag = 1
  CSVLag = 1
  PlanLag = 1
INVARIANTS
  TypeOK
  UniqueGeneration
  CompleteMeansApplied
  PendingHasPlan
PROPERTIES
  ApprovalRespected
  NeverGoesBack
