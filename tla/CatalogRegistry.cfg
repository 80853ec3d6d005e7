SPECIFICATION FairSpec
CONSTANTS
  MaxPods = 6
  MaxChanges = 1
  MaxLag = 1
  MaxFaults = 1
PROPERTIES PollKeepsServing ServesLatest
