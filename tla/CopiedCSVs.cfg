SPECIFICATION FairSpec
CONSTANTS
  n1 = n1
  n2 = n2
  Own = Own
  All = All
  NoCopy = NoCopy
  Namespaces = {n1, n2}
  Protected = {n1}
  Selections <- MCSelections
  ProvidesAPIs = TRUE
  MaxChanges = 2
  MaxFaults = 1
PROPERTIES CopiesConverge ConditionSettles
