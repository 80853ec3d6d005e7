SPECIFICATION FairSpec
CONSTANTS
  g1 = g1
  g2 = g2
  c1 = c1
  c2 = c2
  a = a
  All = All
  Groups = {g1, g2}
  CSVs = {c1, c2}
  APIs = {a}
  Namespaces = {g1, g2}
  GroupOf <- MCGroupOf
  Provides <- MCProvides
  Selections <- MCSelections
  MaxChanges = 1
  MaxResizes = 1
  StaticGroups = {g2}
  MaxFaults = 2
PROPERTIES OneOwner SomeOwner OwnerKept
