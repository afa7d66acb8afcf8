SPECIFICATION FairSpec
CONSTANTS
  p1 = p1
  c1 = c1
  c2 = c2
  Parents <- OneParent
  Children <- TwoChildren
  ParentOf <- TwoOfOne
  MaxActive = 1
  ChildBudget = 1
  MaxBudget = 2
INVARIANTS
  SlotsHeld
PROPERTIES
  CancelQuiesces
  SpawnReturns
CHECK_DEADLOCK FALSE
