SPECIFICATION FairSpec
CONSTANTS
  p1 = p1
  c1 = c1
  c2 = c2
  Parents <- OneParent
  Children <- TwoChildren
  ParentOf <- TwoOfOne
  MaxActive = 2
  ChildBudget = 1
  MaxBudget = 1
PROPERTIES
  CancelReturns
CHECK_DEADLOCK FALSE
