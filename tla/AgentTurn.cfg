SPECIFICATION FairSpec
CONSTANTS
  c1 = c1
  c2 = c2
  Actions <- TwoActions
  Children <- TwoChildren
  ParentOf <- BothFirst
  ChildBudget = 2
  MaxTokens = 4
  MaxIterations = 2
  MaxErrors = 1
  MaxCalls = 1
  MaxCancels = 2
INVARIANTS
  NothingOutlivesAction
  ChargesAccepted
  SuccessIsClean
PROPERTIES
  ScriptEnds
CHECK_DEADLOCK FALSE
