SPECIFICATION Spec
CONSTANTS
  p1 = p1
  c1 = c1
  c2 = c2
  Parents <- OneParent
  Children <- TwoChildren
  ParentOf <- TwoOfOne
  MaxActive = 2
  ChildBudget = 2
  MaxBudget = 3
INVARIANTS
  BudgetConserved
  ReservationExact
  TurnLedgerExact
  QuiescenceExact
  FinalizedStaysEmpty
  ResultExact
PROPERTIES
  CancelStopsSpending
  TerminalIsFinal
  LedgerSpec
SYMMETRY Siblings
CHECK_DEADLOCK FALSE
