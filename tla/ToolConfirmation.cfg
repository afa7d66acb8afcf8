SPECIFICATION Spec
CONSTANTS
  c1 = c1
  c2 = c2
  t1 = t1
  t2 = t2
  r1 = r1
  r2 = r2
  NoCall = NoCall
  Calls <- TwoCalls
  Turns <- TwoTurns
  Confirms <- TwoConfirms
  Backlog = 1
SYMMETRY Symmetry
INVARIANTS
  RunsOnce
  LateNeverRuns
  CardHasRow
PROPERTIES
  AnswerIsFinal
CHECK_DEADLOCK FALSE
