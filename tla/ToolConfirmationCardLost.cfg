SPECIFICATION Spec
CONSTANTS
  c1 = c1
  c2 = c2
  t1 = t1
  t2 = t2
  r1 = r1
  r2 = r2
  NoCall = NoCall
  Calls <- TwoCalls
  Turns <- OneTurn
  Confirms <- TwoConfirms
  Backlog = 1
INVARIANTS
  CardIsShown
CHECK_DEADLOCK FALSE
