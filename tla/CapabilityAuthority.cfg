SPECIFICATION FairSpec
CONSTANTS
  p1 = p1
  c1 = c1
  c2 = c2
  Parents <- OneParent
  Clients <- TwoClients
  ParentOf <- AllOfOne
  MaxPerRun = 1
  MaxGlobal = 1
INVARIANTS
  ConnectionsExact
  HandlersOwned
  ClosedIsQuiet
PROPERTIES
  RevokedGetsNothing
  HandlersEnd
CHECK_DEADLOCK FALSE
