SPECIFICATION Spec
CONSTANTS
  a = a
  b = b
  h = h
  c1 = c1
  c2 = c2
  c3 = c3
  None = None
  Clients <- TwoClients
  Checks <- OneCheck
  Containers <- Ids
  PoolMin = 1
  PoolMax = 2
SYMMETRY Interchangeable
INVARIANTS
  QueueIsIdle
  OwnedOnce
  GrantedClean
  LockHeldAtWork
CHECK_DEADLOCK FALSE
