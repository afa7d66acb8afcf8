SPECIFICATION Spec
CONSTANTS
  r1 = r1
  r2 = r2
  t1 = t1
  t2 = t2
  Requests <- TwoRequests
  Tasks <- TwoTasks
  Minutes <- TwoMinutes
  MaxDue = 1
  MaxFaults = 1
SYMMETRY Symmetry
INVARIANTS
  OneRunPerMinute
PROPERTIES
  WorkerActsOnRecent
  SavesItsOwnTask
CHECK_DEADLOCK FALSE
