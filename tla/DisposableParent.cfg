SPECIFICATION FairSpec
CONSTANTS
  r1 = r1
  r2 = r2
  Runs <- TwoRuns
  MaxSlots = 1
  MaxRecords = 1
INVARIANTS
  DeletedIsGone
  ParentsBounded
  LiveIsRecorded
PROPERTIES
  CancelledIsOver
  SlotsReturn
CHECK_DEADLOCK FALSE
