SPECIFICATION Spec
CONSTANTS
  m1 = m1
  m2 = m2
  Msgs = {m1, m2}
  Processor = processor
  NumMX = 2
  MaxAttempts = 2
  BatchLimit = 1
  Silent = {m1}
  MaxCrashes = 1
  MaxFailures = 1
  MaxLate = 1
INVARIANTS
  TypeOK
  NothingLost
  DuplicatesExplained
  SnapshotFresh
  NoRowStranded
PROPERTIES
  ImplementsQueue
  RowsLeaveResolved
CHECK_DEADLOCK FALSE
