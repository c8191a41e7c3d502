SPECIFICATION Spec
CONSTANTS
  m1 = m1
  m2 = m2
  Msgs = {m1, m2}
  Processor = processor
  NumMX = 1
  MaxAttempts = 3
  BatchLimit = 1
  Silent = {}
  MaxCrashes = 0
  MaxFailures = 0
  MaxLate = 2
PROPERTIES
  ImplementsLiveQueue
  QueueDrains
CHECK_DEADLOCK FALSE
