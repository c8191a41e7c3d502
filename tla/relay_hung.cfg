SPECIFICATION Spec
CONSTANTS
  m1 = m1
  m2 = m2
  Msgs = {m1, m2}
  Processor = processor
  NumMX = 1
  MaxAttempts = 2
  BatchLimit = 1
  Silent = {m1}
  MaxCrashes = 0
  MaxFailures = 0
  MaxLate = 1
PROPERTIES
  QueueDrains
CHECK_DEADLOCK FALSE
