CONSTANTS
  a = a
  b = b
  c = c
  g = g
  Jobs = {a, b, c}
  Interactive = {a, b}
  Devices = {g}
  NoJob = NoJob
  AgeSteps = 2
  Droppers = TRUE
SPECIFICATION FairScheduler
INVARIANT OneBatchPerDevice
PROPERTIES GrantsInOrder NoStarvation
CHECK_DEADLOCK FALSE
