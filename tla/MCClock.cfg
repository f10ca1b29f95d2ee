SPECIFICATION FairSpec
CONSTANTS
  Client = {p1, p2, p3}
  NoClient = NoClient
  TICK = 3
  US_IN_MS = 1
  INT_MAX = 127
  WORD = 1024
  Msecs <- SomeMsecs
  Periods <- SomePeriods
  MaxJobs = 4
  LastCall = 4
  MaxTime = 12
INVARIANTS
  NeverOverdue
  CallbackFindsSleeper
PROPERTIES
  WokenInItsPeriod
  LinkedSleeperWakes
\* The uptime bound MaxTime stops the model.
CHECK_DEADLOCK FALSE
