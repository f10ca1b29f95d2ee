SPECIFICATION FairSpec
CONSTANTS
  Proc = {p1, p2}
  Name <- SomeNames
  Existing <- OnServer
  Exec <- Programs
  Unopenable <- Locked
  Refused <- Nothing
  MaxFd = 2
  Disciplined = TRUE
  MaxVnodes = 3
  MaxHandles = 5
INVARIANTS
  HandlesSound
  HandlersCounted
PROPERTIES
  CallsReturn
  KilledGoes
\* The bounds on vnodes and handles stop the model.
CHECK_DEADLOCK FALSE
