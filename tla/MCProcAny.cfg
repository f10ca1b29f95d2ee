SPECIFICATION Spec
CONSTANTS
  k = k
  i = i
  a = a
  b = b
  c = c
  Gen <- Structs5
  KernelProc = k
  InitProc = i
  NULL = NULL
  MAX_PROCESSES = 4
  BeyondIsNull <- Unknown
  Creators <- FirstTwo
  Waiters <- FirstTwo
  Uncounted <- Second
  DeleteArgs <- AllSlots
  WaitArgs <- FirstTwoOrAny
  May <- AllLiberties
SYMMETRY Interchangeable
INVARIANTS
  TypeOK
  TableSound
  FileCallsKeepStruct
  ZombiesListed
\* SOS comes down in some of these behaviours.
CHECK_DEADLOCK FALSE
