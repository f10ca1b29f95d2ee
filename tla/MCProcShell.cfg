SPECIFICATION FairSpec
CONSTANTS
  k = k
  i = i
  a = a
  b = b
  c = c
  Gen <- Structs5
  KernelProc = k
  InitProc = i
  NULL = NULL
  MAX_PROCESSES = 4
  BeyondIsNull <- NotNull
  Creators <- InitOnly
  Waiters <- FirstTwo
  Uncounted <- InitOnly
  DeleteArgs <- Everyone
  WaitArgs <- Others
  May <- LoadsMayFail
INVARIANTS
  
  NoStrandedWaiter
PROPERTIES
  ExitWakesWaiters
  WaitReturnsOnExit
  ZombieReaped
