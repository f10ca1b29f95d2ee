SPECIFICATION Spec
CONSTANTS
  k = k
  i = i
  a = a
  b = b
  c = c
  Gen <- Structs4
  KernelProc = k
  InitProc = i
  NULL = NULL
  MAX_PROCESSES = 4
  BeyondIsNull <- NotNull
  Creators <- InitOnly
  Waiters <- Nobody
  Uncounted <- Others
  DeleteArgs <- Others
  WaitArgs <- Nobody
  May <- KillsBlocked
SYMMETRY Interchangeable4
INVARIANTS
  HandlersOutlived
\* SOS comes down in some of these behaviours.
CHECK_DEADLOCK FALSE
