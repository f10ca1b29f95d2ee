SPECIFICATION Spec
CONSTANTS
  Word = 32
  Proc = {p1, p2, p3}
  Page = 2
  MMAP_BOT = 2
  MMAP_TOP = 18
  Programs <- SomePrograms
  StackTop = 22
  StackSize = 4
  BufTop = 14
  BufSize = 2
  IpcBuffer = 8
  Disciplined = TRUE
  MaxFrames = 8
SYMMETRY AnyOrder
INVARIANTS
  RegionsApart
  FilesKept
  RunningCovered
\* The leaked frames reach their bound, or SOS has stopped.
CHECK_DEADLOCK FALSE
