SPECIFICATION FairSpec
CONSTANTS
  Proc = {p1, p2}
  None = None
  BufferSize = 4
  ReadLen <- ReadLengths
  WriteLen <- WriteLengths
  Space = 2
  Overhead = 1
  OutMax = 8
  Disciplined = TRUE
  MaxTyped = 5
  MaxBurst = 3
INVARIANTS
  ReaderKnown
  ReadsFresh
  SentOnce
PROPERTIES
  LineDelivered
\* Both processes may be gone and all the characters typed.
CHECK_DEADLOCK FALSE
