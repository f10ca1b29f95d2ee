SPECIFICATION Spec
CONSTANTS
  frame_table_size = 14
  Buffers = 1
  MAX_PROCESSES = 4
  MaxHandled = 10
  NONE = NONE
  Pid <- TwoPids
  VPage <- VPages
  Node <- Nodes
  Path <- PathOf
  Order <- DestroyOrder
  Image <- Program
  Touched <- HeapPage
  Block <- MmapBlock
INVARIANTS
  FreeListExact
  
  TablesAgree
  
\* SOS comes down when every frame is taken.
CHECK_DEADLOCK FALSE
