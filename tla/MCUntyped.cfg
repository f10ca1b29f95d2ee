SPECIFICATION Spec
CONSTANTS
  CNODE_SLOTS = 6
  BOT_LVL_PER_NODE = 1
  TOP_SLOTS = 4
  MAPPING_SLOTS = 1
  TableEntries = 3
  PageBits = 2
  NPages = 7
  StructuresPerPage = 3
  MaxReplies = 1
  MaxSpaces = 1
INVARIANTS
  SlotsApart
  FreeUnused
  
  StructuresMapped
CHECK_DEADLOCK FALSE
