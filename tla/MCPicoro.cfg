SPECIFICATION Spec
CONSTANTS
  Coro = {c1, c2, c3, c4, c5}
  First = First
  NULL = NULL
INVARIANTS
  ResumableIsExact
  ListsDisjoint
PROPERTIES
  IdleStaysNonEmpty
  ImplementsApi
