SPECIFICATION Spec
CONSTANTS
  NameOrder <- Names
  Worlds <- AllWorlds
  Threads = {1, 2}
  CallBound <- ThreadBound
INVARIANTS
  ReferencesKept
  CastsAgree
  CallsBind
  BoundToNearest
CHECK_DEADLOCK FALSE
