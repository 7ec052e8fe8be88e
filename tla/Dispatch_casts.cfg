SPECIFICATION Spec
CONSTANTS
  NameOrder <- Names
  Worlds <- CastWorlds
  Threads = {1, 2}
  CallBound <- ThreadBound
INVARIANTS
  CastsAgree
CHECK_DEADLOCK FALSE
