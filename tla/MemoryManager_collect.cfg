\* one thread, objects and object arrays, class memory and stack
SPECIFICATION Spec
CONSTANTS
  Threads = {t1}
  Blocks = {b1, b2, b3}
  Nil = Nil
  None = None
  Fields = {f1}
  Statics = {s1}
  Locals = {}
  JitFrames = {}
  JitVars = {}
  JitTemps = {}
  StackDepth = 2
  Program = {"NEW_OBJ_INST", "NEW_INT_ARY"}
  Pools = {}
  Home <- NoHome
  PoolOf <- NoPools
  Size <- MCSize
  SizeFactor = 1
  POOL_SIZE = 0
  MEM_MAX = 1
  UNCOLLECTED_COUNT = 1
  COLLECTED_COUNT = 1
SYMMETRY BlockSymmetry
INVARIANTS TypeOK NoDangling MarkersOnHeap MarksCleared MarkIsExact NoLockCycle
