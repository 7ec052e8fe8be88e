\* two threads: only the collecting thread waits
SPECIFICATION Spec
CONSTANTS
  Threads = {t1, t2}
  Blocks = {b1, b2, b3}
  Nil = Nil
  None = None
  Fields = {f1}
  Statics = {}
  Locals = {}
  JitFrames = {}
  JitVars = {}
  JitTemps = {}
  StackDepth = 1
  Program = {"NEW_OBJ_INST"}
  Pools = {}
  Home <- NoHome
  PoolOf <- NoPools
  Size <- MCSize
  SizeFactor = 1
  POOL_SIZE = 0
  MEM_MAX = 1
  UNCOLLECTED_COUNT = 1
  COLLECTED_COUNT = 1
SYMMETRY BlockSymmetry
INVARIANTS NoDangling
