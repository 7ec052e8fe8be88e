\* one thread: native activations, variables, C locals held across allocations, a pool
SPECIFICATION Spec
CONSTANTS
  Threads = {t1}
  Blocks = {b1, b2, b3}
  Nil = Nil
  None = None
  Fields = {f1}
  Statics = {}
  Locals = {v1}
  JitFrames = {j1}
  JitVars = {}
  JitTemps = {tmp}
  StackDepth = 1
  Program = {"NEW_OBJ_INST", "LOAD_MULTI_ARY_SIZE", "CreateStringObject"}
  Pools = {P}
  Home <- MCHome
  PoolOf <- MCPoolOf
  Size <- MCSize
  SizeFactor = 1
  POOL_SIZE = 2
  MEM_MAX = 1
  UNCOLLECTED_COUNT = 1
  COLLECTED_COUNT = 1
SYMMETRY PooledSymmetry
INVARIANTS NoDangling PoolsConserved 
