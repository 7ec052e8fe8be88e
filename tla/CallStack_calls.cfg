\* one thread with interpreted and native calls, recursion, calls from C; or two
SPECIFICATION Spec
CONSTANTS
  Threads = {t1, t2}
  main = main
  leaf = leaf
  nat = nat
  rec = rec
  main2 = main2
  nat2 = nat2
  low = low
  low2 = low2
  Methods = {main, leaf, nat, rec, main2, nat2, low, low2}
  Entries <- MCEntries
  Code <- MCCode
  Compilable = {nat, nat2}
  Frames = {f1, f2, f3, f4, f5, f6}
  Interps = {i1, i2, i3}
  Natives = {a1, a2}
  None = None
  CALL_STACK_SIZE = 2
  CACHED = 1
  MORE = 1
  CACHE_MAX = 1
SYMMETRY AddressSymmetry
CHECK_DEADLOCK FALSE
INVARIANTS TypeOK FramesConserved ScanIsExact
PROPERTIES ReturnsToCaller
