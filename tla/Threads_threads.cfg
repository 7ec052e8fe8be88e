\* programs that execute, join and lock, and the end of each
SPECIFICATION FairSpec
CONSTANTS
  Tids = {t0, t1, t2, t3}
  MainTid = t0
  o1 = o1
  o2 = o2
  m1 = m1
  m2 = m2
  Objects = {o1, o2}
  Main = Main
  Mutexes = {m1, m2}
  None = None
  Programs <- AllPrograms
CHECK_DEADLOCK FALSE
INVARIANTS TypeOK IdNamesRun MutualExclusion SectionsReleased RunsComplete
PROPERTIES ForksAndJoins ProgramEnds
