SPECIFICATION Spec
CONSTANTS
  UncondBase = 100
  LiteralBits = 10
  WordBits = 14
  Cases <- CompileCases
  ProgramOf <- ProgramOfCase
  Levels <- SomeLevels
INVARIANTS
  
  AcceptsSense
  RejectsNonsense
  KeepsMeaning
  KindsMatch
  CodeVerifies
