SPECIFICATION NativeSpec
CONSTANTS
  UncondBase = 100
  LiteralBits = 10
  WordBits = 14
  Cases <- NativeCases
  ProgramOf <- NativeProgram
  Levels <- NativeLevels
  ProcessIntFold <- IntFold
  NativeSets <- NativeChoices
  CollectedLevels = {0}
  MaxCollections = 2
INVARIANTS
  NativeAgrees
  NoAlias
  LabelsAgree
