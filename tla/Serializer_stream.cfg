SPECIFICATION Spec
CONSTANTS
  ByteBase = 16
  IntBytes = 2
  LongBytes = 4
  FloatBytes = 4
  InitialSize = 8
  Cases <- AllCases
INVARIANTS
  NumbersDistinct
  InStep
  RoundTrip
