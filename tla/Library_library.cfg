SPECIFICATION Spec
CONSTANTS
  Room = 2
  Fail = Fail
  Nodes <- MCNodes
  Buckets = 2
  HashID <- MCHashID
  Digits = 3
  Patience = 4
  Classes <- MCClasses
  Elements <- MCElements
  Keys <- MCKeys
  Held <- MCHeld
  Arrays <- MCArrays
  Literals <- MCLiterals
  Texts <- MCTexts
  Letters <- MCLetters
  Numbers <- MCNumbers
  Longest = 4
  Length = 3
  MostPairs = 3
  HashKeys <- MCHashKeys
  ValueBound = 3
  KeyBound = 5
  NodeBound = 3
INVARIANTS
  
  StringsAgree
CHECK_DEADLOCK FALSE
