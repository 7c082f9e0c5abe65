SPECIFICATION Spec
CONSTANTS
  Names <- MCNames
  Inverses <- InverseNames
  Library <- MCLibrary
  Meanings <- TheMeanings
  Box <- MCBox
  Wide <- MCWide
  MaxOps = 3
INVARIANTS TypeOK NothingLost NothingGained FunctionsAreFunctions
CHECK_DEADLOCK FALSE
