SPECIFICATION Spec
CONSTANTS
  Names <- MCNames
  Inverses <- InverseNames
  Library <- MCLibrary
  Meanings <- TheMeanings
  Box <- MCBox
  Wide <- MCWide
  MaxOps = 1
INVARIANTS UnionHoldsBoth
CHECK_DEADLOCK FALSE
