SPECIFICATION Spec
CONSTANTS
  N = 4
  Matrices <- MCMatrixSet
  Value <- MCValue
  Vals <- MCVals
  Sqrt <- MCSqrt
  Div <- MCDiv
  MulSub <- MCMulSub
  Threads = {t1, t2, t3}
  Garbage = 0
  NoUpdate = NoUpdate
INVARIANTS TypeOK NoDataRace
PROPERTIES FactoredStable AbsSpec Terminates
CHECK_DEADLOCK FALSE
