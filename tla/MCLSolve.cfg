SPECIFICATION Spec
CONSTANTS
  N = 4
  Matrices <- MCMatrixSet
  Value <- MCValue
  Rhs <- MCRhs
  Lx <- MCLx
  Div <- MCDiv
  MulSub <- MCMulSub
  Threads = {t1, t2, t3}
  Garbage = 0
INVARIANTS TypeOK NoDataRace
PROPERTIES SolvedPrefixStable AbsSpec Terminates
CHECK_DEADLOCK FALSE
