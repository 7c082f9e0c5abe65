SPECIFICATION Spec
CONSTANTS
  Undeclared = Undeclared
  KernelLists <- SharedLists
  MaxDeps = 3
INVARIANT VerdictSound
CHECK_DEADLOCK FALSE
