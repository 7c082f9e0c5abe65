SPECIFICATION Spec
CONSTANTS
  Undeclared = Undeclared
  KernelLists <- AllLists
  MaxDeps = 3
INVARIANTS VerdictSound VerdictComplete OneVerdictIfDecided EveryLoopJudged AllLoopsProcessed
PROPERTY Completes
CHECK_DEADLOCK FALSE
