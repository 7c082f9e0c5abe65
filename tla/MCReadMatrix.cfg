SPECIFICATION Spec
CONSTANTS
  Garbage <- MCGarbage
  N = 3
  Files <- MCFiles
INVARIANTS StaysInArrays ReadAccepts KernelReady ReadExactNonEmpty
PROPERTY Terminates
CHECK_DEADLOCK FALSE
