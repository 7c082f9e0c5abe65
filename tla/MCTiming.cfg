SPECIFICATION Spec
CONSTANTS
  Programs <- BothPrograms
  Lists <- TheLists
  Headers <- TheHeaders
  IntMax = 15
  Unset <- UnsetInts
  DefaultRuns = 2
  Slots = 3
  Durations <- TwoDurations
INVARIANTS SlotsSuffice MediansTrue SolvesEndInOnes FactorsKeptApart WorkedThrough
PROPERTY Terminates
CHECK_DEADLOCK FALSE
