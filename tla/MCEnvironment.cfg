SPECIFICATION Spec
CONSTANTS
  Undeclared = Undeclared
  DomVar = "i"
  RanVar = "j"
  MaxRules = 2
INVARIANTS InversesPaired MonotonicityAsserted DomainRangeExact
