SPECIFICATION Spec
CONSTANTS
  Undeclared = Undeclared
  DomVar = "i"
  RanVar = "i"
  MaxRules = 2
INVARIANT DomainRangeExact
