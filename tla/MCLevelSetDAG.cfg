SPECIFICATION Spec
CONSTANTS
  N = 3
  Slack = 1
  CSCInputs <- NoInputs
  DAGInputs <- SimplifiedGraphs
INVARIANT ZeroInDegreeProcessed
CHECK_DEADLOCK FALSE
