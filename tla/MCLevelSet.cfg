SPECIFICATION Spec
CONSTANTS
  N = 5
  Slack = 2
  CSCInputs <- LowerMatrices
  DAGInputs <- NoInputs
INVARIANTS TypeOK LevelsRespectEdges ZeroInDegreeProcessed EveryNodeInOneLevel 
PROPERTY Terminates
CHECK_DEADLOCK FALSE
