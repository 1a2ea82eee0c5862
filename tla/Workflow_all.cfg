SPECIFICATION FairSpec
CONSTANTS
  Nodes <- FiveNodes
  Graphs <- AllGraphs
  MaxIterations = 2
INVARIANTS NoInternalError EndSettlesAll
PROPERTIES FlowSpec WorkflowEnds
CHECK_DEADLOCK FALSE
