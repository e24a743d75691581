SPECIFICATION Spec
CONSTANTS
  DepthLimit = 3
  Contexts <- MCContexts
  MaxRows = 5
  Plans <- MCPlans
INVARIANTS
  FirstFaultDecides
  NodesInOrder
  FindingsInOrder
  MisestimatesExact
CHECK_DEADLOCK FALSE
