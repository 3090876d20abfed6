\* Every node continues on failure.
SPECIFICATION ExecutorSpec
CONSTANTS
  Flows <- LenientFlows
  Size = 4
  NoNode = NoNode
INVARIANT ErrorsContinue
CHECK_DEADLOCK FALSE
