\* Two nodes that may fail, both routed.
SPECIFICATION ExecutorSpec
CONSTANTS
  Flows <- TriggeredFlows
  Size = 4
  NoNode = NoNode
INVARIANT RoutedFailuresJump
CHECK_DEADLOCK FALSE
