\* Walks: cycles of three nodes, diamonds of four, two attempts, every failure
\* setting, no nodes.  Plans: all graphs of three nodes.
SPECIFICATION ExecutorSpec
CONSTANTS
  Flows <- AllFlows
  Size = 4
  NoNode = NoNode
INVARIANTS
  PlanIsSound
  ReachedIsExecuted
  MergeAfterInputs
  SuccessMeansHandled
PROPERTIES
  StepsCloseOnce
  ImplementsExecutor
  ActivityEnds
\* The activity ends.
CHECK_DEADLOCK FALSE
