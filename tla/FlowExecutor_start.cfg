\* The error trigger is the only trigger.
SPECIFICATION ExecutorSpec
CONSTANTS
  Flows <- UntriggeredFlows
  Size = 4
  NoNode = NoNode
INVARIANT ErrorTriggerNotAtStart
CHECK_DEADLOCK FALSE
