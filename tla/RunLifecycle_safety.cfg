\* One run, two steps of nodes or the manual one, two attempts of the status activities.
SPECIFICATION Spec
CONSTANTS
  Runs = {r1}
  Steps = {s1, s2, manual}
  Manual = manual
  Plans <- NodesOrNone
  NoStep = NoStep
  MaxAttempts = 2
SYMMETRY Symmetry
INVARIANTS
  SuccessWasExecuted
  StepsFollowTheirRun
  VerdictStands
PROPERTIES
  ClosedStepsStayClosed
  NeverReexecuted
  ImplementsRunStatus
\* Every run may be over and the flow deleted.
CHECK_DEADLOCK FALSE
