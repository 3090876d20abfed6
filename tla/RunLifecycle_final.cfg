SPECIFICATION Spec
CONSTANTS
  Runs = {r1}
  Steps = {s1, manual}
  Manual = manual
  Plans <- NodesOrNone
  NoStep = NoStep
  MaxAttempts = 3
PROPERTY TerminalIsFinal
CHECK_DEADLOCK FALSE
