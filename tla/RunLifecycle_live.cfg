SPECIFICATION FairSpec
CONSTANTS
  Runs = {r1}
  Steps = {s1, manual}
  Manual = manual
  Plans <- SomeStep
  NoStep = NoStep
  MaxAttempts = 2
PROPERTIES
  EverythingEnds
  RunsSettle
CHECK_DEADLOCK FALSE
