\* Two flows, one that parses and one that does not, two edits, two ticks.
SPECIFICATION Spec
CONSTANTS
  Flows = {f1, f2}
  Valid = {hourly}
  Invalid = {garbled}
  MaxTime = 2
  MaxEdits = 2
INVARIANT
  PlanIsInstalled
PROPERTIES
  OncePerTick
  SchedulesRun
\* The process may have exited.
CHECK_DEADLOCK FALSE
