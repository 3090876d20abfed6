\* Two openings of the wizard with four edits each; three edits of a node; the
\* canvas with the stored definitions and elements up to the seventh.
SPECIFICATION BuilderSpec
CONSTANTS
  NoApp = NoApp
  NoAction = NoAction
  NoTools = NoTools
  Apps = {"github", "bannerbear", "slack"}
  MaxEdits = 4
  MaxSessions = 2
  CronTexts <- MCCronTexts
  MaxPatches = 3
  Definitions <- MCDefinitions
  NewTypes = {"if"}
  FirstId = 6
  MaxId = 7
INVARIANTS
  AddedIsConfigured
  ScheduleIsKept
  PanelShowsNode
  GraphIsWhole
  OpenedIsMigrated
PROPERTY
  TestEnds
\* A part stops at its bounds.
CHECK_DEADLOCK FALSE
