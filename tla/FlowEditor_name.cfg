\* Opening flows, without a single edit.
SPECIFICATION FlowEditorSpec
CONSTANTS
  Flows = {a, b}
  Untitled = Untitled
  NoFlow = NoFlow
  MaxEdits = 0
  MaxVisits = 2
  MaxSaves = 0
INVARIANT
  OpenedIsTheFlow
\* The tab stays as it is.
CHECK_DEADLOCK FALSE
