\* Two flows or one project, two pages or two requests at a time.
SPECIFICATION WebSpec
CONSTANTS
  Flows = {a, b}
  Untitled = Untitled
  NoFlow = NoFlow
  MaxEdits = 1
  MaxVisits = 2
  MaxSaves = 2
  MaxTokens = 3
  MaxRequests = 2
  Projects = {p}
  Personal = Personal
  NoList = NoList
  MaxFlows = 2
  MaxPages = 2
  MaxAsked = 2
  MaxRows = 3
  PageSizes = {1, 2}
  Owners = {"ann", "bob"}
SYMMETRY Alike
INVARIANTS
  SavedIsOwn
  CleanIsSaved
  RunStartsSaved
  EndedStaysEnded
  LandsWhereAsked
  ListIsCurrent
  PageHasRows
  DialogsAct
\* A part stops at its bounds.
CHECK_DEADLOCK FALSE
