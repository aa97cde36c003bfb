CONSTANTS
  Names = {"a", "b", "c"}
  MaxSaves = 1
  Callers = {"tab1", "tab2"}
  MaxSessions = 4
  Namespaces = {"x", "y"}
  WorkflowNames = {"w"}
  ListSlots = {"interval"}
  MaxChanges = 2
  ResourcePhases = {"up", "gone"}
  MaxShown = 2
  MaxEvents = 4
  Sources = {"agent", "workflow"}
  MaxShownLines = 3
  MaxWritten = 2
  MaxRuns = 2
  Context = 1
  MaxLines = 7
SPECIFICATION MCSpec
CHECK_DEADLOCK FALSE
INVARIANTS
  CanvasIsDag
  UnsavedWorkIsFlagged
  SearchFindsEveryCycle
  LayoutFollowsDependencies
  AlwaysRenewable
  FeedsAreKept
  LastChangeIsReported
  LinesAreOfSource
  NothingWaitsUnseen
  OriginalIsRecovered
PROPERTY ShowsServerState
