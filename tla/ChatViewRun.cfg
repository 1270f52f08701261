SPECIFICATION Spec
CONSTANTS
  Commands <- TheCommands
  SlashBegins <- TheBegins
  Found <- TheFound
  WorkspaceTokens = {"w"}
  Pieces = {"text", "blank", "<think>"}
  Saved <- TheSaved
  Absent = {"retrieved"}
  MaxPieces <- TheSizes
  HistoryCap = 3
  MaxQueued = 0
  Scenarios <- TheScenarios
INVARIANT ViewInStep
PROPERTY PicksFit
CHECK_DEADLOCK FALSE
