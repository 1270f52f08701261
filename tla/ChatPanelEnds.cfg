SPECIFICATION FairSpec
CONSTANTS
  Modes <- AgentOnly
  Legacy <- NoOldChat
  MaxPanels = 2
  MaxTurns = 2
  MaxIds = 2
  MaxSessions = 2
  MaxHistory = 4
INVARIANTS WaitsOnOpenPanel
PROPERTIES TurnsEnd
CHECK_DEADLOCK FALSE
