SPECIFICATION Spec
CONSTANTS
  Modes <- BothModes
  Legacy <- OldChat
  MaxPanels = 1
  MaxTurns = 2
  MaxIds = 2
  MaxSessions = 2
  MaxHistory = 6
INVARIANTS StorageInStep AgentAsksItsOwnQuestion AnswersSaved
PROPERTIES SwitchSavesConversation
CHECK_DEADLOCK FALSE
