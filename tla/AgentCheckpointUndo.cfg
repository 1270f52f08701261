SPECIFICATION CheckpointSpec
CONSTANTS
  old = old
  new = new
  command1 = command1
  Files <- MCFiles
  Created <- MCCreated
  Commands <- MCCommands
  NonUtf8 <- MCBinary
  ReadsFail = TRUE
  TurnsFail = TRUE
  UserEdits = TRUE
  MaxAgentTurns = 2
  MaxWrites = 3
INVARIANTS CheckpointTypeOK SnapshotsPredateTurn EveryWriteCaptured
PROPERTIES RevertUndoes
CHECK_DEADLOCK FALSE
