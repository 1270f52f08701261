SPECIFICATION HistorySpec
CONSTANTS
  Sources <- StructuredOnly
  MaxTurns = 3
  MaxRounds = 2
  MaxCallsPerReply = 2
INVARIANTS RequestsWellFormed AnsweredCallsSurvive TextSurvives
CHECK_DEADLOCK FALSE
