SPECIFICATION Spec
CONSTANTS
  Words <- TheWords
  Files <- TheFiles
  Opened = "a"
  Disks <- TheDisks
  Texts <- TheTexts
  Olds <- TheOlds
  News <- TheNews
  Pattern = "x"
  Binary = "z"
  MaxDiffLines = 4
  MaxGrepFiles = 1
  MaxGrepMatches = 2
  MaxGlobFiles = 2
  MaxHits = 1
  MaxCalls = 1
  MaxEdits = 2
INVARIANTS GrepComplete
PROPERTIES AcceptedIsDone CommandsSettle
CHECK_DEADLOCK FALSE
