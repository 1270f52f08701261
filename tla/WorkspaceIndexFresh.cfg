SPECIFICATION Spec
CONSTANTS
  f1 = f1
  f2 = f2
  a = a
  b = b
  m1 = m1
  m2 = m2
  j1 = j1
  j2 = j2
  r1 = r1
  Files <- TwoFiles
  Texts <- TwoTexts
  Models <- OneModel
  Jobs <- TwoJobs
  Readers <- OneReader
  Indexed = FALSE
  Outside = FALSE
  EmbedsFail = TRUE
  Reloads = TRUE
  Torn = TRUE
  Blanks = {}
INVARIANTS FreshWhenQuiet
PROPERTIES SavesAreFresh
CHECK_DEADLOCK FALSE
SYMMETRY Alike
