SPECIFICATION Spec
CONSTANTS
  f1 = f1
  f2 = f2
  a = a
  b = b
  m1 = m1
  m2 = m2
  j1 = j1
  j2 = j2
  r1 = r1
  Files <- OneFile
  Texts <- OneText
  Models <- TwoModels
  Jobs <- TwoJobs
  Readers <- NoReaders
  Indexed = FALSE
  Outside = TRUE
  EmbedsFail = TRUE
  Reloads = TRUE
  Torn = TRUE
  Blanks <- MCBlanks
INVARIANTS HashesMatchVectors VectorsOfOneModel
CHECK_DEADLOCK FALSE
SYMMETRY Alike
