SPECIFICATION Spec
CONSTANTS
  bash = bash
  write_file = write_file
  read_file = read_file
  nope = nope
  plain = plain
  allowed = allowed
  both = both
  empty = empty
  Tools <- MCTools
  MutatingTools <- MCMutating
  PreviewTools <- MCPreview
  Bash = bash
  Names <- MCNames
  Args <- MCArgs
  NoCommand = empty
  DenyCommands <- MCDeny
  AutoApproveCommands <- MCAllow
  Shapes <- MCShapes
  MaxIterations = 2
  MaxCalls = 2
  MaxForeign = 0
INVARIANTS DenyWins
