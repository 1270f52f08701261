SPECIFICATION Spec
CONSTANTS
  MaxPanels = 2
  MaxOps = 2
  MaxHistory = 1
INVARIANTS UnstoppableOnlyAfterResend InStepWhenQuiet BusyIsAnswered
PROPERTIES ChangesLoseOneNode
CHECK_DEADLOCK FALSE
