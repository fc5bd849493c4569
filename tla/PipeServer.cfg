SPECIFICATION Spec
CONSTANTS
  Inputs <- MCInputs
  BUFSIZ = 4
  PipeSize = 6
INVARIANTS TurnInUse Kept
PROPERTIES Echoes Serves
CHECK_DEADLOCK FALSE
