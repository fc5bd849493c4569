SPECIFICATION Spec
CONSTANTS
  Versions <- MCBoth
  MaxStarts = 3
  Failures = TRUE
INVARIANTS TurnInUse AllClosed
PROPERTIES NoLineCut Implements SemaphoresServe
