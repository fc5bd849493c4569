SPECIFICATION Spec
CONSTANTS
  Platforms <- MCBoth
  MaxStarts = 3
  Failures = TRUE
INVARIANTS LockInLine NoStray OwnName TerminalRestored
PROPERTIES Implements Prints
