SPECIFICATION Spec
CONSTANTS
  Inputs <- MCInputs
  BUFSIZE = 4
  PipeSize = 7
  MaxAdjust = 4
INVARIANTS TypeOK Turns Waits Unmixed
PROPERTIES Echoes EveryLineShown
\* The program stops for good when a semaphore operation is refused.
CHECK_DEADLOCK FALSE
