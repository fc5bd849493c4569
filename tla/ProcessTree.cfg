SPECIFICATION Spec
CONSTANTS
  Systems <- MCBoth
  MaxProcesses = 5
INVARIANTS Family 
