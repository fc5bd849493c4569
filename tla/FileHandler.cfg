SPECIFICATION Spec
CONSTANTS
  Folders <- MCFolders
  BufferSize = 2
  Faults = {"dlopen", "open", "read", "write", "short"}
  MaxFaults = 2
  SymbolFound = {TRUE, FALSE}
INVARIANTS Values Exclusive HandShakes WholeFile AfterFaults
PROPERTIES Concatenates Completes
\* With nothing in ./files the writer and main wait for ever.
CHECK_DEADLOCK FALSE
