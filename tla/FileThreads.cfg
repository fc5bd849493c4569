SPECIFICATION Spec
CONSTANTS
  Folders <- MCFolders
  BufferSize = 2
  Faults = {"load", "open", "read", "write"}
  MaxFaults = 2
INVARIANTS Exclusive Chunks NoStandstill
PROPERTIES Concatenates Completes
\* Without a text file the writer and main wait for ever.
CHECK_DEADLOCK FALSE
