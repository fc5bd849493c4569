SPECIFICATION ShellSpec
CONSTANTS
  Word <- MCWord
  Argvs <- MCArgvs
INVARIANTS Dispatches
