SPECIFICATION Spec
CONSTANTS
  ALL_MEMORY = 4
  BLOCK_SIZE = 4
  PointerCount = 3
  program_memory = 100
  Sizes <- MCSizes
  Indices <- MCIndices
INVARIANTS OwnArea
