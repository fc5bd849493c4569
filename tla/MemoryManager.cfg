SPECIFICATION Spec
CONSTANTS
  ALL_MEMORY = 3
  BLOCK_SIZE = 5
  PointerCount = 3
  program_memory = 100
  Sizes <- MCSizes
  Indices <- MCAnyIndices
INVARIANTS Books CounterCovers BlockZeroFits
