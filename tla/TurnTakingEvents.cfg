SPECIFICATION Spec
CONSTANTS
  Versions <- MCEvents
  MaxStarts = 1
  Failures = FALSE
PROPERTIES EveryChildPrints
