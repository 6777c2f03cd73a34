CONSTANTS
  Settings <- MCSettings
  Elapsed = {0, 2, 5}
  SizeValues = 256
SPECIFICATION Spec
INVARIANTS
  BlockIsJustified
  ResultIsOfAllSamples
  ConvergedIsJustified
CHECK_DEADLOCK FALSE
