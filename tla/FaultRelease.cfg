CONSTANTS
  FilterMax = 2
  FilterWrites = {0, 2}
  Modes <- MCModes
  Claims <- MCClaims
  Drives <- MCDrives
  Pins <- MCPins
  Depths = {2}
  Cycles = {1}
  Shared = 0
  Calls <- MCCalls
  Faults = TRUE
  p0 = p0
  p1 = p1
SPECIFICATION MCSpec
PROPERTY
  ReleasedOnlyByClear
