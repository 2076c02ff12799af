CONSTANTS
  Inputs = {"gpio0"}
  Settings <- MCSettings
  Wrap = 3
SPECIFICATION Spec
INVARIANTS
  CountsThePin
  EpochIsTold
