CONSTANTS
  Base = 4
  ChipAddr = 1
  Size = 4
  Page = 2
  Widths = {1, 2}
  PullsFirst = {0, 1}
  Calls <- MCCalls
  Attempts = 2
SPECIFICATION Spec
INVARIANTS
  OnlyItsCells
  SuccessIsTrue
  ReturnsTheBus
PROPERTY
  CallReturns
