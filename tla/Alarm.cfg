CONSTANTS
  Top = 2
  HighTop = 1
  PrescaleMax = 3
  Prescales = {0, 3}
  Compares <- MCCompares
  Requests <- MCRequests
SPECIFICATION Spec
INVARIANTS
  EqualityIsReached
PROPERTIES
  FiresWhenDue
  ScheduledIsFresh
