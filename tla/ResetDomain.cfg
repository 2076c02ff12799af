CONSTANTS
  CountMax = 3
  t1 = t1
  Tasks = {t1}
  Settings = {0, 1, 2}
  Modes <- MCModes
  Acks <- MCAcks
SPECIFICATION TickingSpec
INVARIANTS
  SupervisedWindow
  RequestIsConsumedOnce
PROPERTIES
  ExpiryAlwaysActs
  HangIsCured
  StoppedTaskIsCaught
