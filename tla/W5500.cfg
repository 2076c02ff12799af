CONSTANTS
  B = 2
  Buf = 2
  Start = 1
  MaxTx = 3
  MaxRx = 2
  MaxGiveUps = 2
SPECIFICATION Spec
INVARIANTS
  FramesApart
  SuccessIsSent
  StreamsInOrder
PROPERTY
  UnsentIsKept
