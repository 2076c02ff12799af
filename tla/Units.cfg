CONSTANTS
  b0 = b0
  Half <- MCHalf
  Weights <- MCWeights
  Bit = {b0}
  FlashWords = 3
  PageWords = 2
  Access <- MCAccess
  NoAccess = NoAccess
  Short = 2
  Medium = 4
  Long = 8
  EraseCount = 3
  Wrap = 4
  Configs <- MCConfigs
  Positions = {2}
SPECIFICATION MCSpec
INVARIANTS
  AnswerIsRight
  EncoderFollowsShaft
  PendingTellsThePosition
  CaptureIsTheEdge
PROPERTIES
  PinTiming
  ImplementsStore
  NoStall
