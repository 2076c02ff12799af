CONSTANTS
  b0 = b0
  Bit <- MCBit
  MaxPayload = 3
  HeaderWords = 2
  PageWords = 3
  HalfSeq = 2
  Blank = Blank
  Torn = Torn
  Tags = {1,2,3,4,5,6,7,8,9}
  Requests <- MCRequests
  Chunks = {}
  WeakCells = TRUE
  Update <- MCUpdate
  Older <- MCOlder
  ChunkWords = 2
  Retries = 3
  HelloTries = 3
  Impatient = {"HELLO", "DATA", "END"}
  Early = 3
  Lossy = {"HELLO", "BEGIN", "DATA", "END", "BOOT"}
  MaxLosses = 2
  MaxResets = 1
SPECIFICATION MCSpec
CHECK_DEADLOCK FALSE
INVARIANTS
  SequenceOrder
  CacheIsCurrent
  ReportedMeansCommitted
  AcknowledgedIsWritten
  KindProgramsErasedWords
  KindFailsOnlyForCause
PROPERTIES
  UpdatesAreAtomic
  KindUpdateCompletes
