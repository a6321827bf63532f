SPECIFICATION RangingSpec
CONSTANTS
  Full = 256
  Low = 64
  Unit = 2
  ReplyDelay = 10
  TxAntDly = 1
  MaxDistance = 4
  Size = 3
  Unlock = 1
  Lock = 2
  Far = 3
  Flights = {0, 1, 2, 3, 4, 5}
  TagClocks = {0, 1, 2, 3, 29, 53, 61, 62, 63, 64, 191, 241, 243, 252, 253, 254, 255}
  Skews = {0, 1, 2, 3, 63, 65, 128, 192, 255}
INVARIANTS RangingTypeOK DistanceRight FilterIsRecent
PROPERTY WordsHaveReason
