\* Payloads with and without sign bits; coordinates of 9 bits so that they wrap.
SPECIFICATION Spec
CONSTANTS
  HasCallback = TRUE
  CoordinateSpan = 512
  Packets <- MixedPackets
  MaxPackets = 5
  MaxTaken = 2
INVARIANTS
  TypeOK
  SignedPacketsAreProcessed
  RegainsStep
  PositionIsSum
  EveryPacketIsReported
CHECK_DEADLOCK FALSE
