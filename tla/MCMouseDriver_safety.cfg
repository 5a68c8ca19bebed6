\* Three calls, one motion, both ports locked and unlocked at any time.
SPECIFICATION FairSpec
CONSTANTS
  HasCallback = TRUE
  CoordinateSpan = 65536
  Packets <- TrickyPackets
  Rates = {40}
  LockablePorts = {96, 100}
  MaxCalls = 3
  MaxMotions = 1
INVARIANTS
  TypeOK
  SelfTestFollowsReset
  PolledByteIsFresh
  FirstInitEnables
  FirstCallAckFollows
  InitResetsIndex
PROPERTIES
  ImplementsLifecycle
  CallsReturn
CHECK_DEADLOCK FALSE
