\* Two calls, one motion, working hardware: Mouse_Init, then Mouse_Enable.
SPECIFICATION WorkingSpec
CONSTANTS
  HasCallback = TRUE
  CoordinateSpan = 65536
  Packets <- OnePacket
  Rates = {40}
  LockablePorts = {}
  MaxCalls = 2
  MaxMotions = 1
PROPERTY
  RunningDriverReads
CHECK_DEADLOCK FALSE
