\* An interrupt handler above two threads, one of them in the background; two
\* ports.
SPECIFICATION Spec
CONSTANTS
  Callers = {isr, t1, low}
  Handler = isr
  Background = low
  Priority <- Levels
  MAX_IO_PORTS = 2
  IO_PortMode = {"INPUT", "OUTPUT"}
  IO_PortAccessType = {"8BIT"}
  ZeroMode = "INPUT"
  ZeroAccessType = "8BIT"
INVARIANTS
  TypeOK
  SharedIsOvertaken
  HeldStaysLocked
  LockedIsHeld
  LateAccessIsPreempted
