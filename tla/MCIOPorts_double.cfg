\* An interrupt handler above a thread, one port.
SPECIFICATION Spec
CONSTANTS
  Callers = {isr, t1}
  Handler = isr
  Background = none
  Priority <- Levels
  MAX_IO_PORTS = 1
  IO_PortMode = {"INPUT", "OUTPUT"}
  IO_PortAccessType = {"8BIT"}
  ZeroMode = "INPUT"
  ZeroAccessType = "8BIT"
INVARIANTS
  MutualExclusion
