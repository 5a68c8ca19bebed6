SPECIFICATION Spec
CONSTANTS
  Root = Root bin = bin lib = lib init = init calc = calc libc = libc
  motd = motd link = link dot = dot paint = paint
  Tree <- TinyTree
  Elfs = {init}
  Others = {}
  Apps = {paint}
  MaxRuns = 2
  MaxClicks = 1
INVARIANT PidFileNamesDaemon
CHECK_DEADLOCK FALSE
