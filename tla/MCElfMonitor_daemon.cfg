SPECIFICATION FairSpec
CONSTANTS
  Root = Root bin = bin lib = lib init = init calc = calc libc = libc
  motd = motd link = link dot = dot
  Tree <- SmallTree
  Elfs = {init, calc, libc}
  Others = {motd}
  Apps = {paint}
  paint = paint
  MaxRuns = 3
  MaxClicks = 2
INVARIANTS TypeOK PidFileIsExplained LeftoverIsReplaced ScanLogsEveryElf
PROPERTY SignalledDaemonEnds
CHECK_DEADLOCK FALSE
