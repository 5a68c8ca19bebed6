SPECIFICATION UserFairSpec
CONSTANTS
  calc = calc
  paint = paint
  readme = readme
  garbage = garbage
  Names = {calc, paint, readme}
  ExeNames = {calc, paint}
  RootDirectories <- SomeDirectories
  MaxScans = 2
  Root = Root
  Tree <- EmptyTree
  Elfs = {}
  Others = {}
  Apps = {calc, paint, readme, garbage}
  MaxRuns = 1
  MaxClicks = 1
INVARIANTS
  UserTypeOK
  ButtonsAreOfLastScan
PROPERTY
  DesktopEnds
CHECK_DEADLOCK FALSE
