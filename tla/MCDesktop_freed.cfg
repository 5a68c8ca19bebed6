SPECIFICATION Spec
CONSTANTS
  calc = calc
  paint = paint
  readme = readme
  garbage = garbage
  Names = {calc, paint, readme}
  ExeNames = {calc, paint}
  Directories <- SomeDirectories
  MaxScans = 2
INVARIANT ClickRunsItsLabel
CHECK_DEADLOCK FALSE
