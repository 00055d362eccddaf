\* two calls, one of them of two files, and two mishaps
CONSTANTS
  c1 = c1
  c2 = c2
  basic = basic
  standard = standard
  Calls = {c1, c2}
  Free = free
  n1 = n1
  n2 = n2
  Names = {n1, n2}
  Files <- TwoAndOne
  Modes = {basic, standard}
  Wants <- TwoModes
  Default = basic
  MaxMishaps = 2
SPECIFICATION JobSpec
INVARIANTS RunningJobsAreWhole NothingIsLeftBehind
PROPERTIES EveryParseEnds
CHECK_DEADLOCK FALSE
