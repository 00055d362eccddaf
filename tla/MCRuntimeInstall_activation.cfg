\* two processes, two submitted operations and a retry, one scope, two mishaps
CONSTANTS
  Procs = {p1, p2}
  Ops = {o1, o2}
  Retry = o3
  Earlier = o0
  Scopes = {base}
  MaxMishaps = 2
SPECIFICATION MCSpec
SYMMETRY Symmetry
INVARIANTS
  RuntimeNeverLost
  RejectedIsNotActive
  CommandTellsTheOperation
PROPERTIES
  SuccessIsInPlace
