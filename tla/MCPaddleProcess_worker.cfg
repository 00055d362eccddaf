SPECIFICATION Spec
CONSTANTS
    j1 = j1  j2 = j2  p1 = p1  loop = loop  free = free
    s0 = s0  s1 = s1  s2 = s2  default = default
    Jobs = {j1}  Pools = {p1}  Loop = loop  Free = free
    PreloadSize = 2
    Snapshots = {s0, s1, s2}  Refused = {s2}  Initial = s0  Default = default
    MaxJobCalls = 1  MaxLoopCalls = 2  MaxPreloads = 1
    MaxFaults = 1  MaxWorkers = 3
INVARIANTS OneWorkerAnswers RunsUnderTheSettings
PROPERTIES EveryCallReturns
CHECK_DEADLOCK FALSE
