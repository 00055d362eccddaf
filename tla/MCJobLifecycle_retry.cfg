SPECIFICATION Spec
CONSTANTS
    Jobs = {j1, j2}
    Items = {i1}
    NoJob = NoJob
    JobTransitions <- WideTable
    Cancellers = {c1}
    Drainer = d
    MaxPreloads = 0
SYMMETRY JobSymmetry
INVARIANTS
    MaintenanceExcludesWork
    RetryOfUnsuccessfulItems
CHECK_DEADLOCK FALSE
