SPECIFICATION FairSpec
CONSTANTS
    Jobs = {j1}
    Items = {i1, i2}
    NoJob = NoJob
    JobTransitions <- WideTable
    Cancellers = {c1, c2}
    Drainer = d
    MaxPreloads = 1
INVARIANTS
    OutcomesAreTrue
PROPERTIES
    TerminalIsFinal
    DispatchedJobEnds
CHECK_DEADLOCK FALSE
