\* five events, pages of two, compaction to the last two; one process that runs one
\* operation and serves one or two status requests
CONSTANTS
  MaxEvents = 5
  Keep = 2
  Limit = 2
  Procs = {p1}
  Ops = {o1}
  Retry = o3
  Earlier = o0
  Scopes = {base}
  MaxMishaps = 1
  Supervisor = p1
  Pollers = {q1, q2}
SPECIFICATION MCSpec
INVARIANTS
  JournalIsReadable
  VerdictsAreRenewed
PROPERTIES
  LogRefined
  StatusIsTrue
