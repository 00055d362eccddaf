\* three pages in batches of two, two runs, a page examined, a failed write or save and a
\* crash; two pages and an inserted one, three changes; two threads and three children
CONSTANTS
  Pages <- FirstPages
  Natives = {2}
  Blanks = {}
  Placeless = {1}
  Requests <- RequestSets
  BatchSize = 2
  Overwrites = {FALSE}
  Absent = absent
  Empty = empty
  MaxRuns = 2
  MaxFaults = 1
  MaxLoads = 1
  MaxCrashes = 1
  p1 = p1
  p2 = p2
  x = x
  Original <- TwoPages
  OwnText = {p2}
  Extra = x
  Boxless = {p2}
  MaxOps = 3
  Callers = {loop, stream}
  MaxChildren = 3
  MaxCalls = 2
SPECIFICATION MCSpec
INVARIANTS
  DoneTextIsOnDisk
  NoPageIsLayeredTwice
  TextStaysWithItsPage
  SavedTextIsCurrent
  ClientsReachTheChild
PROPERTIES
  DiskTextNeverShrinks
CHECK_DEADLOCK FALSE
