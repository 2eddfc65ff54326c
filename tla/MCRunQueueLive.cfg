\* One queue that counts parked runs, under fair timers, passes and faults, with a failing
\* write, a crash or shutdown and the owner's edits.
SPECIFICATION FairSpec
CONSTANTS
  a = a
  b = b
  i1 = i1
  i2 = i2
  d1 = d1
  NoProject = NoProject
  Projects <- OneProject
  Items <- TwoItems
  Direct <- None
  McpItems <- OneMcp
  Limit <- LimitOne
  CountParked <- Strict
  MaxWaiting = 2
  Kept = 1
  MaxPosition = 6
  MaxRestarts = 1
  MaxUnsaved = 1
  MaxEdits = 1
INVARIANTS
  StrictLimit
  RepeatableNeverRan
  AtMostOneStart
PROPERTIES
  ClaimSettles
  QueuedProgress
