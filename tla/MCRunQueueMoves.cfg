\* Two queues, one of which counts parked runs, while folders become other projects,
\* beside a run started directly.
SPECIFICATION Spec
CONSTANTS
  a = a
  b = b
  i1 = i1
  i2 = i2
  d1 = d1
  NoProject = NoProject
  Projects <- TwoProjects
  Items <- TwoItems
  Direct <- OneDirect
  McpItems <- OneMcp
  Limit <- LimitOne
  CountParked <- Mixed
  MaxWaiting = 2
  Kept = 1
  MaxPosition = 4
  MaxRestarts = 0
  MaxUnsaved = 0
  MaxEdits = 1
INVARIANTS
  RowsConsistent
  OnePassPerItem
PROPERTIES
  CreatedOnlyForClaim
