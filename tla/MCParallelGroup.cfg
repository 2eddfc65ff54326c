\* Two members, one at a time.
SPECIFICATION FairSpec
CONSTANTS
  N = 2
  Concurrency = 1
  MaxNudges = 1
  MaxLoops = 1
  MaxTrouble = 3
  MaxWrites = 1
CHECK_DEADLOCK FALSE
INVARIANTS
  Reviewed
  ReadOnly
  Quiet
PROPERTIES
  GroupSettles
  DecisionKept
