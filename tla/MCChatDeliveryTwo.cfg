\* Two messages of one queue: their order, and that held ones end although questions
\* and requests stay open.
SPECIFICATION FairSpec
CONSTANTS
  m1 = m1
  m2 = m2
  d = d
  Messages <- TwoMessages
  Images <- None
  Drafts <- None
  MaxRecoveries = 0
  MaxCrashes = 0
  MaxRelaunches = 0
INVARIANTS
  InOrder
PROPERTIES
  HeldEnds
