\* Two turns, also of a run sent back to a stage: the run and a cancellation settle.
SPECIFICATION FairSpec
CONSTANTS
  implement = implement
  review = review
  end = end
  noedge = noedge
  Stages <- TwoStages
  Entry = implement
  End = end
  NoEdge = noedge
  PassTo <- Forwards
  FailTo <- Fails
  MaxLoops <- OneLoop
  Continue <- SameSession
  Effects <- SideEffects
  Verdicts <- AnyVerdict
  MaxTurns = 2
  MaxChanges = 0
  MaxMishaps = 1
  MaxReturns = 1
CHECK_DEADLOCK FALSE
PROPERTIES
  RunSettles
  CancelEnds
