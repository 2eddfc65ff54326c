\* Three turns with every decision of the owner and one failed call, crash or crossing.
SPECIFICATION Spec
CONSTANTS
  implement = implement
  review = review
  end = end
  noedge = noedge
  Stages <- TwoStages
  Entry = implement
  End = end
  NoEdge = noedge
  PassTo <- Forwards
  FailTo <- Fails
  MaxLoops <- OneLoop
  Continue <- SameSession
  Effects <- SideEffects
  Verdicts <- EveryVerdict
  MaxTurns = 3
  MaxChanges = 1
  MaxMishaps = 1
  MaxReturns = 0
CHECK_DEADLOCK FALSE
INVARIANTS
  PassedAsRequired
  OneWriter
  EndedQuiet
  Resumable
  PublishedApproved
