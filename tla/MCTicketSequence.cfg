\* A session ticket before a pipeline ticket.
SPECIFICATION FairSpec
CONSTANTS
  t1 = t1
  t2 = t2
  NoTicket = NoTicket
  Queue <- TwoTickets
  Pipelines <- SecondRuns
  MaxWorkers = 2
  MaxRetries = 1
  MaxCrashes = 2
  MaxMishaps = 2
CHECK_DEADLOCK FALSE
INVARIANTS
  OneWorker
  TaskOnce
PROPERTIES
  StartSettles
