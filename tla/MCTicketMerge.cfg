\* Every kind of repository, three heads and rounds.
SPECIFICATION Spec
CONSTANTS
  MaxRounds = 3
  MaxHeads = 3
  MaxPeople = 3
  MaxMishaps = 2
CHECK_DEADLOCK FALSE
INVARIANTS
  DoneUnarmed
  ReviewStops
  
PROPERTIES
  NotArmedAgain
