\* One request, three answers, three troubles (crash, failing handler, hook handover).
SPECIFICATION FairSpec
CONSTANTS
  k1 = k1
  Keys <- OneKey
  MaxDeliveries = 3
  MaxTrouble = 3
CHECK_DEADLOCK FALSE
INVARIANTS
  CardHonest
PROPERTIES
  KeepsContract
  SeenOrOver
