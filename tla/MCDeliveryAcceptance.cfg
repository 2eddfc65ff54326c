\* Three messages, the events of two of which may meet in one ask window.
SPECIFICATION Spec
CONSTANTS
  d1 = d1
  d2 = d2
  d3 = d3
  photo = photo
  shot = shot
  Named = TRUE
  Deliveries <- Three
  Pictures <- Images
  Count <- CountOf
  AskWindow = 2
  EventBuffer = 1
  Ttl = 3
  MaxExpectations = 2
  MaxEvents = 1
  MaxDelay = 1
  MaxTime = 4
  MaxForeign = 1
SYMMETRY Symmetry
CHECK_DEADLOCK FALSE
PROPERTIES
  Truthful
  HeardAlone
