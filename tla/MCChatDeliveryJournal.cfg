\* One message with images: crashes, holds, cancels, recoveries and a new CLI process.
SPECIFICATION Spec
CONSTANTS
  m1 = m1
  m2 = m2
  d = d
  Messages <- OneMessage
  Images <- OneMessage
  Drafts <- OneDraft
  MaxRecoveries = 2
  MaxCrashes = 2
  MaxRelaunches = 1
INVARIANTS
  AtMostOnce
  RejectedLeftNothing
  AcceptanceKept
PROPERTIES
  EnterSubmitsMessage
