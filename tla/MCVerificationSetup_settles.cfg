\* Nothing fails, but resources disappear while they are set up.
SPECIFICATION FairSpec
CONSTANTS
  Requests = {q1, q2}
  Resources = {c, m1}
  MaxAttempts = 2
  MaxCrashes = 0
  Existing = {c}
  Deletable = {c}
  StaleReads = FALSE
  Faults = FALSE
INVARIANTS
  PendingHasOwner
PROPERTIES
  OthersSetupSurvives
  SetupSettles
CHECK_DEADLOCK FALSE
