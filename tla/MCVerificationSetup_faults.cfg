\* Calls fail, the cache is behind, resources disappear.
SPECIFICATION Spec
CONSTANTS
  Requests = {q1, q2}
  Resources = {c, m1}
  MaxAttempts = 1
  MaxCrashes = 1
  Existing = {c}
  Deletable = {c}
  StaleReads = TRUE
  Faults = TRUE
SYMMETRY Symmetry
INVARIANTS
  TypeOK
  ExclusiveSetup
  PendingIsUnfinished
PROPERTIES
  EditsRefusedWhilePending
  EditsOnWhatWasSeen
CHECK_DEADLOCK FALSE
