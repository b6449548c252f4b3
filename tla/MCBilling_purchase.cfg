\* Two requests at a time race with the status poll, the cleanup job and a crash.
SPECIFICATION Spec
CONSTANTS
  Undefined = Undefined
  Stripe <- StripeTestMode
  Paytr <- PaytrTestMode
  Provider = "STRIPE"
  EventIds <- PurchaseIds
  Normalized <- Purchase
  Snapshots = {}
  Reconcilers = {}
  MaxReconciliations = 0
  Deliveries = {d1, d2}
  CheckoutExpiresAt = 2
  GraceDays = 1
  MaxDeliveries = 3
  MaxCrashes = 1
  MaxClock = 2
  MaxExpiryRuns = 0
  MaxForms = 0
  Faults = TRUE
SYMMETRY RequestSymmetry
INVARIANTS
  TypeOK
  EntitlementBacked
  ProcessedWasApplied
  AuditIsHistory
PROPERTIES
  NoStaleOverwrite
CHECK_DEADLOCK FALSE
