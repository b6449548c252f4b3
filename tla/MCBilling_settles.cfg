\* PayTR: redelivered callbacks race with one another and with the expiry job.
\* No crash and no lost call: deliveries settle and the period ends.
SPECIFICATION FairSpec
CONSTANTS
  Undefined = Undefined
  Stripe <- StripeTestMode
  Paytr <- PaytrTestMode
  Provider = "PAYTR"
  EventIds <- OrderIds
  Normalized <- Order
  Snapshots = {}
  Reconcilers = {}
  MaxReconciliations = 0
  Deliveries = {d1, d2}
  CheckoutExpiresAt = 2
  GraceDays = 1
  MaxDeliveries = 3
  MaxCrashes = 0
  MaxClock = 4
  MaxExpiryRuns = 3
  MaxForms = 0
  Faults = FALSE
PROPERTIES
  ExpiryRespectsRenewal
  EventSettles
  PaidPeriodEnds
CHECK_DEADLOCK FALSE
