SPECIFICATION Spec
CONSTANTS
  c1 = c1
  c2 = c2
  w1 = w1
  w2 = w2
  Checkouts = {c1, c2}
  Workers = {w1, w2}
  MaxPayments = 2
  MaxCrashes = 2
  External = FALSE
  Env = {"page_sync", "reconcile", "create_failure", "rate_outage"}
INVARIANT RoutableSessions
INVARIANT CompletedIsCaptured
INVARIANT PaidIsBacked
PROPERTY KeepsOffers
CHECK_DEADLOCK FALSE
