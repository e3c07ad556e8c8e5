SPECIFICATION WebhookSpec
CONSTANTS
  c1 = c1
  c2 = c2
  w1 = w1
  w2 = w2
  Checkouts = {c1, c2}
  Workers = {w1, w2}
  MaxPayments = 2
  MaxCrashes = 2
  External = TRUE
  Env = {"create_failure", "lookup_failure"}
INVARIANT OneClaim
 
PROPERTY AbandonedClaimEnds
CHECK_DEADLOCK FALSE
