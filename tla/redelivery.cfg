SPECIFICATION Spec
CONSTANTS
  c1 = c1
  w1 = w1
  w2 = w2
  Checkouts = {c1}
  Workers = {w1, w2}
  MaxPayments = 2
  MaxCrashes = 1
  External = FALSE
  Env = {"refund", "slow_request", "delete"}
SYMMETRY Symmetry
INVARIANT CompletedOwnsIntent
 
CHECK_DEADLOCK FALSE
