SPECIFICATION Spec
CONSTANTS
  c1 = c1
  w1 = w1
  Checkouts = {c1}
  Workers = {w1}
  MaxPayments = 1
  MaxCrashes = 0
  External = FALSE
  Env = {"refund"}
INVARIANT PaidHoldsMoney
CHECK_DEADLOCK FALSE
