SPECIFICATION Spec
CONSTANTS
  c1 = c1
  w1 = w1
  Checkouts = {c1}
  Workers = {w1}
  MaxPayments = 2
  MaxCrashes = 0
  External = FALSE
  Env = {}
INVARIANT OneCapture
CHECK_DEADLOCK FALSE
