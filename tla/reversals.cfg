SPECIFICATION Spec
CONSTANTS
  c1 = c1
  c2 = c2
  w1 = w1
  Checkouts = {c1, c2}
  Workers = {w1}
  MaxPayments = 1
  MaxCrashes = 1
  External = FALSE
  Env = {"refund", "transfer_failure", "decline", "dispute", "page_sync"}
INVARIANT TypeOK
INVARIANT PaidOnlyOnCapturedCharge
 
 
CHECK_DEADLOCK FALSE
