SPECIFICATION FairSpec
CONSTANTS
  Docs = {d1}
  Procs = {p1, p2}
  ScanLimit = 1
  MaxRetries = 1
  Budget = 1
  Expiring = {e1, e2}
  Runs = {n1, n2}
  MailRetries = 1
  MaxStops = 1
  Txns = {t1, t2}
  Syncs = {s1, s2}
  MaxUpdates = 3
  PageSize = 2
  Retries = 1
  MaxTrouble = 2
  MaxSubs = 2
  Visitors = {v1, v2}
  MaxMishaps = 1
  Bank = {b1, b2}
  Papers = {q1, q2}
  Matchers = {m1, m2}
  MaxMerges = 2
  Shareable = {r1, r2}
  Guests = {u1}
  Packages = {k1, k2}
  Requests = {w1, w2}
  Pages = {g1, g2}
  Writers = {x1, x2}
  MaxWrites = 2
  Items = {1, 2}
  Balances = {0, 10, 330, 990}
  Accounts = {a1, a2}
  Clicks = {c1, c2}
  Scenarios = {
    {"plaid", "readd"}}
PROPERTY ResurrectedIsActive
CHECK_DEADLOCK FALSE
