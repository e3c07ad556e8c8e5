SPECIFICATION Spec
CONSTANTS
  Docs = {d1, d2, d3}
  Procs = {p1, p2}
  ScanLimit = 1
  MaxRetries = 1
  Budget = 1
  Expiring = {e1, e2}
  Runs = {n1, n2}
  MailRetries = 1
  MaxStops = 1
  Txns = {t1, t2}
  Syncs = {s1, s2}
  MaxUpdates = 3
  PageSize = 2
  Retries = 1
  MaxTrouble = 2
  MaxSubs = 2
  Visitors = {v1, v2}
  MaxMishaps = 1
  Bank = {b1, b2}
  Papers = {q1, q2}
  Matchers = {m1, m2}
  MaxMerges = 2
  Shareable = {r1, r2}
  Guests = {u1}
  Packages = {k1, k2}
  Requests = {w1, w2}
  Pages = {g1, g2}
  Writers = {x1, x2}
  MaxWrites = 2
  Items = {1, 2}
  Balances = {0, 10, 330, 990}
  Accounts = {a1, a2}
  Clicks = {c1, c2}
  Scenarios = {
    {"documents", "many", "small_plan"},
    {"documents", "many"},
    {"documents", "bad_file", "ocr_failure", "crash", "form", "support", "crowded"},
    {"documents", "sweep", "bad_file", "crash"},
    {"documents", "delete", "reconcile_storage"},
    {"documents", "edit", "sweep"},
    {"reminders", "overlap", "crash"},
    {"reminders", "mail_trouble"},
    {"reminders", "settings"},
    {"reminders", "edits"},
    {"plaid", "trouble"},
    {"plaid", "login"},
    {"plaid", "disconnect"},
    {"plaid", "overlap", "readd"},
    {"plaid", "trouble", "modify"},
    {"plans", "mishap"},
    {"plans", "portal", "gone"},
    {"plans", "race", "mishap"},
    {"plans", "replay"},
    {"plans", "combined"},
    {"merge", "manual"},
    {"merge", "unarchive", "one_bank"},
    {"merge", "archive", "any_order", "one_bank"},
    {"merge", "edit", "one_bank"},
    {"merge", "purge", "one_bank"},
    {"merge", "score", "one_bank"},
    {"sharing", "package", "refund", "delete"},
    {"sharing", "package", "overlap", "refund"},
    {"sharing", "package", "owner"},
    {"sharing", "package", "archive"},
    {"sharing", "package", "race", "crash", "refund", "same_title"},
    {"sharing", "package", "late_refund", "refund", "delete"},
    {"caches", "lists"},
    {"caches", "dashboard", "metrics"},
    {"caches", "lists", "transaction", "silent"},
    {"caches", "dashboard", "transaction", "silent"},
    {"money", "outage", "partial"},
    {"money", "archived"},
    {"onboarding", "stripe_failure", "crash", "withdrawn"}}
INVARIANT WorkspaceTypeOK
INVARIANT OneOcrRecord
INVARIANT ScansBounded
 
 
INVARIANT NothingIsSkipped
INVARIANT NobodyPaysTwice
INVARIANT NewestPlanIsKept
 
 
INVARIANT UndoRestores
INVARIANT PackagesOnlyLetView
INVARIANT GrantHasReason
INVARIANT OpenShowsDocuments
INVARIANT RefundUndoesSettlement
INVARIANT CachesAreCurrent
INVARIANT BillMatchesRecords
 
INVARIANT PaysOutToCompleted
 
PROPERTY DisconnectedStaysQuiet
CHECK_DEADLOCK FALSE
