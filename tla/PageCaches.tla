------------------------------ MODULE PageCaches ------------------------------
(***************************************************************************)
(* What one user's pages keep in Redis instead of asking the database: the *)
(* row counts of CachedPaginator, whose keys carry a version that a signal *)
(* raises, the dashboard context, which a signal deletes, and the metrics  *)
(* of the record list, which only grow old.  Rows are numbered through the *)
(* states they go through: a cached value is the state it was read in.     *)
(***************************************************************************)
EXTENDS Naturals, FiniteSets, Scenarios

CONSTANTS
  Pages,        \* requests that fill a cache
  Writers,      \* requests and tasks that change rows
  MaxWrites     \* bound: changes to the rows

ASSUME CacheConstantsOK == MaxWrites \in Nat /\ IsFiniteSet(Writers)

\* The words of a scenario: lists, dashboard, metrics (the pages that are opened),
\* transaction (save or delete inside atomic, whose
\* signals come before the commit), silent (bulk_create, update: no signal).

VARIABLES
  rows,       \* the state of the table the lists count, committed
  version,    \* pg_version:<namespace>:<user>, 0 when there is none
  counts,     \* the pg:<hash> entries: version to count
  dashboard,  \* dashboard:<user>
  metrics,    \* record_list_metrics:<user>
  missed,     \* one was being gathered when it was last deleted
  page,       \* the requests
  writer      \* the writers

cacheVars == <<rows, version, counts, dashboard, metrics, missed, page, writer>>

Versions == 0..MaxWrites
\* A cache entry holds one value or none.
Cached == {{v} : v \in Versions} \cup {{}}
NoPage == [pc |-> "closed"]
IsAt(p, pc) == page[p].pc = pc
Shows(p, r) == page' = [page EXCEPT ![p] = r]

CacheTypeOK ==
  /\ rows \in Versions /\ version \in Versions
  /\ counts \in [Versions -> Cached]
  /\ dashboard \in Cached /\ metrics \in Cached /\ missed \in BOOLEAN
  /\ page \in [Pages -> {NoPage}
       \cup [pc : {"asking", "counting"}, key : Versions]
       \cup [pc : {"counted"}, key : Versions, value : Versions]
       \cup [pc : {"gathering", "measuring"}]
       \cup [pc : {"gathered", "measured"}, value : Versions]]
  /\ writer \in [Writers -> {"none", "saved", "signalled"}]

CacheInit ==
  /\ rows = 0 /\ version = 0
  /\ counts = [v \in Versions |-> {}]
  /\ dashboard = {} /\ metrics = {} /\ missed = FALSE
  /\ page = [p \in Pages |-> NoPage]
  /\ writer = [w \in Writers |-> "none"]

-----------------------------------------------------------------------------
(* The writers                                                             *)

Pending == Cardinality({w \in Writers : writer[w] = "signalled"})
CanWrite == rows + Pending < MaxWrites

\* Model.save in autocommit: the row is there before post_save is sent.
SaveRow(w) ==
  /\ writer[w] = "none" /\ CanWrite
  /\ rows' = rows + 1 /\ writer' = [writer EXCEPT ![w] = "saved"]
  /\ UNCHANGED <<version, counts, dashboard, metrics, missed, page>>

\* add, and incr when the key is there: one atomic step of Redis
Bump == version' = version + 1

DropDashboard ==
  /\ dashboard' = {}
  /\ missed' = \E p \in Pages : IsAt(p, "gathering") \/ IsAt(p, "gathered")

SignalSaved(w) ==
  /\ writer[w] = "saved" /\ writer' = [writer EXCEPT ![w] = "none"]
  /\ Bump /\ DropDashboard
  /\ UNCHANGED <<rows, counts, metrics, page>>

\* Inside atomic, and in every delete(), the signal goes out first.
SignalEarly(w) ==
  /\ "transaction" \in env /\ writer[w] = "none" /\ CanWrite
  /\ writer' = [writer EXCEPT ![w] = "signalled"]
  /\ Bump /\ DropDashboard
  /\ UNCHANGED <<rows, counts, metrics, page>>

Commit(w) ==
  /\ writer[w] = "signalled" /\ writer' = [writer EXCEPT ![w] = "none"]
  /\ rows' = rows + 1
  /\ UNCHANGED <<version, counts, dashboard, metrics, missed, page>>

\* bulk_create and update send no signal; the bulk views drop the dashboard.
WriteSilently ==
  /\ "silent" \in env /\ CanWrite /\ rows' = rows + 1
  /\ \/ DropDashboard
     \/ UNCHANGED <<dashboard, missed>>
  /\ UNCHANGED <<version, counts, metrics, page, writer>>

-----------------------------------------------------------------------------
(* CachedPaginator.count                                                   *)

\* The version is read once, for the key that is looked up and stored under.
OpenList(p) ==
  /\ "lists" \in env /\ IsAt(p, "closed")
  /\ Shows(p, [pc |-> "asking", key |-> version])
  /\ UNCHANGED <<rows, version, counts, dashboard, metrics, missed, writer>>

FindCount(p) ==
  /\ IsAt(p, "asking")
  /\ Shows(p, IF counts[page[p].key] # {} THEN NoPage
              ELSE [pc |-> "counting", key |-> page[p].key])
  /\ UNCHANGED <<rows, version, counts, dashboard, metrics, missed, writer>>

CountRows(p) ==
  /\ IsAt(p, "counting")
  /\ Shows(p, [pc |-> "counted", key |-> page[p].key, value |-> rows])
  /\ UNCHANGED <<rows, version, counts, dashboard, metrics, missed, writer>>

\* Mutant: the key is made again, with the version of now.
StoredUnderNow(p) == version
StoredUnder(p) == page[p].key

StoreCount(p) ==
  /\ IsAt(p, "counted") /\ Shows(p, NoPage)
  /\ counts' = [counts EXCEPT ![StoredUnder(p)] = {page[p].value}]
  /\ UNCHANGED <<rows, version, dashboard, metrics, missed, writer>>

-----------------------------------------------------------------------------
(* The dashboard, and the metrics of the record list                       *)

OpenDashboard(p) ==
  /\ "dashboard" \in env /\ IsAt(p, "closed") /\ dashboard = {}
  /\ Shows(p, [pc |-> "gathering"])
  /\ UNCHANGED <<rows, version, counts, dashboard, metrics, missed, writer>>

GatherDashboard(p) ==
  /\ IsAt(p, "gathering") /\ Shows(p, [pc |-> "gathered", value |-> rows])
  /\ UNCHANGED <<rows, version, counts, dashboard, metrics, missed, writer>>

StoreDashboard(p) ==
  /\ IsAt(p, "gathered") /\ Shows(p, NoPage)
  /\ dashboard' = {page[p].value}
  /\ UNCHANGED <<rows, version, counts, metrics, missed, writer>>

OpenMetrics(p) ==
  /\ "metrics" \in env /\ IsAt(p, "closed") /\ metrics = {}
  /\ Shows(p, [pc |-> "measuring"])
  /\ UNCHANGED <<rows, version, counts, dashboard, metrics, missed, writer>>

BuildMetrics(p) ==
  /\ IsAt(p, "measuring") /\ Shows(p, [pc |-> "measured", value |-> rows])
  /\ UNCHANGED <<rows, version, counts, dashboard, metrics, missed, writer>>

StoreMetrics(p) ==
  /\ IsAt(p, "measured") /\ Shows(p, NoPage)
  /\ metrics' = {page[p].value}
  /\ UNCHANGED <<rows, version, counts, dashboard, missed, writer>>

\* 30 and 60 seconds after they were stored.  The version lives for seven days
\* and outlives every count.
EntryExpires ==
  /\ \/ metrics' = {} /\ UNCHANGED <<counts, dashboard>>
     \/ \E v \in Versions :
          counts' = [counts EXCEPT ![v] = {}] /\ UNCHANGED <<metrics, dashboard>>
     \/ dashboard' = {} /\ UNCHANGED <<metrics, counts>>
  /\ UNCHANGED <<rows, version, missed, page, writer>>

\* A week without a change: no count and no request is left by then.
VersionExpires ==
  /\ \A v \in Versions : counts[v] = {}
  /\ \A p \in Pages : IsAt(p, "closed")
  /\ \A w \in Writers : writer[w] = "none"
  /\ version' = 0
  /\ UNCHANGED <<rows, counts, dashboard, metrics, missed, page, writer>>

CacheNext ==
  \/ \E w \in Writers : SaveRow(w) \/ SignalSaved(w) \/ SignalEarly(w) \/ Commit(w)
  \/ WriteSilently \/ EntryExpires \/ VersionExpires
  \/ \E p \in Pages :
       \/ OpenList(p) \/ FindCount(p) \/ CountRows(p) \/ StoreCount(p)
       \/ OpenDashboard(p) \/ GatherDashboard(p) \/ StoreDashboard(p)
       \/ OpenMetrics(p) \/ BuildMetrics(p) \/ StoreMetrics(p)

CacheSpec == CacheInit /\ [][CacheNext /\ UNCHANGED env]_<<env, cacheVars>>

-----------------------------------------------------------------------------
(* Properties.                                                             *)

\* However slow a request is between reading the version, counting and storing,
\* a list never shows an old count once the writer's signal is out
\* (Verity/utils.py), and the dashboard holds an old value only when one was
\* being gathered while its entry was deleted.
CachesAreCurrent ==
  /\ env \cap {"transaction", "silent"} = {}
  /\ \A w \in Writers : writer[w] = "none"
  => /\ counts[version] \in {{}, {rows}}
     /\ ~missed => dashboard \in {{}, {rows}}

=============================================================================
