---------------------------- MODULE PlaidSyncProofs ----------------------------
(***************************************************************************)
(* No update of the bank is skipped, for any number of transactions,       *)
(* messages, retries, faults and updates, and any size of a page.          *)
(***************************************************************************)
EXTENDS PlaidSync, TLAPS

-----------------------------------------------------------------------------
(* The log, as a parameter.                                                *)

Mentions(log, t, i) == {j \in 1..i : log[j].txn = t}
Has(log, t, i) ==
  \E j \in Mentions(log, t, i) : /\ \A k \in Mentions(log, t, i) : k <= j
                                 /\ log[j].kind # "removed"
GoneSince(log, t, c) == \E i \in c..Len(log) : ~Has(log, t, i)
Updates == [kind : {"added", "modified", "removed"}, txn : Txns]

LEMMA AboutIs == \A t, i : About(t, i) = Mentions(updates, t, i)
BY DEF About, Mentions

LEMMA AtBankIs == \A t, i : AtBank(t, i) <=> Has(updates, t, i)
BY DEF AtBank, Has, About, Mentions

\* What is past does not change when an update is added.
LEMMA PastStays ==
  ASSUME NEW log \in Seq(Updates), NEW u \in Updates, NEW t, NEW i \in 0..Len(log)
  PROVE  /\ Mentions(Append(log, u), t, i) = Mentions(log, t, i)
         /\ Has(Append(log, u), t, i) <=> Has(log, t, i)
<1>1. \A j \in 1..i : Append(log, u)[j] = log[j]
  OBVIOUS
<1>2. Mentions(Append(log, u), t, i) = Mentions(log, t, i)
  BY <1>1 DEF Mentions
<1>3. \A j \in Mentions(log, t, i) : j \in 1..i
  BY DEF Mentions
<1> QED
  BY <1>1, <1>2, <1>3 DEF Has

\* The last update about a transaction decides.
LEMMA LastDecides ==
  ASSUME NEW log \in Seq(Updates), NEW u \in Updates, NEW t
  PROVE  /\ Mentions(Append(log, u), t, Len(log) + 1) =
              Mentions(log, t, Len(log)) \cup (IF u.txn = t THEN {Len(log) + 1} ELSE {})
         /\ Has(Append(log, u), t, Len(log) + 1) <=>
              IF u.txn = t THEN u.kind # "removed" ELSE Has(log, t, Len(log))
<1> DEFINE n == Len(log) + 1
<1>1. n \in Nat /\ Append(log, u)[n] = u /\ \A j \in 1..Len(log) : Append(log, u)[j] = log[j]
  OBVIOUS
<1>2. 1..n = 1..Len(log) \cup {n}
  OBVIOUS
<1>3. Mentions(Append(log, u), t, n) =
        Mentions(log, t, Len(log)) \cup (IF u.txn = t THEN {n} ELSE {})
  BY <1>1, <1>2 DEF Mentions
<1>4. \A j \in Mentions(log, t, Len(log)) : j \in 1..Len(log)
  BY DEF Mentions
<1>5. CASE u.txn = t
  BY <1>1, <1>3, <1>4, <1>5 DEF Has
<1>6. CASE u.txn # t
  BY <1>1, <1>3, <1>4, <1>6 DEF Has
<1> QED
  BY <1>3, <1>5, <1>6

\* Between two positions that differ there is an update.
LEMMA ChangedBetween ==
  ASSUME NEW log, NEW t, NEW i \in Nat, NEW k \in Nat, i <= k,
         ~(Has(log, t, i) <=> Has(log, t, k))
  PROVE  \E j \in Mentions(log, t, k) : j > i
<1> SUFFICES ASSUME \A j \in Mentions(log, t, k) : ~(j > i) PROVE FALSE
  OBVIOUS
<1>1. Mentions(log, t, i) = Mentions(log, t, k)
  BY DEF Mentions
<1> QED
  BY <1>1 DEF Has

-----------------------------------------------------------------------------
(* The inductive invariant.                                                *)

\* Positions are positions of Plaid's log.
ReadsTheLog ==
  /\ cursor <= Len(updates)
  /\ \A s \in Syncing : sync[s].from <= Len(updates)
  /\ \A s \in Syncs : sync[s].pc = "storing" =>
       sync[s].from <= sync[s].to /\ sync[s].to <= Len(updates)

\* What has no record was not there at the cursor or later, nor at the place
\* from which any sync reads on, however syncs overlap.
NoneMissing ==
  \A t \in Txns : rec[t] = "absent" =>
    /\ GoneSince(updates, t, cursor)
    /\ \A s \in Syncing : GoneSince(updates, t, sync[s].from)

Orderly == env \cap {"overlap", "readd"} = {}

OneSync ==
  \A s \in Syncing : sync[s].from = cursor /\ \A o \in Syncing : o = s

\* A webhook about a removal is about one that lasts.
RemovalsLast ==
  \A t \in hooks \cap Txns :
    Mentions(updates, t, Len(updates)) # {} /\ ~Has(updates, t, Len(updates))

RecordsCurrent ==
  \A t \in Txns : /\ rec[t] = "active" => Has(updates, t, cursor)
                  /\ rec[t] = "archived" => GoneSince(updates, t, cursor)

LogInv == ReadsTheLog /\ NoneMissing /\ (Orderly => OneSync /\ RemovalsLast /\ RecordsCurrent)

PlaidInv == PlaidTypeOK /\ LogInv

Messages == {NoSync} \cup [pc : {"queued"}, tries : 0..Retries]
                     \cup [pc : {"asking"}, tries : 0..Retries, from : Position]
                     \cup [pc : {"storing"}, tries : 0..Retries, from : Position,
                           to : Position, more : BOOLEAN]

LEMMA PlaidInit_Inv == PlaidInit => PlaidInv
<1> SUFFICES ASSUME PlaidInit PROVE PlaidInv
  OBVIOUS
<1> USE PlaidConstantsOK DEF PlaidInit
<1>1. PlaidTypeOK
  <2>1. <<>> \in Seq(Updates) /\ Len(<<>>) = 0
    OBVIOUS
  <2>2. sync \in [Syncs -> {NoSync}]
    OBVIOUS
  <2> HIDE DEF PlaidInit
  <2>3. /\ item = "none" /\ linked = FALSE /\ broken = FALSE /\ flagged = FALSE
        /\ updates = <<>> /\ hooks = {} /\ cursor = 0 /\ cooling = FALSE /\ trouble = 0
        /\ rec = [t \in Txns |-> "absent"]
    BY DEF PlaidInit
  <2>4. updates \in Seq(Updates) /\ Len(updates) <= MaxUpdates /\ trouble \in 0..MaxTrouble
        /\ cursor \in Position
    BY <2>1, <2>3 DEF Position
  <2>5. rec \in [Txns -> {"absent", "active", "archived"}]
    BY <2>3
  <2>6. sync \in [Syncs -> Messages]
    BY <2>2 DEF Messages
  <2> QED
    BY <2>3, <2>4, <2>5, <2>6 DEF PlaidTypeOK, Updates, Messages
<1>2. Syncing = {}
  BY DEF Syncing, NoSync
<1>3. \A t : ~Has(updates, t, 0)
  BY DEF Has, Mentions
<1>4. Len(updates) = 0
  OBVIOUS
<1>5. ReadsTheLog
  BY <1>2, <1>4 DEF ReadsTheLog, NoSync
<1>6. NoneMissing
  BY <1>2, <1>3, <1>4 DEF NoneMissing, GoneSince
<1>7. OneSync /\ RemovalsLast /\ RecordsCurrent
  BY <1>2 DEF OneSync, RemovalsLast, RecordsCurrent
<1> QED
  BY <1>1, <1>5, <1>6, <1>7 DEF PlaidInv, LogInv

-----------------------------------------------------------------------------
(* Types.                                                                  *)

LEMMA HoldsType ==
  ASSUME PlaidTypeOK, NEW s \in Syncs, NEW r \in Messages, Holds(s, r)
  PROVE  sync' \in [Syncs -> Messages]
BY DEF PlaidTypeOK, Messages, Holds

LEMMA RetryType ==
  ASSUME PlaidTypeOK, NEW s \in Syncs, sync[s] # NoSync, RetrySync(s)
  PROVE  /\ sync' \in [Syncs -> Messages]
         /\ \A o \in Syncs : sync'[o] = sync[o] \/ sync'[o].pc \in {"none", "queued"}
<1>1. sync[s].tries \in 0..Retries
  BY DEF PlaidTypeOK
<1> DEFINE r == IF sync[s].tries = 0 THEN NoSync
                ELSE [pc |-> "queued", tries |-> sync[s].tries - 1]
<1>2. r \in Messages /\ r.pc \in {"none", "queued"}
  BY <1>1, PlaidConstantsOK DEF Messages, NoSync
<1>3. Holds(s, r)
  BY DEF RetrySync
<1>4. sync' = [sync EXCEPT ![s] = r] /\ sync \in [Syncs -> Messages]
  BY <1>3 DEF Holds, PlaidTypeOK, Messages
<1> HIDE DEF r
<1> QED
  BY <1>2, <1>4

LEMMA EnqueueType ==
  ASSUME PlaidTypeOK, Enqueue
  PROVE  /\ sync' \in [Syncs -> Messages]
         /\ \A o \in Syncs : sync'[o] = sync[o] \/ sync'[o].pc \in {"none", "queued"}
<1> DEFINE r == [pc |-> "queued", tries |-> Retries]
<1>1. r \in Messages /\ r.pc = "queued"
  BY PlaidConstantsOK DEF Messages
<1>2. sync \in [Syncs -> Messages]
  BY DEF PlaidTypeOK, Messages
<1>3. PICK s \in Syncs : sync' = [sync EXCEPT ![s] = r]
  BY DEF Enqueue, Holds
<1> HIDE DEF r
<1> QED
  BY <1>1, <1>2, <1>3

-----------------------------------------------------------------------------
(* Each action preserves it.                                               *)

\* A step that leaves the log and the cursor alone, starts no read, and at most
\* archives what a webhook says is removed.
LEMMA QuietStep ==
  ASSUME PlaidInv, UNCHANGED <<updates, cursor, env>>, hooks' \cap Txns \subseteq hooks,
         sync' \in [Syncs -> Messages], rec' \in [Txns -> {"absent", "active", "archived"}],
         \A o \in Syncs : sync'[o] = sync[o] \/ sync'[o].pc \in {"none", "queued"},
         \A t \in Txns : rec'[t] = rec[t]
                       \/ (t \in hooks /\ rec[t] # "absent" /\ rec'[t] = "archived")
  PROVE  LogInv'
<1>1. Syncing' \subseteq Syncing /\ \A o \in Syncing' : sync'[o] = sync[o]
  BY DEF Syncing
<1>2. ReadsTheLog'
  BY <1>1 DEF PlaidInv, LogInv, ReadsTheLog
<1>3. NoneMissing'
  BY <1>1 DEF PlaidInv, LogInv, NoneMissing
<1>4. ASSUME Orderly' PROVE OneSync' /\ RemovalsLast' /\ RecordsCurrent'
  <2>1. OneSync /\ RemovalsLast /\ RecordsCurrent
    BY <1>4 DEF PlaidInv, LogInv, Orderly
  <2>2. OneSync' /\ RemovalsLast'
    BY <1>1, <2>1 DEF OneSync, RemovalsLast
  <2>3. ASSUME NEW t \in Txns, t \in hooks PROVE GoneSince(updates, t, cursor)
    <3>1. ~Has(updates, t, Len(updates))
      BY <2>1, <2>3 DEF RemovalsLast
    <3>2. Len(updates) \in cursor..Len(updates)
      BY DEF PlaidInv, LogInv, ReadsTheLog, PlaidTypeOK, Position
    <3> QED
      BY <3>1, <3>2 DEF GoneSince
  <2> QED
    BY <2>1, <2>2, <2>3 DEF RecordsCurrent
<1> QED
  BY <1>2, <1>3, <1>4 DEF LogInv


\* The type invariant, by its parts.
LEMMA TypeParts ==
  PlaidTypeOK <=>
    /\ item \in {"none", "present", "deleted"}
    /\ linked \in BOOLEAN /\ broken \in BOOLEAN /\ flagged \in BOOLEAN
    /\ updates \in Seq(Updates) /\ Len(updates) <= MaxUpdates
    /\ hooks \subseteq {SyncAvailable, LoginRequired} \cup Txns
    /\ cursor \in Position
    /\ rec \in [Txns -> {"absent", "active", "archived"}]
    /\ cooling \in BOOLEAN /\ sync \in [Syncs -> Messages] /\ trouble \in 0..MaxTrouble
BY DEF PlaidTypeOK, Messages, Updates

LEMMA TroubleType ==
  ASSUME PlaidTypeOK, Trouble
  PROVE  trouble' \in 0..MaxTrouble
BY PlaidConstantsOK DEF PlaidTypeOK, Trouble

\* Linking, logging in and out, disconnecting and the cooldown.
LEMMA BankActions ==
  ASSUME PlaidInv, UNCHANGED env,
         LinkBank \/ CooldownEnds \/ LoginExpires \/ LogInAgain \/ RemoveAtPlaid \/ DeleteItem
  PROVE  PlaidInv'
<1>1. PlaidTypeOK
  BY DEF PlaidInv
<1>2. /\ UNCHANGED <<updates, cursor, rec, trouble>>
      /\ sync' = sync \/ Enqueue
      /\ hooks' \subseteq hooks \cup {LoginRequired}
      /\ item' \in {"none", "present", "deleted"}
      /\ linked' \in BOOLEAN /\ broken' \in BOOLEAN /\ flagged' \in BOOLEAN
      /\ cooling' \in BOOLEAN
  BY <1>1 DEF LinkBank, CooldownEnds, LoginExpires, LogInAgain, RemoveAtPlaid, DeleteItem,
              PlaidTypeOK
<1>3. /\ sync' \in [Syncs -> Messages]
      /\ \A o \in Syncs : sync'[o] = sync[o] \/ sync'[o].pc \in {"none", "queued"}
  BY <1>1, <1>2, EnqueueType, TypeParts
<1>4. PlaidTypeOK'
  <2>1. hooks' \subseteq {SyncAvailable, LoginRequired} \cup Txns
    BY <1>1, <1>2, TypeParts
  <2> QED
    BY <1>1, <1>2, <1>3, <2>1 DEF PlaidTypeOK, Messages
<1>5. hooks' \cap Txns \subseteq hooks
  BY <1>2, WebhookNamesOK
<1>6. /\ rec' \in [Txns -> {"absent", "active", "archived"}]
      /\ \A t \in Txns : rec'[t] = rec[t]
  BY <1>1, <1>2, TypeParts
<1>7. UNCHANGED <<updates, cursor, env>>
  BY <1>2
<1>8. \A t \in Txns : rec'[t] = rec[t]
                    \/ (t \in hooks /\ rec[t] # "absent" /\ rec'[t] = "archived")
  BY <1>6
<1>9. LogInv'
  BY <1>3, <1>5, <1>6, <1>7, <1>8, QuietStep
<1> QED
  BY <1>4, <1>9 DEF PlaidInv

LEMMA DispatchType ==
  ASSUME PlaidTypeOK, DispatchSync
  PROVE  /\ cooling' \in BOOLEAN
         /\ sync' \in [Syncs -> Messages]
         /\ \A o \in Syncs : sync'[o] = sync[o] \/ sync'[o].pc \in {"none", "queued"}
BY EnqueueType, TypeParts DEF DispatchSync

\* What starts a sync, and the webhooks.
LEMMA HookActions ==
  ASSUME PlaidInv, UNCHANGED env, StartSync \/ ReceiveWebhook \/ LoseWebhook
  PROVE  PlaidInv'
<1>1. PlaidTypeOK
  BY DEF PlaidInv
<1>2. UNCHANGED <<item, linked, broken, updates, cursor>> /\ hooks' \subseteq hooks
  BY DEF StartSync, ReceiveWebhook, LoseWebhook
<1>3. trouble' \in 0..MaxTrouble
  BY <1>1, TroubleType, TypeParts DEF StartSync, ReceiveWebhook, LoseWebhook
<1>4. (cooling' = cooling /\ sync' = sync) \/ DispatchSync
  BY DEF StartSync, ReceiveWebhook, LoseWebhook, RouteWebhook
<1>5. /\ cooling' \in BOOLEAN
      /\ sync' \in [Syncs -> Messages]
      /\ \A o \in Syncs : sync'[o] = sync[o] \/ sync'[o].pc \in {"none", "queued"}
  BY <1>1, <1>4, DispatchType, TypeParts
<1>6. /\ flagged' \in BOOLEAN
      /\ rec' \in [Txns -> {"absent", "active", "archived"}]
      /\ \A t \in Txns : rec'[t] = rec[t]
                       \/ (t \in hooks /\ rec[t] # "absent" /\ rec'[t] = "archived")
  <2>1. flagged \in BOOLEAN /\ rec \in [Txns -> {"absent", "active", "archived"}]
    BY <1>1, TypeParts
  <2>2. CASE StartSync \/ LoseWebhook
    <3>1. UNCHANGED <<flagged, rec>>
      BY <2>2 DEF StartSync, LoseWebhook
    <3> QED
      BY <2>1, <3>1
  <2>3. CASE ReceiveWebhook
    <3>1. PICK h \in hooks : RouteWebhook(h)
      BY <2>3 DEF ReceiveWebhook
    <3>2. flagged' \in BOOLEAN
      BY <3>1 DEF RouteWebhook
    <3>3. \/ rec' = rec
          \/ h \in Txns /\ rec[h] # "absent" /\ rec' = [rec EXCEPT ![h] = "archived"]
      BY <3>1 DEF RouteWebhook
    <3> QED
      BY <2>1, <3>2, <3>3
  <2> QED
    BY <2>2, <2>3
<1>7. PlaidTypeOK'
  BY <1>1, <1>2, <1>3, <1>5, <1>6 DEF PlaidTypeOK, Messages
<1>8. LogInv'
  BY <1>2, <1>5, <1>6, QuietStep
<1> QED
  BY <1>7, <1>8 DEF PlaidInv

\* A read of Plaid or a page that failed.
LEMMA FailedSync ==
  ASSUME PlaidInv, UNCHANGED env, NEW s \in Syncs,
         FetchFails(s) \/ StoreFails(s)
           \/ (StorePage(s) /\ ~(Updatable(s) /\ ItemThere(s)))
  PROVE  PlaidInv'
<1>1. PlaidTypeOK
  BY DEF PlaidInv
<1>2. /\ UNCHANGED <<item, linked, broken, flagged, updates, hooks, cooling, rec, cursor>>
      /\ RetrySync(s) /\ sync[s].pc \in {"asking", "storing"}
  BY DEF FetchFails, StoreFails, StorePage, SyncOnly, SavedCursor
<1>3. trouble' \in 0..MaxTrouble
  BY <1>1, TroubleType, TypeParts DEF FetchFails, StoreFails, StorePage
<1>4. /\ sync' \in [Syncs -> Messages]
      /\ \A o \in Syncs : sync'[o] = sync[o] \/ sync'[o].pc \in {"none", "queued"}
  BY <1>1, <1>2, RetryType DEF NoSync
<1>5. PlaidTypeOK'
  BY <1>1, <1>2, <1>3, <1>4 DEF PlaidTypeOK, Messages
<1>6. /\ rec' \in [Txns -> {"absent", "active", "archived"}]
      /\ \A t \in Txns : rec'[t] = rec[t]
  BY <1>1, <1>2, TypeParts
<1>7. LogInv'
  BY <1>2, <1>4, <1>6, QuietStep
<1> QED
  BY <1>5, <1>7 DEF PlaidInv

\* A sync that begins reads from the cursor.
LEMMA BeginSyncInv ==
  ASSUME PlaidInv, UNCHANGED env, NEW s \in Syncs, BeginSync(s)
  PROVE  PlaidInv'
<1> DEFINE r == IF item = "present"
                THEN [pc |-> "asking", tries |-> sync[s].tries, from |-> cursor]
                ELSE NoSync
<1>1. PlaidTypeOK /\ LogInv
  BY DEF PlaidInv
<1>2. /\ UNCHANGED <<item, linked, broken, flagged, updates, hooks, cooling, cursor, rec, trouble>>
      /\ sync' = [sync EXCEPT ![s] = r] /\ sync[s].pc = "queued"
      /\ "overlap" \in env \/ Syncing = {}
  BY DEF BeginSync, SyncOnly, Holds
<1>3. r \in Messages /\ (r.pc = "asking" => r.from = cursor) /\ r.pc \in {"asking", "none"}
  <2>1. sync[s] \in Messages /\ sync[s] # NoSync
    BY <1>1, <1>2, TypeParts DEF NoSync
  <2>2. sync[s].tries \in 0..Retries /\ cursor \in Position
    BY <1>1, <2>1, TypeParts DEF Messages
  <2> QED
    BY <2>2 DEF Messages, NoSync
<1>4. sync' \in [Syncs -> Messages] /\ sync'[s] = r
      /\ \A o \in Syncs : o # s => sync'[o] = sync[o]
  BY <1>1, <1>2, <1>3, TypeParts
<1> HIDE DEF r
<1>5. PlaidTypeOK'
  BY <1>1, <1>2, <1>4, TypeParts DEF PlaidTypeOK, Messages
<1>6. \A o \in Syncing' : (o = s /\ sync'[o].from = cursor)
                          \/ (o # s /\ o \in Syncing /\ sync'[o] = sync[o])
  BY <1>3, <1>4 DEF Syncing
<1>7. ReadsTheLog'
  BY <1>1, <1>2, <1>3, <1>4, <1>6 DEF LogInv, ReadsTheLog
<1>8. NoneMissing'
  BY <1>1, <1>2, <1>6 DEF LogInv, NoneMissing
<1>9. ASSUME Orderly' PROVE OneSync' /\ RemovalsLast' /\ RecordsCurrent'
  <2>1. Syncing = {} /\ RemovalsLast /\ RecordsCurrent
    BY <1>1, <1>2, <1>9 DEF LogInv, Orderly
  <2>2. OneSync'
    BY <1>2, <1>6, <2>1 DEF OneSync
  <2> QED
    BY <1>2, <2>1, <2>2 DEF RemovalsLast, RecordsCurrent
<1> QED
  BY <1>5, <1>7, <1>8, <1>9 DEF PlaidInv, LogInv

\* A page ends between where it starts and the end of the log.
LEMMA FetchPageInv ==
  ASSUME PlaidInv, UNCHANGED env, NEW s \in Syncs, FetchPage(s)
  PROVE  PlaidInv'
<1>1. PlaidTypeOK /\ LogInv /\ sync[s].pc = "asking"
      /\ UNCHANGED <<item, linked, broken, flagged, updates, hooks, cooling, cursor, rec, trouble>>
  BY DEF PlaidInv, FetchPage, SyncOnly
<1>2. s \in Syncing
  BY <1>1 DEF Syncing
<1>3. sync[s].tries \in 0..Retries /\ sync[s].from \in Position
  <2>1. sync[s] \in Messages /\ sync[s] # NoSync
    BY <1>1, TypeParts DEF NoSync
  <2> QED
    BY <1>1, <2>1 DEF Messages
<1>4. sync[s].from <= Len(updates) /\ Len(updates) \in Nat
  BY <1>1, <1>2, TypeParts DEF LogInv, ReadsTheLog
<1>5. PICK to \in Position :
        /\ to = (IF sync[s].from + PageSize < Len(updates)
                 THEN sync[s].from + PageSize ELSE Len(updates))
        /\ sync' = [sync EXCEPT ![s] =
             [pc |-> "storing", tries |-> sync[s].tries, from |-> sync[s].from,
              to |-> to, more |-> to < Len(updates)]]
  BY DEF FetchPage, Holds
<1>6. sync[s].from <= to /\ to <= Len(updates)
  BY <1>3, <1>4, <1>5, PlaidConstantsOK DEF Position
<1> DEFINE r == [pc |-> "storing", tries |-> sync[s].tries, from |-> sync[s].from,
                 to |-> to, more |-> to < Len(updates)]
<1>7. r \in Messages /\ r.pc = "storing" /\ r.from = sync[s].from /\ r.to = to
  <2>1. (to < Len(updates)) \in BOOLEAN
    OBVIOUS
  <2> QED
    BY <1>3, <2>1 DEF Messages
<1>8. sync' = [sync EXCEPT ![s] = r]
  BY <1>5
<1> HIDE DEF r
<1>9. sync' \in [Syncs -> Messages] /\ sync'[s] = r
      /\ \A o \in Syncs : o # s => sync'[o] = sync[o]
  BY <1>1, <1>7, <1>8, TypeParts
<1>10. PlaidTypeOK'
  BY <1>1, <1>9, TypeParts DEF PlaidTypeOK, Messages
<1>11. Syncing' = Syncing /\ \A o \in Syncing : sync'[o].from = sync[o].from
  BY <1>2, <1>7, <1>9 DEF Syncing
<1>12. ReadsTheLog'
  BY <1>1, <1>4, <1>6, <1>7, <1>9, <1>11 DEF LogInv, ReadsTheLog
<1>13. NoneMissing'
  BY <1>1, <1>11 DEF LogInv, NoneMissing
<1>14. ASSUME Orderly' PROVE OneSync' /\ RemovalsLast' /\ RecordsCurrent'
  BY <1>1, <1>11, <1>14 DEF LogInv, Orderly, OneSync, RemovalsLast, RecordsCurrent
<1> QED
  BY <1>10, <1>12, <1>13, <1>14 DEF PlaidInv, LogInv

\* A new update leaves what was read as it was.
LEMMA BankReportsInv ==
  ASSUME PlaidInv, UNCHANGED env, BankReports
  PROVE  PlaidInv'
<1>1. PlaidTypeOK /\ LogInv
      /\ UNCHANGED <<item, linked, broken, flagged, cursor, rec, cooling, sync, trouble>>
  BY DEF PlaidInv, BankReports
<1>2. PICK kind \in {"added", "modified", "removed"}, u \in Txns :
        /\ MayReport(kind, u)
        /\ updates' = Append(updates, [kind |-> kind, txn |-> u])
        /\ hooks' = hooks \cup {SyncAvailable} \cup (IF kind = "removed" THEN {u} ELSE {})
  BY DEF BankReports
<1> DEFINE new == [kind |-> kind, txn |-> u]
<1>3. /\ new \in Updates /\ updates \in Seq(Updates) /\ Len(updates) \in Nat
      /\ new.txn = u /\ new.kind = kind
  BY <1>1, TypeParts DEF Updates
<1>4. Len(updates) < MaxUpdates
  BY DEF BankReports
<1> HIDE DEF new
<1>5. updates' = Append(updates, new)
  BY <1>2 DEF new
<1>6. /\ updates' \in Seq(Updates) /\ Len(updates') = Len(updates) + 1
  BY <1>3, <1>5
<1>7. PlaidTypeOK'
  <2>1. Len(updates') <= MaxUpdates
    BY <1>3, <1>4, <1>6, PlaidConstantsOK
  <2>2. hooks' \subseteq {SyncAvailable, LoginRequired} \cup Txns
    BY <1>1, <1>2, TypeParts
  <2> QED
    BY <1>1, <1>6, <2>1, <2>2, TypeParts DEF PlaidTypeOK, Messages, Updates
<1>8. \A t, i : i \in 0..Len(updates) => (Has(updates', t, i) <=> Has(updates, t, i))
  BY <1>3, <1>5, PastStays
<1>9. cursor \in 0..Len(updates) /\ \A s \in Syncing : sync[s].from \in 0..Len(updates)
  <2>1. \A s \in Syncing : sync[s].from \in Nat
    BY <1>1, TypeParts DEF Syncing, Messages, NoSync, Position
  <2> QED
    BY <1>1, <1>3, <2>1, TypeParts DEF LogInv, ReadsTheLog, Position
<1>10. \A t, c : c \in 0..Len(updates) /\ GoneSince(updates, t, c) => GoneSince(updates', t, c)
  BY <1>3, <1>6, <1>8 DEF GoneSince
<1>11. Syncing' = Syncing
  BY <1>1 DEF Syncing
<1>12. ReadsTheLog'
  <2>1. \A s \in Syncs : sync[s].pc = "storing" => sync[s].to \in Nat
    BY <1>1, TypeParts DEF Messages, NoSync, Position
  <2> QED
    BY <1>1, <1>3, <1>6, <1>9, <1>11, <2>1 DEF LogInv, ReadsTheLog
<1>13. NoneMissing'
  BY <1>1, <1>9, <1>10, <1>11 DEF LogInv, NoneMissing
<1>14. ASSUME Orderly' PROVE OneSync' /\ RemovalsLast' /\ RecordsCurrent'
  <2>1. OneSync /\ RemovalsLast /\ RecordsCurrent /\ "readd" \notin env
    BY <1>1, <1>14 DEF LogInv, Orderly
  <2>2. OneSync'
    BY <1>1, <1>11, <2>1 DEF OneSync
  <2>3. RecordsCurrent'
    BY <1>1, <1>8, <1>9, <1>10, <2>1 DEF RecordsCurrent
  <2>4. ASSUME NEW t \in hooks' \cap Txns
        PROVE  Mentions(updates', t, Len(updates')) # {} /\ ~Has(updates', t, Len(updates'))
    <3>1. /\ Mentions(updates', t, Len(updates')) =
               Mentions(updates, t, Len(updates))
                 \cup (IF u = t THEN {Len(updates) + 1} ELSE {})
          /\ Has(updates', t, Len(updates')) <=>
               IF u = t THEN kind # "removed" ELSE Has(updates, t, Len(updates))
      <4>1. /\ Mentions(Append(updates, new), t, Len(updates) + 1) =
                 Mentions(updates, t, Len(updates))
                   \cup (IF u = t THEN {Len(updates) + 1} ELSE {})
            /\ Has(Append(updates, new), t, Len(updates) + 1) <=>
                 IF u = t THEN kind # "removed" ELSE Has(updates, t, Len(updates))
        BY <1>3, LastDecides
      <4> QED
        BY <4>1, <1>5, <1>6
    <3>2. CASE u = t /\ kind = "removed"
      BY <3>1, <3>2
    <3>3. CASE ~(u = t /\ kind = "removed")
      <4>1. t \in hooks
        BY <1>2, <2>4, <3>3, WebhookNamesOK
      <4>2. Mentions(updates, t, Len(updates)) # {} /\ ~Has(updates, t, Len(updates))
        BY <2>1, <2>4, <4>1 DEF RemovalsLast
      <4>3. u # t
        <5> SUFFICES ASSUME u = t PROVE FALSE
          OBVIOUS
        <5>1. About(t, Len(updates)) # {} /\ ~AtBank(t, Len(updates))
          BY <4>2, AboutIs, AtBankIs
        <5>2. CASE kind = "added"
          <6>1. "readd" \in env \/ About(t, Len(updates)) = {}
            BY <1>2, <5>2 DEF MayReport
          <6> QED
            BY <2>1, <5>1, <6>1
        <5>3. CASE kind # "added"
          BY <1>2, <5>1, <5>3 DEF MayReport
        <5> QED
          BY <5>2, <5>3
      <4> QED
        BY <3>1, <4>2, <4>3
    <3> QED
      BY <3>2, <3>3
  <2> QED
    BY <2>1, <2>2, <2>3, <2>4 DEF RemovalsLast
<1> QED
  BY <1>7, <1>12, <1>13, <1>14 DEF PlaidInv, LogInv

\* What a page does not build and was once not at the bank stays so to its end.
LEMMA StillGone ==
  ASSUME PlaidInv, NEW s \in Syncs, sync[s].pc = "storing",
         NEW t \in Txns, t \notin Built(s), GoneSince(updates, t, sync[s].from)
  PROVE  GoneSince(updates, t, sync[s].to)
<1> DEFINE from == sync[s].from
           to == sync[s].to
<1>1. from \in Nat /\ to \in Nat /\ from <= to /\ to <= Len(updates) /\ Len(updates) \in Nat
  BY TypeParts DEF PlaidInv, LogInv, ReadsTheLog, Messages, NoSync, Position
<1>2. PICK i \in from..Len(updates) : ~Has(updates, t, i)
  BY DEF GoneSince
<1>3. CASE i >= to
  BY <1>1, <1>2, <1>3 DEF GoneSince
<1>4. CASE i < to
  <2>1. ~Has(updates, t, to)
    <3> SUFFICES ASSUME Has(updates, t, to) PROVE FALSE
      OBVIOUS
    <3>1. \E j \in Mentions(updates, t, to) : j > i
      <4>1. i \in Nat /\ i <= to
        BY <1>1, <1>2, <1>4
      <4> QED
        BY <1>1, <1>2, <4>1, ChangedBetween
    <3>2. \E j \in About(t, to) : j > from
      <4>1. PICK j \in Mentions(updates, t, to) : j > i
        BY <3>1
      <4>2. j \in Nat /\ i >= from /\ i \in Nat
        BY <1>1, <1>2, <4>1 DEF Mentions
      <4> QED
        BY <1>1, <4>1, <4>2, AboutIs
    <3>3. AtBank(t, to)
      BY AtBankIs
    <3> QED
      BY <3>2, <3>3 DEF Built, Added, Modified
  <2> QED
    BY <1>1, <2>1 DEF GoneSince
<1> QED
  BY <1>1, <1>2, <1>3, <1>4

\* A page and its cursor are stored together.
LEMMA StorePageInv ==
  ASSUME PlaidInv, UNCHANGED env, NEW s \in Syncs, StorePage(s)
  PROVE  PlaidInv'
<1>1. CASE ~(Updatable(s) /\ ItemThere(s))
  BY <1>1, FailedSync
<1>2. CASE Updatable(s) /\ ItemThere(s)
  <2> DEFINE from == sync[s].from
             to == sync[s].to
             r == IF sync[s].more
                  THEN [pc |-> "asking", tries |-> sync[s].tries, from |-> to]
                  ELSE NoSync
  <2>1. PlaidTypeOK /\ LogInv /\ sync[s].pc = "storing" /\ s \in Syncing
        /\ UNCHANGED <<item, linked, broken, flagged, updates, hooks, cooling, trouble>>
    BY DEF PlaidInv, StorePage, SyncOnly, Syncing
  <2>2. /\ cursor' = to
        /\ rec' = [t \in Txns |-> IF t \in Built(s) THEN "active"
                                  ELSE IF t \in Removed(s) /\ rec[t] # "absent"
                                       THEN "archived" ELSE rec[t]]
        /\ sync' = [sync EXCEPT ![s] = r]
    BY <1>2 DEF StorePage, SavedCursor, Holds
  <2>3. /\ from \in Position /\ to \in Position /\ from <= to /\ to <= Len(updates)
        /\ Len(updates) \in Nat /\ sync[s].tries \in 0..Retries
    <3>1. sync[s] \in Messages /\ sync[s] # NoSync
      BY <2>1, TypeParts DEF NoSync
    <3>2. from \in Position /\ to \in Position /\ sync[s].tries \in 0..Retries
      BY <2>1, <3>1 DEF Messages
    <3> QED
      BY <2>1, <3>2, TypeParts DEF LogInv, ReadsTheLog
  <2>4. r \in Messages /\ r.pc \in {"asking", "none"} /\ (r.pc = "asking" => r.from = to)
    BY <2>3 DEF Messages, NoSync
  <2> HIDE DEF r
  <2>5. sync' \in [Syncs -> Messages] /\ sync'[s] = r
        /\ \A o \in Syncs : o # s => sync'[o] = sync[o]
    BY <2>1, <2>2, <2>4, TypeParts
  <2>6. rec' \in [Txns -> {"absent", "active", "archived"}]
    BY <2>1, <2>2, TypeParts
  <2>7. PlaidTypeOK'
    BY <2>1, <2>2, <2>3, <2>5, <2>6, TypeParts DEF PlaidTypeOK, Messages
  <2>8. \A o \in Syncing' : (o = s /\ sync'[o].from = to)
                            \/ (o # s /\ o \in Syncing /\ sync'[o] = sync[o])
    BY <2>4, <2>5 DEF Syncing
  <2>9. ReadsTheLog'
    <3>1. \A o \in Syncing' : sync'[o].from <= Len(updates')
      BY <2>1, <2>3, <2>8 DEF LogInv, ReadsTheLog
    <3>2. \A o \in Syncs : sync'[o].pc = "storing" =>
            sync'[o].from <= sync'[o].to /\ sync'[o].to <= Len(updates')
      BY <2>1, <2>4, <2>5 DEF LogInv, ReadsTheLog
    <3> QED
      BY <2>1, <2>2, <2>3, <3>1, <3>2 DEF ReadsTheLog
  <2>10. NoneMissing'
    <3> SUFFICES ASSUME NEW t \in Txns, rec'[t] = "absent"
                 PROVE  /\ GoneSince(updates, t, to)
                        /\ \A o \in Syncing' : GoneSince(updates, t, sync'[o].from)
      BY <2>1, <2>2 DEF NoneMissing
    <3>1. t \notin Built(s) /\ rec[t] = "absent"
      BY <2>2
    <3>2. \A o \in Syncing : GoneSince(updates, t, sync[o].from)
      BY <2>1, <3>1 DEF LogInv, NoneMissing
    <3>3. GoneSince(updates, t, to)
      BY <2>1, <3>1, <3>2, StillGone
    <3> QED
      BY <2>8, <3>2, <3>3
  <2>11. ASSUME Orderly' PROVE OneSync' /\ RemovalsLast' /\ RecordsCurrent'
    <3>1. OneSync /\ RemovalsLast /\ RecordsCurrent
      BY <2>1, <2>11 DEF LogInv, Orderly
    <3>2. from = cursor /\ \A o \in Syncing : o = s
      BY <2>1, <3>1 DEF OneSync
    <3>3. OneSync'
      BY <2>2, <2>8, <3>2 DEF OneSync
    <3>4. RemovalsLast'
      BY <2>1, <3>1 DEF RemovalsLast
    <3>5. ASSUME NEW t \in Txns, rec'[t] = "active" PROVE Has(updates, t, to)
      <4>1. CASE t \in Built(s)
        BY <4>1, AtBankIs DEF Built, Added, Modified
      <4>2. CASE t \notin Built(s)
        <5>1. rec[t] = "active" /\ t \notin Removed(s)
          BY <2>2, <3>5, <4>2
        <5>2. Has(updates, t, from)
          BY <3>1, <3>2, <5>1 DEF RecordsCurrent
        <5> QED
          BY <5>1, <5>2, AtBankIs DEF Removed
      <4> QED
        BY <4>1, <4>2
    <3>6. ASSUME NEW t \in Txns, rec'[t] = "archived" PROVE GoneSince(updates, t, to)
      <4>1. t \notin Built(s) /\ (t \in Removed(s) \/ rec[t] = "archived")
        BY <2>2, <3>6
      <4>2. CASE t \in Removed(s)
        <5>1. ~Has(updates, t, to)
          BY <4>2, AtBankIs DEF Removed
        <5>2. to \in to..Len(updates)
          BY <2>3 DEF Position
        <5> QED
          BY <5>1, <5>2 DEF GoneSince
      <4>3. CASE rec[t] = "archived"
        <5>1. GoneSince(updates, t, from)
          BY <3>1, <3>2, <4>3 DEF RecordsCurrent
        <5> QED
          BY <2>1, <4>1, <5>1, StillGone
      <4> QED
        BY <4>1, <4>2, <4>3
    <3>7. RecordsCurrent'
      BY <2>1, <2>2, <3>5, <3>6 DEF RecordsCurrent
    <3> QED
      BY <3>3, <3>4, <3>7
  <2> QED
    BY <2>7, <2>9, <2>10, <2>11 DEF PlaidInv, LogInv
<1> QED
  BY <1>1, <1>2

LEMMA PlaidNext_Inv == PlaidInv /\ [PlaidNext /\ UNCHANGED env]_<<env, plaidVars>> => PlaidInv'
<1> SUFFICES ASSUME PlaidInv, [PlaidNext /\ UNCHANGED env]_<<env, plaidVars>> PROVE PlaidInv'
  OBVIOUS
<1>1. CASE UNCHANGED <<env, plaidVars>>
  BY <1>1 DEF plaidVars, PlaidInv, PlaidTypeOK, LogInv, ReadsTheLog, NoneMissing, Orderly,
              OneSync, RemovalsLast, RecordsCurrent, Syncing
<1>2. CASE PlaidNext /\ UNCHANGED env
  BY <1>2, BankActions, HookActions, FailedSync, BeginSyncInv, FetchPageInv, BankReportsInv,
     StorePageInv DEF PlaidNext
<1> QED
  BY <1>1, <1>2

-----------------------------------------------------------------------------
(* The theorem.                                                            *)

\* Every transaction has the record it had to have at the cursor or later: a
\* page that fails, a task that stops or starts again, and webhooks lost,
\* repeated or early never move the cursor past what was stored (tasks.py).
THEOREM NoUpdateIsSkipped == PlaidSpec => []NothingIsSkipped
<1>1. PlaidInv => NothingIsSkipped
  <2> SUFFICES ASSUME PlaidInv, NEW t \in Txns
               PROVE  \E i \in cursor..Len(updates) :
                        /\ AtBank(t, i) => rec[t] # "absent"
                        /\ env \cap {"overlap", "readd"} = {} =>
                             (AtBank(t, i) <=> rec[t] = "active")
    BY DEF NothingIsSkipped
  <2>1. cursor \in cursor..Len(updates)
    BY TypeParts DEF PlaidInv, LogInv, ReadsTheLog, Position
  <2>2. rec[t] \in {"absent", "active", "archived"}
    BY TypeParts DEF PlaidInv
  <2>3. CASE rec[t] = "absent"
    <3>1. PICK i \in cursor..Len(updates) : ~Has(updates, t, i)
      BY <2>3 DEF PlaidInv, LogInv, NoneMissing, GoneSince
    <3> QED
      BY <2>3, <3>1, AtBankIs
  <2>4. CASE rec[t] # "absent" /\ ~Orderly
    BY <2>1, <2>4 DEF Orderly
  <2>5. CASE rec[t] = "active" /\ Orderly
    <3>1. Has(updates, t, cursor)
      BY <2>5 DEF PlaidInv, LogInv, RecordsCurrent
    <3> QED
      BY <2>1, <2>5, <3>1, AtBankIs
  <2>6. CASE rec[t] = "archived" /\ Orderly
    <3>1. PICK i \in cursor..Len(updates) : ~Has(updates, t, i)
      BY <2>6 DEF PlaidInv, LogInv, RecordsCurrent, GoneSince
    <3> QED
      BY <2>6, <3>1, AtBankIs
  <2> QED
    BY <2>2, <2>3, <2>4, <2>5, <2>6
<1> QED
  BY <1>1, PlaidInit_Inv, PlaidNext_Inv, PTL DEF PlaidSpec

\* Once DisconnectBankView has deleted the item, a sync that read its page before
\* stores nothing: save(update_fields) takes the page's records back with the
\* cursor, and webhooks that arrive late find no item.
THEOREM DisconnectedQuietAlways == PlaidSpec => DisconnectedStaysQuiet
<1>1. ASSUME PlaidNext, item = "deleted" PROVE UNCHANGED <<rec, cursor>>
  <2>1. ~LinkBank /\ ~RemoveAtPlaid /\ ~DeleteItem /\ ~StartSync /\ ~LogInAgain
    BY <1>1 DEF LinkBank, RemoveAtPlaid, DeleteItem, StartSync, LogInAgain
  <2>2. CooldownEnds \/ LoseWebhook \/ BankReports \/ LoginExpires
          => UNCHANGED <<rec, cursor>>
    BY DEF CooldownEnds, LoseWebhook, BankReports, LoginExpires
  <2>3. ReceiveWebhook => UNCHANGED <<rec, cursor>>
    BY <1>1 DEF ReceiveWebhook, RouteWebhook
  <2>4. ASSUME NEW s \in Syncs, BeginSync(s) \/ FetchPage(s) \/ FetchFails(s) \/ StoreFails(s)
        PROVE  UNCHANGED <<rec, cursor>>
    BY <2>4 DEF BeginSync, FetchPage, FetchFails, StoreFails, SavedCursor
  <2>5. ASSUME NEW s \in Syncs, StorePage(s)
        PROVE  UNCHANGED <<rec, cursor>>
    BY <1>1, <2>5 DEF StorePage, ItemThere, SavedCursor
  <2> QED BY <1>1, <2>1, <2>2, <2>3, <2>4, <2>5 DEF PlaidNext
<1>2. [PlaidNext /\ UNCHANGED env]_<<env, plaidVars>>
        => [item = "deleted" => UNCHANGED <<rec, cursor>>]_plaidVars
  BY <1>1 DEF plaidVars
<1> QED BY <1>2, PTL DEF PlaidSpec, DisconnectedStaysQuiet
=============================================================================
