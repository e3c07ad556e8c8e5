------------------------------ MODULE PlaidSync ------------------------------
(***************************************************************************)
(* The synchronisation of one linked bank (PlaidItem).  Plaid keeps a log  *)
(* of updates; a task reads it page by page from the stored cursor, stores *)
(* each page together with the new cursor and starts again from the stored *)
(* cursor when it fails.  Webhooks, the user's button and an hourly task   *)
(* start it, through a cooldown.                                           *)
(***************************************************************************)
EXTENDS Naturals, Sequences, FiniteSets, Scenarios

CONSTANTS
  Txns,         \* transactions at the bank
  Syncs,        \* messages of sync_and_convert_for_item_task
  MaxUpdates,   \* bound: updates Plaid reports
  PageSize,     \* updates in one answer of transactions_sync
  Retries,      \* max_retries of the task
  MaxTrouble    \* bound: crashes, lost and repeated webhooks, failed calls

ASSUME PlaidConstantsOK ==
  /\ MaxUpdates \in Nat /\ Retries \in Nat /\ MaxTrouble \in Nat
  /\ PageSize \in Nat \ {0}

\* The words of a scenario: trouble, login, disconnect, overlap, readd, modify.

VARIABLES
  item,       \* the PlaidItem row
  linked,     \* Plaid holds the Item
  broken,     \* Plaid asks for a new login
  flagged,    \* last_error_code is set
  updates,    \* what Plaid has reported
  hooks,      \* webhooks under way
  cursor,     \* PlaidItem.next_cursor
  rec,        \* the Record of each transaction
  cooling,    \* last_synced_at is younger than the cooldown
  sync,       \* the messages and what their worker holds
  trouble     \* faults so far

plaidVars == <<item, linked, broken, flagged, updates, hooks, cursor, rec,
               cooling, sync, trouble>>

NoSync == [pc |-> "none"]
SyncAvailable == "SYNC_UPDATES_AVAILABLE"
LoginRequired == "ITEM_LOGIN_REQUIRED"
ASSUME WebhookNamesOK == {SyncAvailable, LoginRequired} \cap Txns = {}

Position == 0..MaxUpdates

PlaidTypeOK ==
  /\ item \in {"none", "present", "deleted"}
  /\ linked \in BOOLEAN /\ broken \in BOOLEAN /\ flagged \in BOOLEAN
  /\ updates \in Seq([kind : {"added", "modified", "removed"}, txn : Txns])
  /\ Len(updates) <= MaxUpdates
  /\ hooks \subseteq {SyncAvailable, LoginRequired} \cup Txns
  /\ cursor \in Position
  /\ rec \in [Txns -> {"absent", "active", "archived"}]
  /\ cooling \in BOOLEAN
  /\ sync \in [Syncs ->
       {NoSync} \cup [pc : {"queued"}, tries : 0..Retries]
                \cup [pc : {"asking"}, tries : 0..Retries, from : Position]
                \cup [pc : {"storing"}, tries : 0..Retries, from : Position,
                      to : Position, more : BOOLEAN]]
  /\ trouble \in 0..MaxTrouble

PlaidInit ==
  /\ item = "none" /\ linked = FALSE /\ broken = FALSE /\ flagged = FALSE
  /\ updates = <<>> /\ hooks = {} /\ cursor = 0
  /\ rec = [t \in Txns |-> "absent"]
  /\ cooling = FALSE
  /\ sync = [s \in Syncs |-> NoSync]
  /\ trouble = 0

-----------------------------------------------------------------------------
(* What Plaid's log says.                                                  *)

About(t, i) == {j \in 1..i : updates[j].txn = t}
AtBank(t, i) ==
  \E j \in About(t, i) : /\ \A k \in About(t, i) : k <= j
                         /\ updates[j].kind # "removed"

\* A page holds the difference between its two ends.
Removed(s) == {t \in Txns : AtBank(t, sync[s].from) /\ ~AtBank(t, sync[s].to)}
Added(s) == {t \in Txns : ~AtBank(t, sync[s].from) /\ AtBank(t, sync[s].to)}
Modified(s) ==
  {t \in Txns : /\ AtBank(t, sync[s].from) /\ AtBank(t, sync[s].to)
                /\ \E j \in About(t, sync[s].to) : j > sync[s].from}

Trouble == "trouble" \in env /\ trouble < MaxTrouble /\ trouble' = trouble + 1
Holds(s, r) == sync' = [sync EXCEPT ![s] = r]
Enqueue == \E s \in Syncs :
             /\ sync[s] = NoSync
             /\ Holds(s, [pc |-> "queued", tries |-> Retries])
Syncing == {s \in Syncs : sync[s].pc \in {"asking", "storing"}}

-----------------------------------------------------------------------------
(* Linking, and what starts a sync.                                        *)

\* PublicTokenExchange and trigger_initial_sync, which knows no cooldown.
LinkBank ==
  /\ item = "none" /\ ~linked
  /\ linked' = TRUE /\ item' = "present"
  /\ Enqueue
  /\ UNCHANGED <<broken, flagged, updates, hooks, cursor, rec, cooling, trouble>>

\* Mutant: only an item that was never synced is due.
CooledDownNever == ~cooling /\ cursor = 0
CooledDown == ~cooling

\* dispatch_sync takes the cooldown in one UPDATE and sends the message.
DispatchSync ==
  \/ item = "present" /\ CooledDown /\ cooling' = TRUE /\ Enqueue
  \/ item = "present" /\ ~CooledDown /\ UNCHANGED <<cooling, sync>>
  \/ item # "present" /\ UNCHANGED <<cooling, sync>>

\* SyncTransactionsView and periodic_plaid_sync_task
StartSync ==
  /\ item = "present" /\ CooledDown
  /\ DispatchSync
  /\ UNCHANGED <<item, linked, broken, flagged, updates, hooks, cursor, rec, trouble>>

\* A minute goes by: nearly every sync is faster than that.
CooldownEnds ==
  /\ cooling /\ cooling' = FALSE
  /\ "overlap" \in env \/ \A s \in Syncs : sync[s] = NoSync
  /\ UNCHANGED <<item, linked, broken, flagged, updates, hooks, cursor, rec,
                 sync, trouble>>

\* plaid_webhook and route_webhook: an unknown item is answered without work.
RouteWebhook(h) ==
  /\ IF h = SyncAvailable THEN DispatchSync ELSE UNCHANGED <<cooling, sync>>
  /\ flagged' = (flagged \/ (h = LoginRequired /\ item = "present"))
  /\ rec' = IF h \in Txns /\ item = "present" /\ rec[h] # "absent"
            THEN [rec EXCEPT ![h] = "archived"] ELSE rec

ReceiveWebhook ==
  \E h \in hooks :
    /\ RouteWebhook(h)
    /\ \/ hooks' = hooks \ {h} /\ UNCHANGED trouble
       \/ Trouble /\ UNCHANGED hooks          \* Plaid sends it once more
    /\ UNCHANGED <<item, linked, broken, updates, cursor>>

LoseWebhook ==
  /\ Trouble
  /\ \E h \in hooks : hooks' = hooks \ {h}
  /\ UNCHANGED <<item, linked, broken, flagged, updates, cursor, rec, cooling, sync>>

-----------------------------------------------------------------------------
(* The bank and Plaid.                                                     *)

\* A removed transaction comes back only with "readd".
MayReport(kind, t) ==
  CASE kind = "added" -> /\ ~AtBank(t, Len(updates))
                         /\ "readd" \in env \/ About(t, Len(updates)) = {}
    [] kind = "modified" -> "modify" \in env /\ AtBank(t, Len(updates))
    [] OTHER -> AtBank(t, Len(updates))

BankReports ==
  /\ linked /\ ~broken /\ Len(updates) < MaxUpdates
  /\ \E kind \in {"added", "modified", "removed"}, t \in Txns :
       /\ MayReport(kind, t)
       /\ updates' = Append(updates, [kind |-> kind, txn |-> t])
       /\ hooks' = hooks \cup {SyncAvailable}
                         \cup (IF kind = "removed" THEN {t} ELSE {})
  /\ UNCHANGED <<item, linked, broken, flagged, cursor, rec, cooling, sync, trouble>>

LoginExpires ==
  /\ "login" \in env /\ linked /\ ~broken /\ ~flagged
  /\ broken' = TRUE /\ hooks' = hooks \cup {LoginRequired}
  /\ UNCHANGED <<item, linked, flagged, updates, cursor, rec, cooling, sync, trouble>>

\* CreateUpdateLinkTokenView: the user logs in again at the bank.
LogInAgain ==
  /\ broken /\ item = "present"
  /\ broken' = FALSE
  /\ UNCHANGED <<item, linked, flagged, updates, hooks, cursor, rec, cooling,
                 sync, trouble>>

\* DisconnectBankView removes the Item at Plaid first.
RemoveAtPlaid ==
  /\ "disconnect" \in env /\ item = "present" /\ linked
  /\ linked' = FALSE
  /\ UNCHANGED <<item, broken, flagged, updates, hooks, cursor, rec, cooling,
                 sync, trouble>>

DeleteItem ==
  /\ item = "present" /\ ~linked
  /\ item' = "deleted"
  /\ UNCHANGED <<linked, broken, flagged, updates, hooks, cursor, rec, cooling,
                 sync, trouble>>

-----------------------------------------------------------------------------
(* sync_and_convert_for_item_task                                          *)

SyncOnly == UNCHANGED <<item, linked, broken, flagged, updates, hooks, cooling>>

\* The item is read once, and its cursor with it.
BeginSync(s) ==
  /\ sync[s].pc = "queued"
  /\ "overlap" \in env \/ Syncing = {}
  /\ Holds(s, IF item = "present"
            THEN [pc |-> "asking", tries |-> sync[s].tries, from |-> cursor]
            ELSE NoSync)
  /\ SyncOnly /\ UNCHANGED <<cursor, rec, trouble>>

\* Dramatiq retries a failed run and gives up after the last.
RetrySync(s) ==
  Holds(s, IF sync[s].tries = 0 THEN NoSync
         ELSE [pc |-> "queued", tries |-> sync[s].tries - 1])

\* transactions_sync answers from the log as it is now.
FetchPage(s) ==
  /\ sync[s].pc = "asking" /\ linked /\ ~broken
  /\ \E to \in Position :
       /\ to = (IF sync[s].from + PageSize < Len(updates)
                THEN sync[s].from + PageSize ELSE Len(updates))
       /\ Holds(s, [pc |-> "storing", tries |-> sync[s].tries, from |-> sync[s].from,
                  to |-> to, more |-> to < Len(updates)])
  /\ SyncOnly /\ UNCHANGED <<cursor, rec, trouble>>

FetchFails(s) ==
  /\ sync[s].pc = "asking"
  /\ \/ (~linked \/ broken) /\ UNCHANGED trouble
     \/ Trouble
  /\ RetrySync(s)
  /\ SyncOnly /\ UNCHANGED <<cursor, rec>>

\* _process_added_modified_transactions builds every record anew, without its
\* key, and bulk_update refuses those that exist already.
Built(s) == Added(s) \cup Modified(s)
Updatable(s) == {t \in Built(s) : rec[t] # "absent"} = {}

\* Mutant: the cursor is saved with an INSERT OR UPDATE.
ItemThereAlways(s) == TRUE
\* save(update_fields) fails when the row is gone.
ItemThere(s) == item = "present"

\* Mutant: the cursor is saved outside the transaction of the page.
SavedCursorAlways(s, stored) == sync[s].to
SavedCursor(s, stored) == IF stored THEN sync[s].to ELSE cursor

\* One transaction per page: removals, then additions, then the cursor.
StorePage(s) ==
  /\ sync[s].pc = "storing"
  /\ LET stored == Updatable(s) /\ ItemThere(s) IN
     /\ cursor' = SavedCursor(s, stored)
     /\ IF stored
        THEN /\ rec' = [t \in Txns |->
                          IF t \in Built(s) THEN "active"
                          ELSE IF t \in Removed(s) /\ rec[t] # "absent"
                               THEN "archived" ELSE rec[t]]
             /\ Holds(s, IF sync[s].more
                       THEN [pc |-> "asking", tries |-> sync[s].tries,
                             from |-> sync[s].to]
                       ELSE NoSync)      \* then _match_records_to_documents
        ELSE RetrySync(s) /\ UNCHANGED rec
  /\ SyncOnly /\ UNCHANGED trouble

\* The transaction fails for a reason of its own, or the worker stops and the
\* message is delivered again.
StoreFails(s) ==
  /\ Trouble /\ sync[s].pc = "storing"
  /\ RetrySync(s)
  /\ cursor' = SavedCursor(s, FALSE)
  /\ SyncOnly /\ UNCHANGED rec

PlaidNext ==
  \/ LinkBank \/ StartSync \/ CooldownEnds \/ ReceiveWebhook \/ LoseWebhook
  \/ BankReports \/ LoginExpires \/ LogInAgain \/ RemoveAtPlaid \/ DeleteItem
  \/ \E s \in Syncs : \/ BeginSync(s) \/ FetchPage(s) \/ FetchFails(s)
                      \/ StorePage(s) \/ StoreFails(s)

PlaidSpec == PlaidInit /\ [][PlaidNext /\ UNCHANGED env]_<<env, plaidVars>>

\* Cron runs every hour and the workers keep working; users need do nothing.
PlaidFairness(w) ==
  /\ WF_plaidVars(w \in env /\ StartSync) /\ WF_plaidVars(w \in env /\ CooldownEnds)
  /\ \A s \in Syncs :
       /\ WF_plaidVars(w \in env /\ BeginSync(s))
       /\ WF_plaidVars(w \in env /\ (FetchPage(s) \/ FetchFails(s)))
       /\ WF_plaidVars(w \in env /\ StorePage(s))

-----------------------------------------------------------------------------
(* Properties.                                                             *)

\* The records agree with the bank as of the cursor or later, transaction by
\* transaction: a failed page, a retry or a repeated, early or late webhook
\* never moves the cursor past an update that was not stored (tasks.py, the
\* transaction of each page), whatever an answer leaves out because a later
\* update undid it.  When syncs overlap or transactions come back a record may
\* be active or archived wrongly, but none is missing.
NothingIsSkipped ==
  \A t \in Txns : \E i \in cursor..Len(updates) :
    /\ AtBank(t, i) => rec[t] # "absent"
    /\ env \cap {"overlap", "readd"} = {} => (AtBank(t, i) <=> rec[t] = "active")

\* Once the bank is disconnected no sync still under way adds or changes a
\* record (views/status.py, DisconnectBankView; tasks.py, save(update_fields)).
DisconnectedStaysQuiet == [][item = "deleted" => UNCHANGED <<rec, cursor>>]_plaidVars

\* A bank that stays linked and logged in ends up synchronised, though
\* webhooks are lost and workers stop (tasks.py, periodic_plaid_sync_task: "a
\* missed or undelivered webhook would otherwise leave transactions un-synced").
SyncCatchesUp ==
  /\ env \cap {"overlap", "readd", "modify"} = {}
  /\ <>[](item = "present" /\ linked /\ ~broken)
  => <>[](cursor = Len(updates))

\* tasks.py:205 "Plaid corrections can re-add ("resurrect") a transaction that
\* was previously removed; without this the record stays inactive forever".
ResurrectedIsActive ==
  \A t \in Txns :
    (rec[t] = "archived" /\ AtBank(t, Len(updates)))
      ~> (rec[t] = "active" \/ ~AtBank(t, Len(updates)) \/ ~linked)
=============================================================================
