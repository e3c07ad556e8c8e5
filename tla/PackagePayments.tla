-------------------------- MODULE PackagePayments --------------------------
(***************************************************************************)
(* The money path of one reimbursement package: checkout requests claim a  *)
(* PackagePayment row under the package row lock and open a Stripe         *)
(* Checkout Session for it; Dramatiq workers apply Stripe's webhook events *)
(* and the reconciliation sync to the payment rows and to the package; the *)
(* creator may delete the package at any time.                             *)
(*                                                                         *)
(* PostgreSQL runs READ COMMITTED: a worker reads a payment and its        *)
(* package in one statement (Load...) and acts on that copy in a later     *)
(* step, so what it read may be stale by then.  The writes of one webhook  *)
(* transaction are one step; a sync task has no surrounding transaction,   *)
(* so its two writes are two steps.  Every HTTP call to Stripe is a step.  *)
(***************************************************************************)
EXTENDS Naturals, FiniteSets

CONSTANTS
  Checkouts,     \* concurrent checkout requests
  Workers,       \* Dramatiq worker threads
  MaxPayments,   \* bound: payment rows the package may ever get
  MaxCrashes,    \* bound: process crashes
  External,      \* TRUE when the recipient has no account (starts queued)
  Env            \* which of EnvKinds the environment may do

EnvKinds == {"lookup_failure", "create_failure", "decline", "refund",
             "transfer_failure", "dispute", "delete", "reconcile",
             "page_sync", "rate_outage", "slow_request"}

ASSUME ConstantsOK ==
  /\ MaxPayments \in Nat
  /\ MaxCrashes \in Nat
  /\ External \in BOOLEAN
  /\ Env \subseteq EnvKinds

NoPay == 0
NoOne == "no one"
ASSUME NoOneOK == NoOne \notin Checkouts

Payments == 1..MaxPayments      \* rows in primary-key (created_at) order

\* A row is "fresh" or "stale" while it still has its "pending:" session id
\* (younger or older than PENDING_SESSION_STALENESS), "live" once it names a
\* real session, and "gone" when it was deleted.
RowStates == {"unused", "fresh", "stale", "live", "gone"}
CheckoutSteps == {"idle", "began", "claiming", "refusing", "reclaiming",
                  "resuming", "claimed", "created"}
Statuses == {"queued", "open", "paid"}
RefundReasons == {"transfer_failed", "charge_failed", "refused"}
Reversals == {"transfer_failed", "charge_failed", "charge_refunded",
              "dispute_created", "dispute_won", "dispute_lost"}
JobTypes == {"session_completed", "sync"} \cup Reversals
Jobs == [type : JobTypes, pay : Payments]
Event(t, p) == [type |-> t, pay |-> p]

VARIABLES
  \* the package row, the recipient's view grants, a delete request
  status, deleted, access, lock, deleting,
  \* the PackagePayment rows
  row, completed, intent,
  \* the ProcessedStripeEvent markers
  processed,
  \* Stripe: sessions, URLs payers hold, charges, disputes, refund
  \* idempotency keys, events raised so far
  session, url, charge, dispute, refundKeys, raised,
  \* checkout requests and workers
  cpc, cpay, work, crashes

packageVars == <<status, deleted, access, deleting>>
rowVars == <<row, completed, intent>>
stripeVars == <<session, url, charge, dispute, refundKeys, raised>>
checkoutVars == <<lock, cpc, cpay>>
vars == <<packageVars, rowVars, processed, stripeVars, checkoutVars, work,
          crashes>>

Idle == [pc |-> "idle"]
Snapshots == [status : Statuses, deleted : BOOLEAN, completed : BOOLEAN,
              intent : Payments \cup {NoPay}]
BusyWork == [pc : {"loaded", "settling"}, job : Jobs, pay : Payments,
             link : BOOLEAN, seen : Snapshots]

TypeOK ==
  /\ status \in Statuses
  /\ deleted \in BOOLEAN /\ access \in BOOLEAN /\ deleting \in BOOLEAN
  /\ lock \in Checkouts \cup {NoOne}
  /\ row \in [Payments -> RowStates]
  /\ completed \in [Payments -> BOOLEAN]
  /\ intent \in [Payments -> Payments \cup {NoPay}]
  /\ processed \subseteq Jobs
  /\ session \in [Payments -> {"none", "open", "complete", "expired"}]
  /\ url \subseteq Payments
  /\ charge \in [Payments -> {"none", "held", "returned"}]
  /\ dispute \in [Payments -> {"none", "open", "won", "lost"}]
  /\ refundKeys \subseteq (RefundReasons \X Payments)
  /\ raised \subseteq Jobs
  /\ cpc \in [Checkouts -> CheckoutSteps]
  /\ cpay \in [Checkouts -> Payments \cup {NoPay}]
  /\ work \in [Workers -> BusyWork \cup {Idle}]
  /\ crashes \in 0..MaxCrashes

Init ==
  /\ status = IF External THEN "queued" ELSE "open"
  /\ deleted = FALSE /\ deleting = FALSE
  /\ access = ~External
  /\ lock = NoOne
  /\ row = [p \in Payments |-> "unused"]
  /\ completed = [p \in Payments |-> FALSE]
  /\ intent = [p \in Payments |-> NoPay]
  /\ processed = {}
  /\ session = [p \in Payments |-> "none"]
  /\ url = {}
  /\ charge = [p \in Payments |-> "none"]
  /\ dispute = [p \in Payments |-> "none"]
  /\ refundKeys = {}
  /\ raised = {}
  /\ cpc = [c \in Checkouts |-> "idle"]
  /\ cpay = [c \in Checkouts |-> NoPay]
  /\ work = [w \in Workers |-> Idle]
  /\ crashes = 0

-----------------------------------------------------------------------------
(* The payment rows as the queries see them.                               *)

Pending == {p \in Payments : row[p] \in {"fresh", "stale"}}
Existing == {p \in Payments : row[p] \in {"fresh", "stale", "live"}}
Incomplete == {p \in Existing : ~completed[p]}

\* order_by("-created_at").first(): p is the newest of S, or NoPay if none
IsNewest(p, S) ==
  \/ p = NoPay /\ S = {}
  \/ p \in S /\ \A q \in S : q <= p

IsOldest(p, S) == p \in S /\ \A q \in S : p <= q

\* mark_as_paid / mark_as_refunded: skip_locked makes both silent no-ops
\* while a checkout holds the row lock, as does a status that moved on.
MarkAsPaid ==
  IF lock = NoOne /\ status = "open"
  THEN status' = "paid" /\ access' = FALSE
  ELSE UNCHANGED <<status, access>>

\* Mutant: a refunded package gets a status of its own.
MarkAsRefundedMutant ==
  IF lock = NoOne /\ status = "paid"
  THEN status' = "refunded" /\ access' = ~External
  ELSE UNCHANGED <<status, access>>

MarkAsRefunded ==
  IF lock = NoOne /\ status = "paid"
  THEN status' = "open" /\ access' = ~External
  ELSE UNCHANGED <<status, access>>

-----------------------------------------------------------------------------
(* create_package_checkout                                                 *)

Goto(c, label) == cpc' = [cpc EXCEPT ![c] = label]
Respond(c) == Goto(c, "idle") /\ cpay' = [cpay EXCEPT ![c] = NoPay]
Unlock == lock' = NoOne

\* The view loads the package and can_be_paid_by passes on that copy.
BeginCheckout(c) ==
  /\ cpc[c] = "idle"
  /\ ~deleted /\ status # "paid"
  /\ Goto(c, "began")
  /\ UNCHANGED <<packageVars, rowVars, processed, stripeVars, lock, cpay, work,
                 crashes>>

\* The public pay page opens a queued package for its external payer.
Activate(c) ==
  /\ cpc[c] = "began" /\ status = "queued"
  /\ status' = "open"
  /\ UNCHANGED <<deleted, access, deleting, rowVars, processed, stripeVars,
                 checkoutVars, work, crashes>>

\* Mutants: a claim being prepared is not noticed; a stale one not reclaimed.
PathForIgnoringClaims(p) ==
  IF p # NoPay /\ row[p] = "live" THEN "resuming" ELSE "claiming"

PathForNeverReclaiming(p) ==
  IF p = NoPay THEN "claiming"
  ELSE IF row[p] = "live" THEN "resuming" ELSE "refusing"

\* latest_incomplete is read once, under the lock; its age decides the path.
PathFor(p) ==
  IF p = NoPay THEN "claiming"
  ELSE CASE row[p] = "fresh" -> "refusing"
         [] row[p] = "stale" -> "reclaiming"
         [] OTHER            -> "resuming"

LockForPayment(c) ==
  /\ cpc[c] = "began"
  /\ status = "open" /\ lock = NoOne
  /\ lock' = c
  /\ \E p \in Payments \cup {NoPay} :
       /\ IsNewest(p, Incomplete)
       /\ cpay' = [cpay EXCEPT ![c] = p]
       /\ Goto(c, PathFor(p))
  /\ UNCHANGED <<packageVars, rowVars, processed, stripeVars, work, crashes>>

RefuseUnavailable(c) ==
  /\ cpc[c] = "began" /\ status = "paid"
  /\ Respond(c)
  /\ UNCHANGED <<packageVars, rowVars, processed, stripeVars, lock, work,
                 crashes>>

RefuseBusy(c) ==
  /\ cpc[c] = "refusing"
  /\ Respond(c) /\ Unlock
  /\ UNCHANGED <<packageVars, rowVars, processed, stripeVars, work, crashes>>

\* Mutant: resumes the session that is already paid.
CanResumeComplete(q) == row[q] = "live" /\ session[q] = "complete"

\* resumable_session_url asks for the newest incomplete payment again.
CanResume(q) == row[q] = "live" /\ session[q] = "open"

ResumeSession(c) ==
  /\ cpc[c] = "resuming"
  /\ \E q \in Payments : /\ IsNewest(q, Incomplete) /\ CanResume(q)
                         /\ url' = url \cup {q}
  /\ Respond(c) /\ Unlock
  /\ UNCHANGED <<packageVars, rowVars, processed, session, charge, dispute,
                 refundKeys, raised, work, crashes>>

\* There is no earlier attempt, or it is a stale placeholder, or its session
\* is no longer open or could not be retrieved.
NotResumed(c) ==
  \/ cpc[c] \in {"claiming", "reclaiming"}
  \/ /\ cpc[c] = "resuming"
     /\ \/ "lookup_failure" \in Env
        \/ ~ \E q \in Payments : IsNewest(q, Incomplete) /\ CanResume(q)

\* Mutant: whatever attempt is replaced gets deleted.
ReclaimedAny(c) ==
  IF cpay[c] # NoPay THEN [row EXCEPT ![cpay[c]] = "gone"] ELSE row

\* latest_incomplete.delete() of a stale placeholder
Reclaimed(c) ==
  IF cpc[c] = "reclaiming" THEN [row EXCEPT ![cpay[c]] = "gone"] ELSE row

ClaimPayment(c) ==
  /\ NotResumed(c)
  /\ \E p \in Payments :
       /\ IsOldest(p, {q \in Payments : row[q] = "unused"})
       /\ row' = [Reclaimed(c) EXCEPT ![p] = "fresh"]
       /\ cpay' = [cpay EXCEPT ![c] = p]
  /\ Goto(c, "claimed") /\ Unlock
  /\ UNCHANGED <<packageVars, completed, intent, processed, stripeVars, work,
                 crashes>>

\* No payable items: the reclaim commits.  No exchange rate: it rolls back.
RefuseNoItems(c) ==
  /\ NotResumed(c)
  /\ row' = Reclaimed(c)
  /\ Respond(c) /\ Unlock
  /\ UNCHANGED <<packageVars, completed, intent, processed, stripeVars, work,
                 crashes>>

RefuseNoRate(c) ==
  /\ "rate_outage" \in Env
  /\ NotResumed(c)
  /\ Respond(c) /\ Unlock
  /\ UNCHANGED <<packageVars, rowVars, processed, stripeVars, work, crashes>>

\* The platform fee's rates are fetched after the claim is committed and
\* outside the handler: the request fails and its claim stays.
FailNoFeeRate(c) ==
  /\ "rate_outage" \in Env
  /\ cpc[c] = "claimed"
  /\ Respond(c)
  /\ UNCHANGED <<packageVars, rowVars, processed, stripeVars, lock, work,
                 crashes>>

CreateSession(c) ==
  /\ cpc[c] = "claimed"
  /\ session' = [session EXCEPT ![cpay[c]] = "open"]
  /\ Goto(c, "created")
  /\ UNCHANGED <<packageVars, rowVars, processed, url, charge, dispute,
                 refundKeys, raised, lock, cpay, work, crashes>>

\* StripeError: the claim is deleted.  The session may exist all the same
\* (the answer was lost), but nobody has its URL.
CreateSessionFails(c) ==
  /\ "create_failure" \in Env
  /\ cpc[c] = "claimed"
  /\ row' = [row EXCEPT ![cpay[c]] = "gone"]
  /\ \E s \in {"none", "open"} : session' = [session EXCEPT ![cpay[c]] = s]
  /\ Respond(c)
  /\ UNCHANGED <<packageVars, completed, intent, processed, url, charge,
                 dispute, refundKeys, raised, lock, work, crashes>>

\* Saving onto a row reclaimed meanwhile raises: the payer gets no URL.
SaveSession(c) ==
  /\ cpc[c] = "created"
  /\ IF row[cpay[c]] = "gone"
     THEN UNCHANGED <<row, url>>
     ELSE /\ row' = [row EXCEPT ![cpay[c]] = "live"]
          /\ url' = url \cup {cpay[c]}
  /\ Respond(c)
  /\ UNCHANGED <<packageVars, completed, intent, processed, session, charge,
                 dispute, refundKeys, raised, lock, work, crashes>>

\* A crash rolls the open transaction back and leaves a committed claim.
CrashCheckout(c) ==
  /\ crashes < MaxCrashes /\ crashes' = crashes + 1
  /\ cpc[c] # "idle"
  /\ Respond(c)
  /\ lock' = IF lock = c THEN NoOne ELSE lock
  /\ UNCHANGED <<packageVars, rowVars, processed, stripeVars, work>>

\* PENDING_SESSION_STALENESS elapses.  Unless a request may take that long,
\* only an abandoned claim gets so old.
AgePending(p) ==
  /\ row[p] = "fresh"
  /\ "slow_request" \in Env
     \/ \A c \in Checkouts : cpay[c] = p => cpc[c] \notin {"claimed", "created"}
  /\ row' = [row EXCEPT ![p] = "stale"]
  /\ UNCHANGED <<packageVars, completed, intent, processed, stripeVars,
                 checkoutVars, work, crashes>>

-----------------------------------------------------------------------------
(* delete_package: access is revoked before deleted_at is saved.           *)

RevokeForDelete ==
  /\ "delete" \in Env
  /\ ~deleted /\ ~deleting
  /\ access' = FALSE /\ deleting' = TRUE
  /\ UNCHANGED <<status, deleted, rowVars, processed, stripeVars, checkoutVars,
                 work, crashes>>

SaveDeleted ==
  /\ deleting /\ lock = NoOne
  /\ deleted' = TRUE /\ deleting' = FALSE
  /\ UNCHANGED <<status, access, rowVars, processed, stripeVars, checkoutVars,
                 work, crashes>>

-----------------------------------------------------------------------------
(* Stripe and the payer: what can happen to a session and its charge.      *)

Raise(e) == raised' = raised \cup {e}
OnlyStripe == UNCHANGED <<packageVars, rowVars, processed, checkoutVars, work,
                          crashes, url, refundKeys>>

Pay(p) ==
  /\ p \in url /\ session[p] = "open"
  /\ session' = [session EXCEPT ![p] = "complete"]
  /\ charge' = [charge EXCEPT ![p] = "held"]
  /\ Raise(Event("session_completed", p))
  /\ UNCHANGED dispute /\ OnlyStripe

\* A declined card leaves the session open for another attempt.
Decline(p) ==
  /\ "decline" \in Env
  /\ p \in url /\ session[p] = "open"
  /\ Raise(Event("charge_failed", p))
  /\ UNCHANGED <<session, charge, dispute>> /\ OnlyStripe

ExpireSession(p) ==
  /\ session[p] = "open"
  /\ session' = [session EXCEPT ![p] = "expired"]
  /\ UNCHANGED <<charge, dispute, raised>> /\ OnlyStripe

FailTransfer(p) ==
  /\ "transfer_failure" \in Env
  /\ charge[p] = "held"
  /\ Raise(Event("transfer_failed", p))
  /\ UNCHANGED <<session, charge, dispute>> /\ OnlyStripe

\* A full refund made in the Stripe dashboard.
RefundExternally(p) ==
  /\ "refund" \in Env
  /\ charge[p] = "held" /\ dispute[p] # "open"
  /\ charge' = [charge EXCEPT ![p] = "returned"]
  /\ Raise(Event("charge_refunded", p))
  /\ UNCHANGED <<session, dispute>> /\ OnlyStripe

OpenDispute(p) ==
  /\ "dispute" \in Env
  /\ charge[p] = "held" /\ dispute[p] = "none"
  /\ dispute' = [dispute EXCEPT ![p] = "open"]
  /\ Raise(Event("dispute_created", p))
  /\ UNCHANGED <<session, charge>> /\ OnlyStripe

WinDispute(p) ==
  /\ dispute[p] = "open"
  /\ dispute' = [dispute EXCEPT ![p] = "won"]
  /\ Raise(Event("dispute_won", p))
  /\ UNCHANGED <<session, charge>> /\ OnlyStripe

LoseDispute(p) ==
  /\ dispute[p] = "open"
  /\ dispute' = [dispute EXCEPT ![p] = "lost"]
  /\ charge' = [charge EXCEPT ![p] = "returned"]
  /\ Raise(Event("dispute_lost", p))
  /\ UNCHANGED session /\ OnlyStripe

StripeStep ==
  \E p \in Payments :
    \/ Pay(p) \/ Decline(p) \/ ExpireSession(p) \/ FailTransfer(p)
    \/ RefundExternally(p) \/ OpenDispute(p) \/ WinDispute(p)
    \/ LoseDispute(p)

-----------------------------------------------------------------------------
(* Workers: loading.  An event may be delivered any number of times, late, *)
(* out of order or never; a delivery whose marker exists is skipped.       *)

Load(w, j, p, l) ==
  /\ work[w] = Idle
  /\ work' = [work EXCEPT ![w] =
       [pc |-> "loaded", job |-> j, pay |-> p, link |-> l,
        seen |-> [status |-> status, deleted |-> deleted,
                  completed |-> completed[p], intent |-> intent[p]]]]
  /\ UNCHANGED <<packageVars, rowVars, processed, stripeVars, checkoutVars,
                 crashes>>

Deliverable == raised \ processed

\* Mutant: only the newest attempt is settled.
LoadNewestSettlement(w, p) ==
  /\ Event("session_completed", p) \in Deliverable
  /\ row[p] = "live" /\ IsNewest(p, Existing)
  /\ Load(w, Event("session_completed", p), p, FALSE)

\* While the row does not name the session yet the lookup re-raises, which
\* leaves everything as it was for the retry.
LoadSettlement(w, p) ==
  /\ Event("session_completed", p) \in Deliverable
  /\ row[p] = "live"
  /\ Load(w, Event("session_completed", p), p, FALSE)

WithIntent(i) == {r \in Existing : intent[r] = i}

\* The row that carries the PaymentIntent, or else the newest row of the
\* package without one, which is then linked to it.
ResolvesTo(p, r, l) ==
  IF WithIntent(p) # {}
  THEN IsOldest(r, WithIntent(p)) /\ ~l
  ELSE r \in Payments /\ IsNewest(r, WithIntent(NoPay)) /\ l

LoadReversal(w, e) ==
  /\ e \in Deliverable /\ e.type \in Reversals
  /\ \E r \in Payments, l \in BOOLEAN :
       ResolvesTo(e.pay, r, l) /\ Load(w, e, r, l)

IgnoreUnroutable(w, e) ==
  /\ e \in Deliverable /\ e.type \in Reversals
  /\ work[w] = Idle
  /\ WithIntent(e.pay) = {} /\ WithIntent(NoPay) = {}
  /\ processed' = processed \cup {e}
  /\ UNCHANGED <<packageVars, rowVars, stripeVars, checkoutVars, work, crashes>>

\* sync_payment_status, sent by the payment-success page for the payment
\* that was the newest incomplete one then, may run much later.  Both syncs
\* check that the package is open in an earlier query than the one that
\* loads the payment, so the copy they act on may say otherwise.
LoadPageSync(w, p) ==
  /\ "page_sync" \in Env
  /\ row[p] = "live"
  /\ Load(w, Event("sync", p), p, FALSE)

\* Mutant: only payments whose PaymentIntent is known are reconciled.
LoadReconcileLinked(w) ==
  /\ "reconcile" \in Env
  /\ \E p \in Payments : /\ IsNewest(p, Incomplete) /\ row[p] = "live"
                         /\ intent[p] # NoPay
                         /\ Load(w, Event("sync", p), p, FALSE)

\* reconcile_pending_payments_task; a placeholder id is unknown to Stripe.
LoadReconcile(w) ==
  /\ "reconcile" \in Env
  /\ \E p \in Payments : /\ IsNewest(p, Incomplete) /\ row[p] = "live"
                         /\ Load(w, Event("sync", p), p, FALSE)

-----------------------------------------------------------------------------
(* Workers: applying what was loaded.                                      *)

Stored(w, t) == work[w].pc = "loaded" /\ work[w].job.type \in t
                /\ row[work[w].pay] # "gone"
Release(w) == work' = [work EXCEPT ![w] = Idle]

\* Mutant: an existing marker is no obstacle.
CommitMarkerAgain(w) == processed' = processed \cup {work[w].job} /\ Release(w)

\* Ends a webhook transaction: the marker's primary key makes a concurrent
\* duplicate fail, and its whole transaction with it.
CommitMarker(w) ==
  /\ work[w].job \notin processed
  /\ processed' = processed \cup {work[w].job}
  /\ Release(w)

Finish(w) ==
  IF work[w].job.type = "sync" THEN Release(w) /\ UNCHANGED processed
                               ELSE CommitMarker(w)

LinkedIntent(w) ==
  IF work[w].link THEN [intent EXCEPT ![work[w].pay] = work[w].job.pay]
                  ELSE intent

\* Stripe replays a refund whose idempotency key it knows and refuses one of
\* a charge that is disputed or already returned; any call may fail.
RefundAccepted(key) ==
  \/ key \in refundKeys
  \/ charge[key[2]] = "held" /\ dispute[key[2]] # "open"

Refund(key) ==
  /\ RefundAccepted(key)
  /\ charge' = [charge EXCEPT ![key[2]] = "returned"]
  /\ refundKeys' = refundKeys \cup {key}
  /\ Raise(Event("charge_refunded", key[2]))
  /\ UNCHANGED <<session, url, dispute>>

\* Mutant: a payment the package was settled by is refused as a duplicate.
SettlementRefusedAgain(w) ==
  work[w].seen.deleted \/ work[w].seen.status = "paid"

\* apply_paid_session turns a session down on a deleted package, or when
\* another payment has settled the package.
SettlementRefused(w) ==
  \/ work[w].seen.deleted
  \/ work[w].seen.status = "paid" /\ ~work[w].seen.completed

\* Mutant: the session's payment_status is not looked at.
SettlesUnpaid(w) == Stored(w, {"session_completed", "sync"})

Settles(w) ==
  /\ Stored(w, {"session_completed", "sync"})
  /\ session[work[w].pay] = "complete"

RefundKey(w) == <<work[w].job.type, work[w].job.pay>>

\* _refund_captured_payment: the call to Stripe that a handler may make before
\* it writes anything.  It returns at once unless the payment, as read, was
\* completed and had a PaymentIntent.
RefundFirst(w) ==
  /\ work[w].seen.completed
  /\ \/ /\ Stored(w, {"transfer_failed", "charge_failed"})
        /\ Refund(RefundKey(w))
     \/ /\ Settles(w) /\ SettlementRefused(w) /\ work[w].seen.intent # NoPay
        /\ Refund(<<"refused", work[w].seen.intent>>)

\* The answer of that refund is not looked at here.
RefuseSettlement(w) ==
  /\ Settles(w) /\ SettlementRefused(w)
  /\ UNCHANGED stripeVars \/ RefundFirst(w)
  /\ completed' = [completed EXCEPT ![work[w].pay] = FALSE]
  /\ Finish(w)
  /\ UNCHANGED <<packageVars, row, intent, checkoutVars, crashes>>

\* Mutant: a PaymentIntent that a reversal linked earlier is kept.
CompletePaymentKeepingIntent(w) ==
  /\ Settles(w) /\ ~SettlementRefused(w)
  /\ completed' = [completed EXCEPT ![work[w].pay] = TRUE]
  /\ intent' = [intent EXCEPT ![work[w].pay] = IF @ = NoPay THEN work[w].pay
                                                          ELSE @]
  /\ UNCHANGED <<deleted, deleting, row, stripeVars, checkoutVars, crashes>>

CompletePayment(w) ==
  /\ Settles(w) /\ ~SettlementRefused(w)
  /\ completed' = [completed EXCEPT ![work[w].pay] = TRUE]
  /\ intent' = [intent EXCEPT ![work[w].pay] = work[w].pay]
  /\ UNCHANGED <<deleted, deleting, row, stripeVars, checkoutVars, crashes>>

SettleFromWebhook(w) ==
  /\ work[w].pc = "loaded" /\ work[w].job.type = "session_completed"
  /\ CompletePayment(w) /\ MarkAsPaid /\ CommitMarker(w)

\* A sync commits the payment first and the package in a second transaction.
SettleFromSync(w) ==
  /\ work[w].pc = "loaded" /\ work[w].job.type = "sync"
  /\ CompletePayment(w)
  /\ work' = [work EXCEPT ![w].pc = "settling"]
  /\ UNCHANGED <<status, access, processed>>

FinishSync(w) ==
  /\ work[w].pc = "settling"
  /\ MarkAsPaid /\ Release(w)
  /\ UNCHANGED <<deleted, deleting, rowVars, processed, stripeVars,
                 checkoutVars, crashes>>

DropUnpaidSync(w) ==
  /\ Stored(w, {"sync"}) /\ session[work[w].pay] # "complete"
  /\ Release(w)
  /\ UNCHANGED <<packageVars, rowVars, processed, stripeVars, checkoutVars,
                 crashes>>

\* _revert_package_payment's last part: the payment fails, the package
\* reopens.
FailAndReopen(w) ==
  /\ completed' = [completed EXCEPT ![work[w].pay] = FALSE]
  /\ MarkAsRefunded

\* Mutant: the outcome of the refund is not looked at.
RevertFailureUnchecked(w) ==
  /\ Stored(w, {"transfer_failed", "charge_failed"})
  /\ UNCHANGED stripeVars \/ RefundFirst(w)
  /\ FailAndReopen(w) /\ intent' = LinkedIntent(w) /\ CommitMarker(w)
  /\ UNCHANGED <<deleted, deleting, row, checkoutVars, crashes>>

\* transfer.failed and charge.failed: refund first; when a completed payment
\* was not refunded, or the answer got lost, the package stays settled.
RevertFailure(w) ==
  /\ Stored(w, {"transfer_failed", "charge_failed"})
  /\ \/ RefundFirst(w) /\ FailAndReopen(w)
     \/ /\ work[w].seen.completed
        /\ UNCHANGED stripeVars \/ RefundFirst(w)
        /\ UNCHANGED <<completed, status, access>>
     \/ /\ ~work[w].seen.completed
        /\ UNCHANGED stripeVars /\ FailAndReopen(w)
  /\ intent' = LinkedIntent(w)
  /\ CommitMarker(w)
  /\ UNCHANGED <<deleted, deleting, row, checkoutVars, crashes>>

\* charge.refunded (in full) and a lost dispute: the payer has the money back.
RevertReturned(w) ==
  /\ Stored(w, {"charge_refunded", "dispute_lost"})
  /\ FailAndReopen(w)
  /\ intent' = LinkedIntent(w)
  /\ CommitMarker(w)
  /\ UNCHANGED <<deleted, deleting, row, stripeVars, checkoutVars, crashes>>

RestorePaid(w) ==
  /\ Stored(w, {"dispute_won"})
  /\ completed' = [completed EXCEPT ![work[w].pay] = TRUE]
  /\ intent' = LinkedIntent(w)
  /\ MarkAsPaid /\ CommitMarker(w)
  /\ UNCHANGED <<deleted, deleting, row, stripeVars, checkoutVars, crashes>>

\* Mutant: an open dispute reopens the package.
FreezeDisputedReopening(w) ==
  /\ Stored(w, {"dispute_created"})
  /\ FailAndReopen(w) /\ intent' = LinkedIntent(w) /\ CommitMarker(w)
  /\ UNCHANGED <<deleted, deleting, row, stripeVars, checkoutVars, crashes>>

FreezeDisputed(w) ==
  /\ Stored(w, {"dispute_created"})
  /\ intent' = LinkedIntent(w)
  /\ CommitMarker(w)
  /\ UNCHANGED <<packageVars, row, completed, stripeVars, checkoutVars, crashes>>

\* The transaction rolls back: a concurrent duplicate committed the marker
\* or the row was deleted.  A refund it made on the way stays made.
Rollback(w) ==
  /\ work[w].pc = "loaded"
  /\ work[w].job \in processed \/ row[work[w].pay] = "gone"
  /\ UNCHANGED stripeVars \/ RefundFirst(w)
  /\ Release(w)
  /\ UNCHANGED <<packageVars, rowVars, processed, checkoutVars, crashes>>

\* The worker dies; Dramatiq redelivers its message.
CrashWorker(w) ==
  /\ crashes < MaxCrashes /\ crashes' = crashes + 1
  /\ work[w].pc # "idle"
  /\ UNCHANGED stripeVars \/ RefundFirst(w)
  /\ Release(w)
  /\ UNCHANGED <<packageVars, rowVars, processed, checkoutVars>>

-----------------------------------------------------------------------------
\* The steps a request takes by itself once the payer has sent it.
CheckoutProgress(c) ==
  \/ Activate(c) \/ LockForPayment(c)
  \/ RefuseUnavailable(c) \/ RefuseBusy(c) \/ ResumeSession(c)
  \/ ClaimPayment(c) \/ RefuseNoItems(c) \/ RefuseNoRate(c)
  \/ CreateSession(c) \/ SaveSession(c)

CheckoutStep(c) ==
  \/ BeginCheckout(c) \/ CheckoutProgress(c)
  \/ FailNoFeeRate(c) \/ CreateSessionFails(c) \/ CrashCheckout(c)

LoadStep(w) ==
  \/ \E p \in Payments : LoadSettlement(w, p) \/ LoadPageSync(w, p)
  \/ \E e \in Deliverable : LoadReversal(w, e) \/ IgnoreUnroutable(w, e)
  \/ LoadReconcile(w)

ApplyStep(w) ==
  \/ RefuseSettlement(w) \/ SettleFromWebhook(w) \/ SettleFromSync(w)
  \/ FinishSync(w) \/ DropUnpaidSync(w) \/ RevertFailure(w)
  \/ RevertReturned(w) \/ RestorePaid(w) \/ FreezeDisputed(w) \/ Rollback(w)

Next ==
  \/ \E c \in Checkouts : CheckoutStep(c)
  \/ \E p \in Payments : AgePending(p)
  \/ RevokeForDelete \/ SaveDeleted
  \/ StripeStep
  \/ \E w \in Workers : LoadStep(w) \/ ApplyStep(w) \/ CrashWorker(w)

Spec == Init /\ [][Next]_vars

\* Requests run to an answer, row locks are granted in turn, workers finish
\* what they loaded.  Nothing is assumed of payers, Stripe or the webhooks.
Fairness ==
  /\ \A c \in Checkouts : /\ WF_vars(CheckoutProgress(c))
                          /\ SF_vars(LockForPayment(c))
  /\ \A w \in Workers : WF_vars(ApplyStep(w))

\* The periodic task keeps looking at a package that is open.
FairReconcile == WF_vars(\E w \in Workers : status = "open" /\ LoadReconcile(w))

\* Stripe and Dramatiq redeliver an event until it has been processed.
FairWebhooks ==
  \A p \in Payments : SF_vars(\E w \in Workers : LoadSettlement(w, p))

\* Payers try again and claims that nobody attends grow old.
FairRetries ==
  /\ \A c \in Checkouts : WF_vars(BeginCheckout(c))
  /\ \A p \in Payments : WF_vars(AgePending(p))

ReconcileSpec == Spec /\ Fairness /\ FairReconcile
WebhookSpec == Spec /\ Fairness /\ FairWebhooks /\ FairRetries

-----------------------------------------------------------------------------
(* The drifts that run_daily_reconciliation reports; it changes nothing.    *)

\* _check_completed_payments: the PaymentIntent the row names did not succeed.
UnsucceededIntents ==
  {p \in Payments :
     completed[p] /\ intent[p] # NoPay /\ charge[intent[p]] = "none"}

\* _check_paid_packages_have_completed_payment
UnbackedPackage ==
  status = "paid" /\ ~deleted /\ ~ \E p \in Payments : completed[p]

\* _check_completed_payments_have_paid_package
UnsettledPayments == {p \in Payments : completed[p] /\ status # "paid"}

-----------------------------------------------------------------------------
(* Properties.                                                             *)

\* At most one checkout attempt is being prepared, and nothing newer than it
\* exists: a placeholder row is what keeps a second claim out.
OneClaim ==
  \A p \in Pending, q \in Existing : q <= p

\* Whatever crashed, failed or was reclaimed, a Checkout URL that a payer
\* holds belongs to a payment row that names the session, so that its
\* settlement can be routed.
RoutableSessions == \A p \in url : row[p] = "live"

\* The package is never settled before some payer's charge was captured,
\* through whichever worker, sync, redelivery or dispute it got there.
PaidOnlyOnCapturedCharge ==
  status = "paid" => \E p \in Payments : charge[p] # "none"

\* A payment is recorded as completed only after its own charge was captured.
CompletedIsCaptured ==
  \A p \in Payments : completed[p] => charge[p] # "none"

\* A completed payment carries its own PaymentIntent, the one its refund and
\* its reversals are looked up by, and the daily reconciliation finds each of
\* these intents succeeded.
CompletedOwnsIntent ==
  /\ \A p \in Payments : completed[p] => intent[p] = p
  /\ UnsucceededIntents = {}

\* reconciliation.py: every PAID package has a completed payment backing it.
PaidIsBacked == ~UnbackedPackage

\* A payment that stops counting as completed has had its money returned.
FailedMeansReturned ==
  [][\A p \in Payments :
       completed[p] /\ ~completed'[p] => charge'[p] = "returned"]_vars

\* While the bank is deciding a dispute about the payment that settled the
\* package, the package stays settled.
DisputedStaysSettled ==
  [][status = "paid" /\ status' = "open" =>
       \A p \in Payments : completed[p] => dispute[p] # "open"]_vars

\* A completion processed before the refund of the same charge can never
\* come back and settle the refunded payment again.
RefundIsFinal ==
  [][\A p \in Payments :
       /\ {Event("session_completed", p), Event("charge_refunded", p)}
            \subseteq processed
       /\ ~completed[p]
       => ~completed'[p]]_vars

\* Every captured charge gets recorded: its payment is completed or the
\* package is settled by another.
CapturedIsRecorded ==
  \A p \in Payments :
    charge[p] = "held" ~> completed[p] \/ status = "paid" \/ charge[p] # "held"

\* A claim whose request died does not block the package for ever.
AbandonedClaimEnds ==
  \A p \in Payments :
    p \in Pending ~> p \notin Pending \/ status = "paid" \/ deleted

-----------------------------------------------------------------------------
(* The abstract specification.                                             *)

\* What a payment's URL is worth to whoever holds it.
OfferOf(p) ==
  IF p \notin url THEN "none"
  ELSE CASE session[p] = "open"     -> "open"
         [] session[p] = "complete" -> "taken"
         [] OTHER                   -> "lapsed"

Offers == INSTANCE CheckoutOffer WITH
  Attempts <- Payments,
  offer    <- [p \in Payments |-> OfferOf(p)],
  recorded <- {p \in Payments : completed[p]},
  settled  <- status = "paid"

\* Whatever claims, crashes, redeliveries and syncs happen, payers and the
\* package only ever see the steps of CheckoutOffer.
KeepsOffers == Offers!Spec

-----------------------------------------------------------------------------
(* What comments and checks of the repository say, and the code does not   *)
(* always do (see the README's findings).                                  *)

Quiescent ==
  /\ \A w \in Workers : work[w] = Idle
  /\ raised \subseteq processed

\* reconciliation.py: every completed payment belongs to a PAID package.
CompletedHasPaidPackage ==
  Quiescent => UnsettledPayments = {}

\* webhooks.py: a settlement refused because the package is deleted has been
\* refunded to the payer.
DeletedMovesNoMoney ==
  deleted => \A p \in Payments :
    Event("session_completed", p) \in processed /\ ~completed[p]
      => charge[p] = "returned"

\* services.py: two payers can not both be charged.
OneCapture ==
  \A p, q \in Payments : charge[p] = "held" /\ charge[q] = "held" => p = q

\* A reversal that is processed before the completion still takes effect:
\* once every event is processed, a PAID package has money behind it.
PaidHoldsMoney ==
  Quiescent /\ status = "paid" =>
    \E p \in Payments : completed[p] /\ charge[p] # "returned"

=============================================================================
