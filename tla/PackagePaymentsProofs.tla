----------------------- MODULE PackagePaymentsProofs -----------------------
(* Theorems of PackagePayments, for any number of requests, workers,       *)
(* payments and crashes.                                                   *)
EXTENDS PackagePayments, TLAPS

-----------------------------------------------------------------------------
(* Type correctness.                                                       *)

\* TypeOK is inductive once a request that has claimed a payment is known to
\* name it: SaveSession adds that payment to url.
ClaimNamed ==
  \A c \in Checkouts : cpc[c] \in {"claimed", "created"} => cpay[c] \in Payments

TypeInv == TypeOK /\ ClaimNamed

LEMMA InitTyped == Init => TypeInv
<1> SUFFICES ASSUME Init PROVE TypeInv
  OBVIOUS
<1>1. /\ status \in Statuses
      /\ lock \in Checkouts \cup {NoOne}
      /\ crashes \in 0..MaxCrashes
  BY ConstantsOK DEF Init, Statuses
<1>5. deleted \in BOOLEAN /\ access \in BOOLEAN /\ deleting \in BOOLEAN
  BY Zenon DEF Init
<1>2. /\ row \in [Payments -> RowStates]
      /\ completed \in [Payments -> BOOLEAN]
      /\ intent \in [Payments -> Payments \cup {NoPay}]
  BY DEF Init, RowStates
<1>3. /\ session \in [Payments -> {"none", "open", "complete", "expired"}]
      /\ charge \in [Payments -> {"none", "held", "returned"}]
      /\ dispute \in [Payments -> {"none", "open", "won", "lost"}]
      /\ url \subseteq Payments
      /\ refundKeys \subseteq (RefundReasons \X Payments)
      /\ raised \subseteq Jobs /\ processed \subseteq Jobs
  BY DEF Init
<1>4. /\ cpc \in [Checkouts -> CheckoutSteps]
      /\ cpay \in [Checkouts -> Payments \cup {NoPay}]
      /\ work \in [Workers -> BusyWork \cup {Idle}]
  BY DEF Init, CheckoutSteps
<1>6. ClaimNamed
  BY DEF Init, ClaimNamed
<1> QED
  BY <1>1, <1>2, <1>3, <1>4, <1>5, <1>6 DEF TypeOK, TypeInv

\* A job that a worker picks up is one of Jobs, about one of the payments.
LEMMA LoadTyped ==
  ASSUME TypeOK,
         NEW w \in Workers, NEW j \in Jobs, NEW p \in Payments,
         NEW l \in BOOLEAN, Load(w, j, p, l)
  PROVE  TypeOK'
<1> DEFINE job == [pc |-> "loaded", job |-> j, pay |-> p, link |-> l,
                   seen |-> [status |-> status, deleted |-> deleted,
                             completed |-> completed[p], intent |-> intent[p]]]
<1>1. job \in BusyWork
  BY DEF TypeOK, BusyWork, Snapshots
<1>2. work' = [work EXCEPT ![w] = job]
  BY DEF Load
<1>3. work' \in [Workers -> BusyWork \cup {Idle}]
  BY <1>1, <1>2 DEF TypeOK
<1> QED
  BY <1>3 DEF TypeOK, Load, packageVars, rowVars, stripeVars, checkoutVars

\* Every checkout step keeps the types.
LEMMA CheckoutTyped ==
  ASSUME TypeInv, NEW c \in Checkouts, CheckoutStep(c)
  PROVE  TypeOK'
<1> USE DEF TypeInv, TypeOK, packageVars, rowVars, stripeVars, checkoutVars, Goto,
            Respond, Unlock, CheckoutSteps, RowStates
<1>1. CASE BeginCheckout(c)
  BY <1>1 DEF BeginCheckout
<1>2. CASE Activate(c)
  BY <1>2 DEF Activate, Statuses
<1>3. CASE LockForPayment(c)
  <2>1. PICK p \in Payments \cup {NoPay} :
          /\ cpay' = [cpay EXCEPT ![c] = p]
          /\ cpc' = [cpc EXCEPT ![c] = PathFor(p)]
    BY <1>3 DEF LockForPayment
  <2>2. PathFor(p) \in CheckoutSteps
    BY DEF PathFor
  <2> QED
    BY <1>3, <2>1, <2>2 DEF LockForPayment
<1>4. CASE RefuseUnavailable(c)
  BY <1>4 DEF RefuseUnavailable
<1>5. CASE RefuseBusy(c)
  BY <1>5 DEF RefuseBusy
<1>6. CASE ResumeSession(c)
  BY <1>6 DEF ResumeSession
<1>7. Reclaimed(c) \in [Payments -> RowStates]
  BY DEF Reclaimed
<1>8. CASE ClaimPayment(c)
  <2>1. PICK p \in Payments :
          /\ row' = [Reclaimed(c) EXCEPT ![p] = "fresh"]
          /\ cpay' = [cpay EXCEPT ![c] = p]
    BY <1>8 DEF ClaimPayment
  <2> QED
    BY <1>7, <1>8, <2>1 DEF ClaimPayment
<1>9. CASE RefuseNoItems(c)
  BY <1>7, <1>9 DEF RefuseNoItems
<1>10. CASE RefuseNoRate(c)
  BY <1>10 DEF RefuseNoRate
<1>11. CASE CreateSession(c)
  BY <1>11 DEF CreateSession
<1>12. CASE SaveSession(c)
  <2>1. row' \in [Payments -> RowStates]
    BY <1>12 DEF SaveSession
  <2>2. url' \subseteq Payments
    <3>1. CASE row[cpay[c]] = "gone"
      BY <1>12, <3>1 DEF SaveSession
    <3>2. CASE row[cpay[c]] # "gone"
      <4>1. cpay[c] \in Payments
        BY <1>12 DEF SaveSession, ClaimNamed
      <4> QED
        BY <1>12, <3>2, <4>1 DEF SaveSession
    <3> QED
      BY <3>1, <3>2
  <2> QED
    BY <1>12, <2>1, <2>2 DEF SaveSession
<1>13. CASE FailNoFeeRate(c)
  BY <1>13 DEF FailNoFeeRate
<1>14. CASE CreateSessionFails(c)
  <2>1. row' \in [Payments -> RowStates]
    BY <1>14 DEF CreateSessionFails
  <2>2. session' \in [Payments -> {"none", "open", "complete", "expired"}]
    BY <1>14 DEF CreateSessionFails
  <2> QED
    BY <1>14, <2>1, <2>2 DEF CreateSessionFails
<1>15. CASE CrashCheckout(c)
  BY <1>15, ConstantsOK DEF CrashCheckout
<1> QED
  BY <1>1, <1>2, <1>3, <1>4, <1>5, <1>6, <1>8, <1>9, <1>10, <1>11, <1>12,
     <1>13, <1>14, <1>15 DEF CheckoutStep, CheckoutProgress

LEMMA CheckoutKeepsClaimNamed ==
  ASSUME TypeInv, NEW c \in Checkouts, CheckoutStep(c)
  PROVE  ClaimNamed'
<1> USE DEF TypeInv, TypeOK, ClaimNamed, Goto, Respond
<1>1. CASE LockForPayment(c)
  <2>1. \A p : PathFor(p) \notin {"claimed", "created"}
    BY DEF PathFor
  <2> QED
    BY <1>1, <2>1 DEF LockForPayment
<1>2. CASE ClaimPayment(c)
  BY <1>2 DEF ClaimPayment
<1>3. CASE CreateSession(c)
  BY <1>3 DEF CreateSession
<1>4. CASE BeginCheckout(c) \/ Activate(c)
  BY <1>4 DEF BeginCheckout, Activate, checkoutVars
<1>5. CASE RefuseUnavailable(c) \/ RefuseBusy(c) \/ ResumeSession(c)
  BY <1>5 DEF RefuseUnavailable, RefuseBusy, ResumeSession
<1>6. CASE RefuseNoItems(c) \/ RefuseNoRate(c) \/ FailNoFeeRate(c)
  BY <1>6 DEF RefuseNoItems, RefuseNoRate, FailNoFeeRate
<1>7. CASE SaveSession(c) \/ CreateSessionFails(c) \/ CrashCheckout(c)
  BY <1>7 DEF SaveSession, CreateSessionFails, CrashCheckout
<1> QED
  BY <1>1, <1>2, <1>3, <1>4, <1>5, <1>6, <1>7 DEF CheckoutStep, CheckoutProgress

\* What Stripe does on its own.
LEMMA StripeTyped ==
  ASSUME TypeOK, StripeStep
  PROVE  TypeOK'
<1> USE DEF TypeOK, OnlyStripe, packageVars, rowVars, checkoutVars, Raise
<1>1. PICK p \in Payments :
        \/ Pay(p) \/ Decline(p) \/ ExpireSession(p) \/ FailTransfer(p)
        \/ RefundExternally(p) \/ OpenDispute(p) \/ WinDispute(p)
        \/ LoseDispute(p)
  BY DEF StripeStep
<1>2. \A t \in JobTypes : Event(t, p) \in Jobs
  BY DEF Event, Jobs
<1>3. {"session_completed"} \cup Reversals \subseteq JobTypes
  BY DEF JobTypes
<1>4. CASE Pay(p)
  BY <1>2, <1>3, <1>4 DEF Pay
<1>5. CASE Decline(p) \/ ExpireSession(p) \/ FailTransfer(p)
  BY <1>2, <1>3, <1>5 DEF Decline, ExpireSession, FailTransfer, Reversals
<1>6. CASE RefundExternally(p) \/ OpenDispute(p)
  BY <1>2, <1>3, <1>6 DEF RefundExternally, OpenDispute, Reversals
<1>7. CASE WinDispute(p) \/ LoseDispute(p)
  BY <1>2, <1>3, <1>7 DEF WinDispute, LoseDispute, Reversals
<1> QED
  BY <1>1, <1>4, <1>5, <1>6, <1>7

\* A worker that loads an event or a payment.
LEMMA LoadStepTyped ==
  ASSUME TypeOK, NEW w \in Workers, LoadStep(w)
  PROVE  TypeOK'
<1>1. CASE \E p \in Payments : LoadSettlement(w, p) \/ LoadPageSync(w, p)
  <2>1. PICK p \in Payments, j \in {"session_completed", "sync"} :
          Load(w, Event(j, p), p, FALSE)
    BY <1>1 DEF LoadSettlement, LoadPageSync
  <2>2. Event(j, p) \in Jobs
    BY DEF Event, Jobs, JobTypes
  <2> QED
    BY <2>1, <2>2, LoadTyped
<1>2. CASE LoadReconcile(w)
  <2>1. PICK p \in Payments : Load(w, Event("sync", p), p, FALSE)
    BY <1>2 DEF LoadReconcile
  <2>2. Event("sync", p) \in Jobs
    BY DEF Event, Jobs, JobTypes
  <2> QED
    BY <2>1, <2>2, LoadTyped
<1>3. CASE \E e \in Deliverable : LoadReversal(w, e)
  <2>1. PICK e \in Deliverable, r \in Payments, l \in BOOLEAN : Load(w, e, r, l)
    BY <1>3 DEF LoadReversal
  <2>2. e \in Jobs
    BY DEF Deliverable, TypeOK
  <2> QED
    BY <2>1, <2>2, LoadTyped
<1>4. CASE \E e \in Deliverable : IgnoreUnroutable(w, e)
  BY <1>4 DEF IgnoreUnroutable, Deliverable, TypeOK, packageVars, rowVars,
              stripeVars, checkoutVars
<1> QED
  BY <1>1, <1>2, <1>3, <1>4 DEF LoadStep

\* A worker that has something in hand has it in the right form.
LEMMA BusyTyped ==
  ASSUME TypeOK, NEW w \in Workers, work[w].pc # "idle"
  PROVE  /\ work[w] \in BusyWork
         /\ work[w].job \in Jobs /\ work[w].pay \in Payments
         /\ work[w].job.pay \in Payments
         /\ work[w].seen \in Snapshots
<1>1. work[w] \in BusyWork
  BY DEF TypeOK, Idle
<1> QED
  BY <1>1 DEF BusyWork, Jobs

LEMMA RefundFirstKey ==
  ASSUME TypeOK, NEW w \in Workers, work[w].pc # "idle", RefundFirst(w)
  PROVE  \E key \in RefundReasons \X Payments : Refund(key)
<1>1. CASE /\ Stored(w, {"transfer_failed", "charge_failed"})
           /\ Refund(RefundKey(w))
  BY <1>1, BusyTyped DEF RefundKey, RefundReasons, Stored
<1>2. CASE /\ work[w].seen.intent # NoPay
           /\ Refund(<<"refused", work[w].seen.intent>>)
  <2>1. <<"refused", work[w].seen.intent>> \in RefundReasons \X Payments
    BY <1>2, BusyTyped DEF Snapshots, RefundReasons
  <2> QED
    BY <1>2, <2>1
<1> QED
  BY <1>1, <1>2 DEF RefundFirst

LEMMA RefundTyped ==
  ASSUME TypeOK,
         \/ UNCHANGED stripeVars
         \/ \E key \in RefundReasons \X Payments : Refund(key)
  PROVE  /\ session' = session /\ url' = url /\ dispute' = dispute
         /\ charge' \in [Payments -> {"none", "held", "returned"}]
         /\ refundKeys' \subseteq RefundReasons \X Payments
         /\ raised' \subseteq Jobs
<1>1. CASE UNCHANGED stripeVars
  BY <1>1 DEF stripeVars, TypeOK
<1>2. ASSUME NEW key \in RefundReasons \X Payments, Refund(key)
      PROVE  /\ session' = session /\ url' = url /\ dispute' = dispute
             /\ charge' \in [Payments -> {"none", "held", "returned"}]
             /\ refundKeys' \subseteq RefundReasons \X Payments
             /\ raised' \subseteq Jobs
  <2>1. Event("charge_refunded", key[2]) \in Jobs
    BY DEF Event, Jobs, JobTypes, Reversals
  <2> QED
    BY <1>2, <2>1 DEF Refund, Raise, TypeOK
<1> QED
  BY <1>1, <1>2

\* The ways a worker lets go of what it has in hand.
LEMMA ReleaseTyped ==
  ASSUME TypeOK, NEW w \in Workers, work[w].pc # "idle",
         \/ Release(w) /\ UNCHANGED processed
         \/ CommitMarker(w)
         \/ Finish(w)
  PROVE  /\ work' \in [Workers -> BusyWork \cup {Idle}]
         /\ processed' \subseteq Jobs
  BY BusyTyped DEF Finish, CommitMarker, Release, TypeOK

LEMMA PackageTyped ==
  ASSUME TypeOK, NEW w \in Workers,
         \/ MarkAsPaid \/ MarkAsRefunded \/ FailAndReopen(w)
         \/ UNCHANGED <<status, access>>
  PROVE  status' \in Statuses /\ access' \in BOOLEAN
<1>1. CASE MarkAsPaid
  BY <1>1 DEF MarkAsPaid, TypeOK, Statuses
<1>2. CASE MarkAsRefunded
  <2>1. status' \in Statuses
    BY <1>2 DEF MarkAsRefunded, TypeOK, Statuses
  <2>2. access' = ~External \/ access' = access
    BY <1>2 DEF MarkAsRefunded
  <2>3. access' \in BOOLEAN
    BY <2>2, ConstantsOK, Zenon DEF TypeOK
  <2> QED
    BY <2>1, <2>3
<1>3. CASE UNCHANGED <<status, access>>
  BY <1>3 DEF TypeOK
<1> QED
  BY <1>1, <1>2, <1>3 DEF FailAndReopen

LEMMA LinkedIntentTyped ==
  ASSUME TypeOK, NEW w \in Workers, work[w].pc # "idle"
  PROVE  LinkedIntent(w) \in [Payments -> Payments \cup {NoPay}]
  BY BusyTyped DEF LinkedIntent, TypeOK

\* A worker that applies what it loaded, or dies doing so.
LEMMA ApplyTyped ==
  ASSUME TypeOK, NEW w \in Workers, ApplyStep(w) \/ CrashWorker(w)
  PROVE  TypeOK'
<1> DEFINE Busy == work[w].pc # "idle"
<1> USE DEF packageVars, rowVars, stripeVars, checkoutVars
<1>1. CASE RefuseSettlement(w)
  <2>1. Busy
    BY <1>1 DEF RefuseSettlement, Settles, Stored
  <2>2. /\ session' = session /\ url' = url /\ dispute' = dispute
        /\ charge' \in [Payments -> {"none", "held", "returned"}]
        /\ refundKeys' \subseteq RefundReasons \X Payments
        /\ raised' \subseteq Jobs
    BY <1>1, <2>1, RefundFirstKey, RefundTyped DEF RefuseSettlement
  <2>3. completed' \in [Payments -> BOOLEAN]
    BY <1>1 DEF RefuseSettlement, TypeOK
  <2>4. /\ work' \in [Workers -> BusyWork \cup {Idle}]
        /\ processed' \subseteq Jobs
    BY <1>1, <2>1, ReleaseTyped DEF RefuseSettlement
  <2> QED
    BY <1>1, <2>2, <2>3, <2>4 DEF RefuseSettlement, TypeOK
<1>2. ASSUME CompletePayment(w)
      PROVE  /\ completed' \in [Payments -> BOOLEAN]
             /\ intent' \in [Payments -> Payments \cup {NoPay}]
  <2>1. Busy
    BY <1>2 DEF CompletePayment, Settles, Stored
  <2> QED
    BY <1>2, <2>1, BusyTyped DEF CompletePayment, TypeOK
<1>3. CASE SettleFromWebhook(w)
  <2>1. Busy /\ CompletePayment(w) /\ MarkAsPaid /\ CommitMarker(w)
    BY <1>3 DEF SettleFromWebhook
  <2> QED
    BY <1>2, <2>1, PackageTyped, ReleaseTyped DEF CompletePayment, TypeOK
<1>4. CASE SettleFromSync(w)
  <2>1. work[w].pc = "loaded" /\ CompletePayment(w)
    BY <1>4 DEF SettleFromSync
  <2>2. work[w] \in BusyWork
    BY <2>1, BusyTyped
  <2>3. [work[w] EXCEPT !.pc = "settling"] \in BusyWork
    BY <2>2 DEF BusyWork
  <2>4. work' = [work EXCEPT ![w] = [work[w] EXCEPT !.pc = "settling"]]
    BY <1>4 DEF SettleFromSync
  <2>5. work' \in [Workers -> BusyWork \cup {Idle}]
    BY <2>3, <2>4 DEF TypeOK
  <2> QED
    BY <1>2, <1>4, <2>1, <2>5 DEF SettleFromSync, CompletePayment, TypeOK
<1>5. CASE FinishSync(w)
  BY <1>5, PackageTyped, ReleaseTyped DEF FinishSync, TypeOK
<1>6. CASE DropUnpaidSync(w)
  <2>1. Busy /\ Release(w) /\ UNCHANGED processed
    BY <1>6 DEF DropUnpaidSync, Stored
  <2> QED
    BY <1>6, <2>1, ReleaseTyped DEF DropUnpaidSync, TypeOK
<1>7. ASSUME Busy, intent' = LinkedIntent(w), CommitMarker(w),
             \/ FailAndReopen(w)
             \/ UNCHANGED <<completed, status, access>>
      PROVE  /\ status' \in Statuses /\ access' \in BOOLEAN
             /\ completed' \in [Payments -> BOOLEAN]
             /\ intent' \in [Payments -> Payments \cup {NoPay}]
             /\ work' \in [Workers -> BusyWork \cup {Idle}]
             /\ processed' \subseteq Jobs
  <2>1. status' \in Statuses /\ access' \in BOOLEAN
    BY <1>7, PackageTyped
  <2>2. completed' \in [Payments -> BOOLEAN]
    BY <1>7 DEF FailAndReopen, TypeOK
  <2> QED
    BY <1>7, <2>1, <2>2, LinkedIntentTyped, ReleaseTyped
<1>8. CASE RevertFailure(w)
  <2>1. /\ Busy /\ intent' = LinkedIntent(w) /\ CommitMarker(w)
        /\ FailAndReopen(w) \/ UNCHANGED <<completed, status, access>>
        /\ RefundFirst(w) \/ UNCHANGED stripeVars
        /\ UNCHANGED <<deleted, deleting, row, checkoutVars, crashes>>
    BY <1>8 DEF RevertFailure, Stored
  <2>2. /\ session' = session /\ url' = url /\ dispute' = dispute
        /\ charge' \in [Payments -> {"none", "held", "returned"}]
        /\ refundKeys' \subseteq RefundReasons \X Payments
        /\ raised' \subseteq Jobs
    BY <2>1, RefundFirstKey, RefundTyped
  <2> QED
    BY <1>7, <2>1, <2>2 DEF TypeOK
<1>9. CASE RevertReturned(w)
  <2>1. Busy /\ intent' = LinkedIntent(w) /\ CommitMarker(w) /\ FailAndReopen(w)
    BY <1>9 DEF RevertReturned, Stored
  <2> QED
    BY <1>7, <1>9, <2>1 DEF RevertReturned, TypeOK
<1>10. CASE RestorePaid(w)
  <2>1. Busy /\ intent' = LinkedIntent(w) /\ CommitMarker(w) /\ MarkAsPaid
    BY <1>10 DEF RestorePaid, Stored
  <2>2. completed' \in [Payments -> BOOLEAN]
    BY <1>10 DEF RestorePaid, TypeOK
  <2> QED
    BY <1>10, <2>1, <2>2, PackageTyped, LinkedIntentTyped, ReleaseTyped
       DEF RestorePaid, TypeOK
<1>11. CASE FreezeDisputed(w)
  <2>1. Busy /\ intent' = LinkedIntent(w) /\ CommitMarker(w)
    BY <1>11 DEF FreezeDisputed, Stored
  <2> QED
    BY <1>11, <2>1, LinkedIntentTyped, ReleaseTyped DEF FreezeDisputed, TypeOK
<1>12. CASE Rollback(w) \/ CrashWorker(w)
  <2>1. /\ Busy /\ Release(w) /\ UNCHANGED processed
        /\ UNCHANGED <<packageVars, rowVars, checkoutVars>>
        /\ crashes' \in 0..MaxCrashes
        /\ RefundFirst(w) \/ UNCHANGED stripeVars
    BY <1>12, ConstantsOK DEF Rollback, CrashWorker, Stored, TypeOK
  <2>2. /\ session' = session /\ url' = url /\ dispute' = dispute
        /\ charge' \in [Payments -> {"none", "held", "returned"}]
        /\ refundKeys' \subseteq RefundReasons \X Payments
        /\ raised' \subseteq Jobs
    BY <2>1, RefundFirstKey, RefundTyped
  <2> QED
    BY <2>1, <2>2, ReleaseTyped DEF TypeOK
<1> QED
  BY <1>1, <1>3, <1>4, <1>5, <1>6, <1>8, <1>9, <1>10, <1>11, <1>12 DEF ApplyStep

\* Workers never touch the checkout side.
LEMMA WorkerFrame ==
  ASSUME NEW w \in Workers, LoadStep(w) \/ ApplyStep(w) \/ CrashWorker(w)
  PROVE  UNCHANGED <<row, session, url, checkoutVars, deleted, deleting>>
<1> USE DEF packageVars, rowVars, stripeVars, checkoutVars, Refund
<1>1. CASE LoadStep(w)
  BY <1>1 DEF LoadStep, LoadSettlement, LoadPageSync, LoadReversal,
     IgnoreUnroutable, LoadReconcile, Load
<1>2. CASE RefuseSettlement(w) \/ SettleFromWebhook(w) \/ SettleFromSync(w)
           \/ FinishSync(w) \/ DropUnpaidSync(w)
  BY <1>2 DEF RefuseSettlement, SettleFromWebhook, SettleFromSync, FinishSync,
     DropUnpaidSync, CompletePayment, RefundFirst
<1>3. CASE RevertFailure(w) \/ RevertReturned(w) \/ RestorePaid(w)
           \/ FreezeDisputed(w)
  BY <1>3 DEF RefundFirst, RevertFailure, RevertReturned, RestorePaid, FreezeDisputed
<1>4. CASE Rollback(w) \/ CrashWorker(w)
  BY <1>4 DEF Rollback, CrashWorker, RefundFirst
<1> QED
  BY <1>1, <1>2, <1>3, <1>4 DEF ApplyStep

\* Nor does a worker change the course of a dispute.
LEMMA DisputeFrame ==
  ASSUME NEW w \in Workers, ApplyStep(w) \/ CrashWorker(w)
  PROVE  UNCHANGED dispute
<1> USE DEF stripeVars, Refund, RefundFirst
<1>1. CASE RefuseSettlement(w) \/ SettleFromWebhook(w) \/ SettleFromSync(w)
           \/ FinishSync(w) \/ DropUnpaidSync(w)
  BY <1>1 DEF RefuseSettlement, SettleFromWebhook, SettleFromSync, FinishSync,
     DropUnpaidSync, CompletePayment
<1>2. CASE RevertFailure(w) \/ RevertReturned(w) \/ RestorePaid(w)
           \/ FreezeDisputed(w)
  BY <1>2 DEF RevertFailure, RevertReturned, RestorePaid, FreezeDisputed
<1>3. CASE Rollback(w) \/ CrashWorker(w)
  BY <1>3 DEF Rollback, CrashWorker
<1> QED
  BY <1>1, <1>2, <1>3 DEF ApplyStep

LEMMA TypeStep == TypeInv /\ [Next]_vars => TypeInv'
<1> SUFFICES ASSUME TypeInv, [Next]_vars PROVE TypeInv'
  OBVIOUS
<1> USE DEF packageVars, rowVars, stripeVars, checkoutVars
<1>1. CASE \E c \in Checkouts : CheckoutStep(c)
  BY <1>1, CheckoutTyped, CheckoutKeepsClaimNamed DEF TypeInv
<1>2. CASE \E p \in Payments : AgePending(p)
  <2>1. TypeOK'
    BY <1>2 DEF AgePending, TypeInv, TypeOK, RowStates
  <2>2. ClaimNamed'
    BY <1>2 DEF AgePending, TypeInv, ClaimNamed
  <2> QED
    BY <2>1, <2>2 DEF TypeInv
<1>3. CASE RevokeForDelete \/ SaveDeleted
  <2>1. TypeOK'
    BY <1>3 DEF RevokeForDelete, SaveDeleted, TypeInv, TypeOK
  <2>2. ClaimNamed'
    BY <1>3 DEF RevokeForDelete, SaveDeleted, TypeInv, ClaimNamed
  <2> QED
    BY <2>1, <2>2 DEF TypeInv
<1>4. CASE StripeStep
  <2>1. UNCHANGED checkoutVars
    BY <1>4 DEF StripeStep, Pay, Decline, ExpireSession, FailTransfer,
       RefundExternally, OpenDispute, WinDispute, LoseDispute, OnlyStripe
  <2> QED
    BY <1>4, <2>1, StripeTyped DEF TypeInv, ClaimNamed
<1>5. CASE \E w \in Workers : LoadStep(w) \/ ApplyStep(w) \/ CrashWorker(w)
  <2>1. UNCHANGED checkoutVars
    BY <1>5, WorkerFrame
  <2> QED
    BY <1>5, <2>1, LoadStepTyped, ApplyTyped DEF TypeInv, ClaimNamed
<1>6. CASE UNCHANGED vars
  BY <1>6 DEF vars, TypeInv, TypeOK, ClaimNamed
<1> QED
  BY <1>1, <1>2, <1>3, <1>4, <1>5, <1>6 DEF Next

\* The state always has the declared form: in particular url never names a
\* payment that was not claimed, and a worker's copy is of an existing row.
THEOREM TypeCorrect == Spec => []TypeOK
<1>1. TypeInv => TypeOK
  BY DEF TypeInv
<1> QED
  BY InitTyped, TypeStep, <1>1, PTL DEF Spec

-----------------------------------------------------------------------------
(* Claims.                                                                 *)

\* Steps other than those of a request leave the requests and the lock alone,
\* and all but AgePending and Stripe's leave rows and sessions alone as well.
LEMMA OtherSteps ==
  ASSUME [Next]_vars
  PROVE  \/ \E c \in Checkouts : CheckoutStep(c)
         \/ UNCHANGED checkoutVars /\ \E p \in Payments : AgePending(p)
         \/ UNCHANGED checkoutVars /\ StripeStep
         \/ UNCHANGED <<row, session, url, checkoutVars>>
<1> USE DEF packageVars, rowVars, stripeVars, checkoutVars
<1>1. CASE \E p \in Payments : AgePending(p)
  BY <1>1 DEF AgePending
<1>2. CASE RevokeForDelete \/ SaveDeleted
  BY <1>2 DEF RevokeForDelete, SaveDeleted
<1>3. CASE StripeStep
  BY <1>3 DEF StripeStep, Pay, Decline, ExpireSession, FailTransfer,
     RefundExternally, OpenDispute, WinDispute, LoseDispute, OnlyStripe
<1>4. CASE \E w \in Workers : LoadStep(w) \/ ApplyStep(w) \/ CrashWorker(w)
  BY <1>4, WorkerFrame
<1>5. CASE UNCHANGED vars
  BY <1>5 DEF vars
<1> QED
  BY <1>1, <1>2, <1>3, <1>4, <1>5 DEF Next

Holding == {"claiming", "refusing", "reclaiming", "resuming"}
HasClaim(c) == cpc[c] \in {"claimed", "created"}

\* The package row lock is held by exactly the request that is between
\* LockForPayment and the end of its transaction.
LockInv == \A c \in Checkouts : lock = c <=> cpc[c] \in Holding

\* A claim belongs to one request, and until that request saves the session
\* nobody has its URL; only payments whose URL is out are ever paid; rows
\* are used in order.
ClaimInv ==
  /\ \A c \in Checkouts :
       HasClaim(c) => /\ row[cpay[c]] \in {"fresh", "stale", "gone"}
                      /\ cpay[c] \notin url
  /\ \A c \in Checkouts :
       cpc[c] = "reclaiming" => cpay[c] \in Payments /\ row[cpay[c]] # "unused"
  /\ \A c, d \in Checkouts :
       HasClaim(c) /\ HasClaim(d) /\ cpay[c] = cpay[d] => c = d
  /\ \A p \in Payments : row[p] \in {"unused", "fresh", "stale"} => p \notin url
  /\ \A p \in Payments : session[p] = "complete" => p \in url
  /\ \A p, q \in Payments : row[p] = "unused" /\ row[q] # "unused" => q < p

LEMMA LockStep == TypeInv /\ LockInv /\ [Next]_vars => LockInv'
<1> SUFFICES ASSUME TypeInv, LockInv, [Next]_vars PROVE LockInv'
  OBVIOUS
<1> USE DEF LockInv, Holding, checkoutVars
<1>1. ASSUME NEW c \in Checkouts, CheckoutStep(c) PROVE LockInv'
  <2> USE NoOneOK DEF TypeInv, TypeOK, Goto, Respond, Unlock
  <2>1. CASE LockForPayment(c)
    <3>1. \A p : PathFor(p) \in Holding
      BY DEF PathFor
    <3> QED
      BY <2>1, <3>1 DEF LockForPayment
  <2>2. CASE RefuseBusy(c) \/ ResumeSession(c)
    BY <2>2 DEF RefuseBusy, ResumeSession
  <2>3. CASE ClaimPayment(c) \/ RefuseNoItems(c) \/ RefuseNoRate(c)
    BY <2>3 DEF ClaimPayment, RefuseNoItems, RefuseNoRate, NotResumed
  <2>4. CASE BeginCheckout(c) \/ Activate(c) \/ RefuseUnavailable(c)
    BY <2>4 DEF BeginCheckout, Activate, RefuseUnavailable
  <2>5. CASE CreateSession(c) \/ SaveSession(c)
    BY <2>5 DEF CreateSession, SaveSession
  <2>6. CASE CreateSessionFails(c) \/ FailNoFeeRate(c)
    BY <2>6 DEF CreateSessionFails, FailNoFeeRate
  <2>7. CASE CrashCheckout(c)
    BY <2>7 DEF CrashCheckout
  <2> QED
    BY <1>1, <2>1, <2>2, <2>3, <2>4, <2>5, <2>6, <2>7
       DEF CheckoutStep, CheckoutProgress
<1>2. CASE UNCHANGED checkoutVars
  BY <1>2
<1> QED
  BY <1>1, <1>2, OtherSteps

LEMMA ClaimStep == TypeInv /\ ClaimInv /\ [Next]_vars => ClaimInv'
<1> SUFFICES ASSUME TypeInv, ClaimInv, [Next]_vars PROVE ClaimInv'
  OBVIOUS
<1> USE DEF TypeInv, TypeOK, ClaimInv, HasClaim
<1>1. ASSUME NEW c \in Checkouts, CheckoutStep(c) PROVE ClaimInv'
  <2> USE DEF Goto, Respond
  <2>1. CASE LockForPayment(c)
    <3>1. PICK p \in Payments \cup {NoPay} :
            /\ cpay' = [cpay EXCEPT ![c] = p]
            /\ cpc' = [cpc EXCEPT ![c] = PathFor(p)]
      BY <2>1 DEF LockForPayment
    <3>2. /\ PathFor(p) \notin {"claimed", "created"}
          /\ PathFor(p) = "reclaiming" => p # NoPay /\ row[p] = "stale"
      BY DEF PathFor
    <3>3. UNCHANGED <<row, session, url>>
      BY <2>1 DEF LockForPayment, stripeVars, rowVars
    <3> QED
      BY <3>1, <3>2, <3>3
  <2>2. CASE ResumeSession(c)
    BY <2>2 DEF ResumeSession, CanResume, rowVars
  <2>3. CASE ClaimPayment(c)
    <3>1. PICK p \in Payments :
            /\ row[p] = "unused"
            /\ \A q \in Payments : row[q] = "unused" => p <= q
            /\ row' = [Reclaimed(c) EXCEPT ![p] = "fresh"]
            /\ cpay' = [cpay EXCEPT ![c] = p]
      BY <2>3 DEF ClaimPayment, IsOldest
    <3>2. /\ cpc' = [cpc EXCEPT ![c] = "claimed"]
          /\ UNCHANGED <<session, url>>
      BY <2>3 DEF ClaimPayment, stripeVars
    <3>3. \A q \in Payments :
            row'[q] = IF q = p THEN "fresh" ELSE Reclaimed(c)[q]
      BY <3>1 DEF Reclaimed
    <3>4. \A q \in Payments :
            /\ Reclaimed(c)[q] # row[q] => Reclaimed(c)[q] = "gone"
            /\ Reclaimed(c)[q] = "unused" <=> row[q] = "unused"
      BY DEF Reclaimed
    <3>5. \A q, r \in Payments : row'[q] = "unused" /\ row'[r] # "unused" => r < q
      BY <3>1, <3>3, <3>4 DEF Payments
    <3>6. \A d \in Checkouts \ {c} : HasClaim(d) => cpay[d] # p
      BY <3>1
    <3>7. \A d \in Checkouts : HasClaim(d)' =>
            /\ row'[cpay'[d]] \in {"fresh", "stale", "gone"}
            /\ cpay'[d] \notin url'
      <4> SUFFICES ASSUME NEW d \in Checkouts, HasClaim(d)'
                   PROVE  /\ row'[cpay'[d]] \in {"fresh", "stale", "gone"}
                          /\ cpay'[d] \notin url'
        OBVIOUS
      <4>1. CASE d = c
        BY <3>1, <3>2, <3>3, <4>1
      <4>2. CASE d # c
        <5>1. /\ HasClaim(d) /\ cpay'[d] = cpay[d] /\ cpay[d] \in Payments
              /\ cpay[d] # p
          BY <3>1, <3>2, <3>6, <4>2 DEF ClaimNamed
        <5> QED
          BY <3>2, <3>3, <3>4, <5>1
      <4> QED
        BY <4>1, <4>2
    <3>8. \A d \in Checkouts : cpc'[d] = "reclaiming" =>
            cpay'[d] \in Payments /\ row'[cpay'[d]] # "unused"
      BY <3>1, <3>2, <3>3, <3>4
    <3>9. \A d, e \in Checkouts :
            HasClaim(d)' /\ HasClaim(e)' /\ cpay'[d] = cpay'[e] => d = e
      BY <3>1, <3>2, <3>6
    <3>10. \A q \in Payments :
             /\ row'[q] \in {"unused", "fresh", "stale"} => q \notin url'
             /\ session'[q] = "complete" => q \in url'
      BY <3>1, <3>2, <3>3, <3>4
    <3> QED
      BY <3>5, <3>7, <3>8, <3>9, <3>10
  <2>4. CASE RefuseNoItems(c)
    <3>1. /\ row' = Reclaimed(c) /\ UNCHANGED <<session, url>>
          /\ cpc' = [cpc EXCEPT ![c] = "idle"]
          /\ cpay' = [cpay EXCEPT ![c] = NoPay]
      BY <2>4 DEF RefuseNoItems, stripeVars
    <3>2. \A q \in Payments :
            /\ row'[q] # row[q] => row'[q] = "gone"
            /\ row'[q] = "unused" <=> row[q] = "unused"
      BY <3>1 DEF Reclaimed
    <3> QED
      BY <3>1, <3>2 DEF ClaimNamed
  <2>5. CASE BeginCheckout(c) \/ Activate(c) \/ RefuseUnavailable(c)
             \/ RefuseBusy(c) \/ RefuseNoRate(c) \/ FailNoFeeRate(c)
    BY <2>5 DEF BeginCheckout, Activate, RefuseUnavailable, RefuseBusy,
       RefuseNoRate, FailNoFeeRate, rowVars, stripeVars, checkoutVars
  <2>6. CASE CreateSession(c)
    BY <2>6 DEF CreateSession, rowVars
  <2>7. CASE CreateSessionFails(c)
    BY <2>7 DEF CreateSessionFails
  <2>8. CASE SaveSession(c)
    BY <2>8 DEF SaveSession, ClaimNamed
  <2>9. CASE CrashCheckout(c)
    BY <2>9 DEF CrashCheckout, rowVars, stripeVars
  <2> QED
    BY <1>1, <2>1, <2>2, <2>3, <2>4, <2>5, <2>6, <2>7, <2>8, <2>9
       DEF CheckoutStep, CheckoutProgress
<1>2. ASSUME NEW p \in Payments, AgePending(p) PROVE ClaimInv'
  BY <1>2 DEF AgePending, stripeVars, checkoutVars
<1>3. CASE StripeStep
  BY <1>3 DEF StripeStep, Pay, Decline, ExpireSession, FailTransfer,
     RefundExternally, OpenDispute, WinDispute, LoseDispute, OnlyStripe,
     rowVars, checkoutVars
<1>4. CASE UNCHANGED <<row, session, url, checkoutVars>>
  BY <1>4 DEF checkoutVars
<1> QED
  BY <1>1, <1>2, <1>3, <1>4, OtherSteps

-----------------------------------------------------------------------------
(* RoutableSessions.                                                       *)

\* When no request outlives PENDING_SESSION_STALENESS, a claim in progress is
\* fresh and the row being reclaimed is nobody's claim.
RoutableInv ==
  /\ \A c \in Checkouts : HasClaim(c) => row[cpay[c]] = "fresh"
  /\ \A c \in Checkouts : cpc[c] = "reclaiming" => row[cpay[c]] = "stale"
  /\ RoutableSessions

LEMMA RoutableStep ==
  ASSUME "slow_request" \notin Env, TypeInv, LockInv, ClaimInv, RoutableInv,
         [Next]_vars
  PROVE  RoutableInv'
<1> USE DEF TypeInv, TypeOK, RoutableInv, RoutableSessions, HasClaim
<1>1. ASSUME NEW c \in Checkouts, CheckoutStep(c) PROVE RoutableInv'
  <2> USE DEF Goto, Respond
  <2>1. CASE LockForPayment(c)
    <3>1. PICK p \in Payments \cup {NoPay} :
            /\ cpay' = [cpay EXCEPT ![c] = p]
            /\ cpc' = [cpc EXCEPT ![c] = PathFor(p)]
      BY <2>1 DEF LockForPayment
    <3>2. /\ PathFor(p) \notin {"claimed", "created"}
          /\ PathFor(p) = "reclaiming" => row[p] = "stale"
      BY DEF PathFor
    <3>3. UNCHANGED <<row, url>>
      BY <2>1 DEF LockForPayment, stripeVars, rowVars
    <3> QED
      BY <3>1, <3>2, <3>3
  <2>2. CASE ResumeSession(c)
    BY <2>2 DEF ResumeSession, CanResume, rowVars
  <2>3. CASE ClaimPayment(c) \/ RefuseNoItems(c)
    <3>1. \A d \in Checkouts : cpc[d] = "reclaiming" => c = d
      BY <2>3 DEF LockInv, Holding, ClaimPayment, RefuseNoItems, NotResumed
    <3>2. \A q \in Payments :
            /\ Reclaimed(c)[q] # row[q] => row[q] = "stale"
            /\ Reclaimed(c)[q] = "unused" => row[q] = "unused"
      BY DEF Reclaimed
    <3>3. CASE ClaimPayment(c)
      <4>1. PICK p \in Payments :
              /\ row[p] = "unused"
              /\ row' = [Reclaimed(c) EXCEPT ![p] = "fresh"]
              /\ cpay' = [cpay EXCEPT ![c] = p]
        BY <3>3 DEF ClaimPayment, IsOldest
      <4>2. cpc' = [cpc EXCEPT ![c] = "claimed"] /\ UNCHANGED url
        BY <3>3 DEF ClaimPayment, stripeVars
      <4>3. \A q \in Payments :
              row'[q] = IF q = p THEN "fresh" ELSE Reclaimed(c)[q]
        BY <4>1 DEF Reclaimed
      <4> QED
        BY <3>1, <3>2, <4>1, <4>2, <4>3 DEF ClaimNamed
    <3>4. CASE RefuseNoItems(c)
      <4>1. /\ row' = Reclaimed(c) /\ UNCHANGED url
            /\ cpc' = [cpc EXCEPT ![c] = "idle"]
            /\ cpay' = [cpay EXCEPT ![c] = NoPay]
        BY <3>4 DEF RefuseNoItems, stripeVars
      <4> QED
        BY <3>1, <3>2, <4>1 DEF ClaimNamed
    <3> QED
      BY <2>3, <3>3, <3>4
  <2>4. CASE BeginCheckout(c) \/ Activate(c) \/ RefuseUnavailable(c)
             \/ RefuseBusy(c) \/ RefuseNoRate(c) \/ FailNoFeeRate(c)
    BY <2>4 DEF BeginCheckout, Activate, RefuseUnavailable, RefuseBusy,
       RefuseNoRate, FailNoFeeRate, rowVars, stripeVars, checkoutVars
  <2>5. CASE CreateSession(c) \/ CrashCheckout(c)
    BY <2>5 DEF CreateSession, CrashCheckout, rowVars, stripeVars
  <2>6. CASE CreateSessionFails(c)
    BY <2>6 DEF CreateSessionFails, ClaimInv
  <2>7. CASE SaveSession(c)
    BY <2>7 DEF SaveSession, ClaimInv, ClaimNamed
  <2> QED
    BY <1>1, <2>1, <2>2, <2>3, <2>4, <2>5, <2>6, <2>7
       DEF CheckoutStep, CheckoutProgress
<1>2. ASSUME NEW p \in Payments, AgePending(p) PROVE RoutableInv'
  BY <1>2 DEF AgePending, stripeVars, checkoutVars
<1>3. CASE StripeStep
  BY <1>3 DEF StripeStep, Pay, Decline, ExpireSession, FailTransfer,
     RefundExternally, OpenDispute, WinDispute, LoseDispute, OnlyStripe,
     rowVars, checkoutVars
<1>4. CASE UNCHANGED <<row, session, url, checkoutVars>>
  BY <1>4 DEF checkoutVars
<1> QED
  BY <1>1, <1>2, <1>3, <1>4, OtherSteps

\* create_package_checkout: if no request takes longer than
\* PENDING_SESSION_STALENESS, every session whose URL a payer was given is
\* named by an existing payment row, whatever else fails or interleaves.
THEOREM UrlsAreRoutable ==
  ASSUME "slow_request" \notin Env
  PROVE  Spec => []RoutableSessions
<1> DEFINE Inv == TypeInv /\ LockInv /\ ClaimInv /\ RoutableInv
<1>1. Init => Inv
  <2> SUFFICES ASSUME Init PROVE LockInv /\ ClaimInv /\ RoutableInv
    BY InitTyped
  <2> QED
    BY NoOneOK DEF Init, LockInv, Holding, ClaimInv, RoutableInv, HasClaim,
       RoutableSessions
<1>2. Inv /\ [Next]_vars => Inv'
  BY TypeStep, LockStep, ClaimStep, RoutableStep
<1>3. Inv => RoutableSessions
  BY DEF RoutableInv
<1> QED
  BY <1>1, <1>2, <1>3, PTL DEF Spec

-----------------------------------------------------------------------------
(* PaidOnlyOnCapturedCharge.                                               *)

\* What a worker has in hand was raised by Stripe, and Stripe raises only
\* charge_failed without a captured charge.
CaptureInv ==
  /\ \A p \in Payments : session[p] = "complete" => charge[p] # "none"
  /\ \A e \in raised : e.type # "charge_failed" => charge[e.pay] # "none"
  /\ \A w \in Workers : work[w].pc # "idle" /\ work[w].job.type # "sync"
                          => work[w].job \in raised
  /\ \A w \in Workers : work[w].pc = "settling"
                          => session[work[w].pay] = "complete"
  /\ \A p \in Payments : dispute[p] = "open" => charge[p] # "none"
  /\ PaidOnlyOnCapturedCharge

\* A request never creates a session for a payment that was paid.
LEMMA CheckoutKeepsComplete ==
  ASSUME TypeInv, ClaimInv, NEW c \in Checkouts, CheckoutStep(c)
  PROVE  \A p \in Payments : session'[p] = "complete" <=> session[p] = "complete"
<1> USE DEF stripeVars
<1>1. CASE CreateSession(c) \/ CreateSessionFails(c)
  <2>1. PICK s \in {"none", "open"} : session' = [session EXCEPT ![cpay[c]] = s]
    BY <1>1 DEF CreateSession, CreateSessionFails
  <2>2. HasClaim(c)
    BY <1>1 DEF CreateSession, CreateSessionFails, HasClaim
  <2>3. session[cpay[c]] # "complete"
    BY <2>2 DEF ClaimInv, TypeInv, ClaimNamed, HasClaim
  <2> QED
    BY <2>1, <2>3 DEF TypeInv, TypeOK
<1>2. CASE ~(CreateSession(c) \/ CreateSessionFails(c))
  BY <1>2 DEF CheckoutStep, CheckoutProgress, BeginCheckout, Activate,
     LockForPayment, RefuseUnavailable, RefuseBusy, ResumeSession,
     ClaimPayment, RefuseNoItems, RefuseNoRate, SaveSession, FailNoFeeRate,
     CrashCheckout
<1> QED
  BY <1>1, <1>2

LEMMA CaptureCheckout ==
  ASSUME TypeInv, ClaimInv, CaptureInv, NEW c \in Checkouts, CheckoutStep(c)
  PROVE  CaptureInv'
<1> USE DEF rowVars, stripeVars, packageVars
<1>1. UNCHANGED <<charge, dispute, raised, work>> /\ (status' = status \/ status' = "open")
  BY DEF CheckoutStep, CheckoutProgress, BeginCheckout, Activate,
     LockForPayment, RefuseUnavailable, RefuseBusy, ResumeSession, ClaimPayment,
     RefuseNoItems, RefuseNoRate, CreateSession, SaveSession, FailNoFeeRate,
     CreateSessionFails, CrashCheckout
<1>2. \A p \in Payments : session'[p] = "complete" <=> session[p] = "complete"
  BY CheckoutKeepsComplete
<1>3. \A w \in Workers : work[w].pc = "settling" => work[w].pay \in Payments
  BY BusyTyped DEF TypeInv
<1> QED
  BY <1>1, <1>2, <1>3 DEF CaptureInv, PaidOnlyOnCapturedCharge

LEMMA CaptureStripe ==
  ASSUME TypeInv, CaptureInv, StripeStep
  PROVE  CaptureInv'
<1> USE DEF TypeInv, TypeOK
<1>1. PICK p \in Payments :
        \/ Pay(p) \/ Decline(p) \/ ExpireSession(p) \/ FailTransfer(p)
        \/ RefundExternally(p) \/ OpenDispute(p) \/ WinDispute(p)
        \/ LoseDispute(p)
  BY DEF StripeStep
<1>2. /\ UNCHANGED <<status, work>>
      /\ \A q \in Payments : charge[q] # "none" => charge'[q] # "none"
      /\ \A q \in Payments : session[q] = "complete" => session'[q] = "complete"
      /\ \A q \in Payments : session'[q] = "complete" =>
           session[q] = "complete" \/ charge'[q] # "none"
  BY <1>1 DEF Pay, Decline, ExpireSession, FailTransfer, RefundExternally,
     OpenDispute, WinDispute, LoseDispute, OnlyStripe, packageVars
<1>3. PICK t \in JobTypes :
        /\ raised' \in {raised, raised \cup {Event(t, p)}}
        /\ raised' # raised /\ t # "charge_failed" => charge'[p] # "none"
  <2>1. CASE WinDispute(p)
    BY <2>1 DEF WinDispute, Raise, JobTypes, Reversals, CaptureInv
  <2>2. CASE ~WinDispute(p)
    BY <1>1, <2>2 DEF Pay, Decline, ExpireSession, FailTransfer,
       RefundExternally, OpenDispute, LoseDispute, Raise, JobTypes, Reversals
  <2> QED
    BY <2>1, <2>2
<1>4. \A q \in Payments : dispute'[q] = "open" =>
        dispute[q] = "open" \/ charge'[q] # "none"
  BY <1>1 DEF Pay, Decline, ExpireSession, FailTransfer, RefundExternally,
     OpenDispute, WinDispute, LoseDispute
<1>5. \A e \in raised' : e.type # "charge_failed" => charge'[e.pay] # "none"
  <2> SUFFICES ASSUME NEW e \in raised', e.type # "charge_failed"
               PROVE  charge'[e.pay] # "none"
    OBVIOUS
  <2>1. CASE e \in raised
    BY <1>2, <2>1 DEF CaptureInv, Jobs
  <2>2. CASE e \notin raised
    BY <1>3, <2>2 DEF Event
  <2> QED
    BY <2>1, <2>2
<1>6. raised \subseteq raised'
  BY <1>3
<1>7. \A w \in Workers : work[w].pc = "settling" => work[w].pay \in Payments
  BY BusyTyped
<1>8. \A w \in Workers : work'[w].pc = "settling"
                          => session'[work'[w].pay] = "complete"
  BY <1>2, <1>7 DEF CaptureInv
<1>9. PaidOnlyOnCapturedCharge'
  BY <1>2 DEF CaptureInv, PaidOnlyOnCapturedCharge
<1>10. \A w \in Workers : work'[w].pc # "idle" /\ work'[w].job.type # "sync"
                           => work'[w].job \in raised'
  BY <1>2, <1>6 DEF CaptureInv
<1>11. \A q \in Payments : session'[q] = "complete" => charge'[q] # "none"
  BY <1>2 DEF CaptureInv
<1>12. \A q \in Payments : dispute'[q] = "open" => charge'[q] # "none"
  BY <1>2, <1>4 DEF CaptureInv
<1> QED
  BY <1>5, <1>8, <1>9, <1>10, <1>11, <1>12 DEF CaptureInv

LEMMA CaptureLoad ==
  ASSUME TypeInv, CaptureInv, NEW w \in Workers, LoadStep(w)
  PROVE  CaptureInv'
<1>1. UNCHANGED <<status, session, charge, dispute, raised>>
  BY DEF LoadStep, LoadSettlement, LoadPageSync, LoadReversal,
     IgnoreUnroutable, LoadReconcile, Load, packageVars, rowVars, stripeVars
<1>2. \/ UNCHANGED work
      \/ \E j, p, l : /\ Load(w, j, p, l)
                      /\ j.type # "sync" => j \in raised
  <2> DEFINE sync(p) == Event("sync", p)
  <2>6. \A p : sync(p).type = "sync"
    BY DEF Event
  <2> HIDE DEF sync
  <2>1. CASE \E p \in Payments : LoadSettlement(w, p)
    BY <2>1 DEF LoadSettlement, Deliverable
  <2>2. CASE \E p \in Payments : LoadPageSync(w, p)
    <3>1. PICK p : Load(w, sync(p), p, FALSE)
      BY <2>2 DEF LoadPageSync, sync
    <3> QED
      BY <2>6, <3>1
  <2>3. CASE LoadReconcile(w)
    <3>1. PICK p : Load(w, sync(p), p, FALSE)
      BY <2>3 DEF LoadReconcile, sync
    <3> QED
      BY <2>6, <3>1
  <2>4. CASE \E e \in Deliverable : LoadReversal(w, e)
    BY <2>4 DEF LoadReversal, Deliverable
  <2>5. CASE \E e \in Deliverable : IgnoreUnroutable(w, e)
    BY <2>5 DEF IgnoreUnroutable
  <2> QED
    BY <2>1, <2>2, <2>3, <2>4, <2>5 DEF LoadStep
<1>3. /\ \A v \in Workers \ {w} : work'[v] = work[v]
      /\ \/ work'[w] = work[w]
         \/ /\ work'[w].pc = "loaded"
            /\ work'[w].job.type # "sync" => work'[w].job \in raised
  BY <1>2 DEF Load, TypeInv, TypeOK
<1> QED
  BY <1>1, <1>3 DEF CaptureInv, PaidOnlyOnCapturedCharge

\* What applying does to the charges and to what was raised.
LEMMA ApplyMoney ==
  ASSUME TypeInv, CaptureInv, NEW w \in Workers, ApplyStep(w) \/ CrashWorker(w)
  PROVE  /\ \A q \in Payments : charge[q] # "none" => charge'[q] # "none"
         /\ raised \subseteq raised'
         /\ \A e \in raised' : e.type # "charge_failed" => charge'[e.pay] # "none"
<1>1. UNCHANGED stripeVars
      \/ \E key \in RefundReasons \X Payments : Refund(key)
  <2>1. CASE RefuseSettlement(w) \/ RevertFailure(w) \/ Rollback(w)
             \/ CrashWorker(w)
    <3>1. work[w].pc # "idle" /\ (UNCHANGED stripeVars \/ RefundFirst(w))
      BY <2>1 DEF RefuseSettlement, RevertFailure, Rollback, CrashWorker,
         Settles, Stored
    <3> QED
      BY <3>1, RefundFirstKey DEF TypeInv
  <2>3. CASE SettleFromWebhook(w) \/ SettleFromSync(w) \/ FinishSync(w)
             \/ DropUnpaidSync(w)
    BY <2>3 DEF SettleFromWebhook, SettleFromSync, CompletePayment, FinishSync,
       DropUnpaidSync
  <2>4. CASE RevertReturned(w) \/ RestorePaid(w) \/ FreezeDisputed(w)
    BY <2>4 DEF RevertReturned, RestorePaid, FreezeDisputed
  <2> QED
    BY <2>1, <2>3, <2>4 DEF ApplyStep
<1>2. CASE UNCHANGED stripeVars
  BY <1>2 DEF stripeVars, CaptureInv
<1>3. ASSUME NEW key \in RefundReasons \X Payments, Refund(key)
      PROVE  /\ \A q \in Payments : charge[q] # "none" => charge'[q] # "none"
             /\ charge'[key[2]] = "returned"
             /\ raised' = raised \cup {Event("charge_refunded", key[2])}
  BY <1>3 DEF Refund, Raise, TypeInv, TypeOK
<1>4. CASE \E key \in RefundReasons \X Payments : Refund(key)
  BY <1>3, <1>4 DEF CaptureInv, TypeInv, TypeOK, Jobs, Event
<1> QED
  BY <1>1, <1>2, <1>4

LEMMA CaptureApply ==
  ASSUME TypeInv, CaptureInv, NEW w \in Workers, ApplyStep(w) \/ CrashWorker(w)
  PROVE  CaptureInv'
<1>1. UNCHANGED <<session, dispute>>
  BY WorkerFrame, DisputeFrame
<1>2. /\ \A v \in Workers \ {w} : work'[v] = work[v]
      /\ \/ work'[w].pc = "idle"
         \/ /\ work'[w].pc = "settling" /\ work'[w].pay = work[w].pay
            /\ work'[w].job = work[w].job /\ work[w].job.type = "sync"
            /\ session[work[w].pay] = "complete"
  <2>1. CASE SettleFromSync(w)
    <3>1. /\ work[w].pc = "loaded" /\ work[w].job.type = "sync"
          /\ work' = [work EXCEPT ![w] = [work[w] EXCEPT !.pc = "settling"]]
          /\ session[work[w].pay] = "complete"
      BY <2>1 DEF SettleFromSync, CompletePayment, Settles
    <3>2. work[w] \in BusyWork
      BY <3>1, BusyTyped DEF TypeInv
    <3> QED
      BY <3>1, <3>2 DEF TypeInv, TypeOK, BusyWork
  <2>2. CASE ~SettleFromSync(w)
    <3>1. Release(w)
      BY <2>2 DEF ApplyStep, CrashWorker, RefuseSettlement, SettleFromWebhook,
         FinishSync, DropUnpaidSync, RevertFailure, RevertReturned, RestorePaid,
         FreezeDisputed, Rollback, Finish, CommitMarker
    <3> QED
      BY <3>1 DEF Release, Idle, TypeInv, TypeOK
  <2> QED
    BY <2>1, <2>2
<1>3. status' = "paid" => status = "paid" \/ \E p \in Payments : charge[p] # "none"
  <2>1. CASE SettleFromWebhook(w) \/ FinishSync(w)
    <3>1. /\ work[w].pc # "idle"
          /\ session[work[w].pay] = "complete"
      BY <2>1 DEF SettleFromWebhook, CompletePayment, Settles, FinishSync,
         CaptureInv
    <3> QED
      BY <3>1, BusyTyped DEF CaptureInv, TypeInv
  <2>2. CASE RestorePaid(w)
    <3>1. work[w].pc # "idle" /\ work[w].job.type = "dispute_won"
      BY <2>2 DEF RestorePaid, Stored
    <3> QED
      BY <3>1, BusyTyped DEF CaptureInv, TypeInv
  <2>3. CASE RefuseSettlement(w) \/ SettleFromSync(w) \/ DropUnpaidSync(w)
             \/ FreezeDisputed(w) \/ Rollback(w) \/ CrashWorker(w)
    BY <2>3 DEF RefuseSettlement, SettleFromSync, DropUnpaidSync,
       FreezeDisputed, Rollback, CrashWorker, packageVars
  <2>4. CASE RevertFailure(w) \/ RevertReturned(w)
    BY <2>4 DEF RevertFailure, RevertReturned, FailAndReopen, MarkAsRefunded
  <2> QED
    BY <2>1, <2>2, <2>3, <2>4 DEF ApplyStep
<1>4. \A v \in Workers : work'[v].pc # "idle" /\ work'[v].job.type # "sync"
                         => work'[v].job \in raised'
  BY <1>2, ApplyMoney DEF CaptureInv
<1>5. \A v \in Workers : work'[v].pc = "settling"
                         => session'[work'[v].pay] = "complete"
  BY <1>1, <1>2 DEF CaptureInv
<1>6. PaidOnlyOnCapturedCharge'
  BY <1>3, ApplyMoney DEF CaptureInv, PaidOnlyOnCapturedCharge
<1>7. \A q \in Payments : /\ session'[q] = "complete" => charge'[q] # "none"
                          /\ dispute'[q] = "open" => charge'[q] # "none"
  BY <1>1, ApplyMoney DEF CaptureInv
<1> QED
  BY <1>4, <1>5, <1>6, <1>7, ApplyMoney DEF CaptureInv

LEMMA InitClaims == Init => ClaimInv /\ CaptureInv
<1> SUFFICES ASSUME Init PROVE ClaimInv /\ CaptureInv
  OBVIOUS
<1>1. ClaimInv
  BY DEF Init, ClaimInv, HasClaim
<1>2. CaptureInv
  BY DEF Init, CaptureInv, PaidOnlyOnCapturedCharge, Idle
<1> QED
  BY <1>1, <1>2

LEMMA CaptureStep == TypeInv /\ ClaimInv /\ CaptureInv /\ [Next]_vars => CaptureInv'
<1> SUFFICES ASSUME TypeInv, ClaimInv, CaptureInv, [Next]_vars PROVE CaptureInv'
  OBVIOUS
<1>1. CASE \E c \in Checkouts : CheckoutStep(c)
  BY <1>1, CaptureCheckout
<1>2. CASE \/ \E p \in Payments : AgePending(p)
           \/ RevokeForDelete \/ SaveDeleted \/ UNCHANGED vars
  BY <1>2 DEF AgePending, RevokeForDelete, SaveDeleted, vars, packageVars,
     stripeVars, CaptureInv, PaidOnlyOnCapturedCharge
<1>3. CASE StripeStep
  BY <1>3, CaptureStripe
<1>4. CASE \E w \in Workers : LoadStep(w) \/ ApplyStep(w) \/ CrashWorker(w)
  BY <1>4, CaptureLoad, CaptureApply
<1> QED
  BY <1>1, <1>2, <1>3, <1>4 DEF Next

\* A package is PAID only if some payer's charge for it has been captured:
\* through whichever worker, sync, redelivery, dispute or crash it got there.
THEOREM PaidNeedsCapture == Spec => []PaidOnlyOnCapturedCharge
<1> DEFINE Inv == TypeInv /\ ClaimInv /\ CaptureInv
<1>1. Init => Inv
  BY InitTyped, InitClaims
<1>2. Inv /\ [Next]_vars => Inv'
  BY TypeStep, ClaimStep, CaptureStep
<1>3. Inv => PaidOnlyOnCapturedCharge
  BY DEF CaptureInv
<1> QED
  BY <1>1, <1>2, <1>3, PTL DEF Spec

-----------------------------------------------------------------------------
(* CompletedIsCaptured and OneClaim.  A won dispute completes the payment  *)
(* its PaymentIntent was linked to, which may be a claim that was never    *)
(* paid, so both are about packages without disputes.                      *)

NoDispute ==
  /\ \A p \in Payments : dispute[p] = "none"
  /\ \A e \in raised : e.type \notin {"dispute_created", "dispute_won", "dispute_lost"}

LEMMA NoDisputeStep ==
  ASSUME "dispute" \notin Env, TypeInv, NoDispute, [Next]_vars
  PROVE  NoDispute'
<1> USE DEF NoDispute
<1>1. CASE \E c \in Checkouts : CheckoutStep(c)
  BY <1>1 DEF CheckoutStep, CheckoutProgress, BeginCheckout, Activate,
     LockForPayment, RefuseUnavailable, RefuseBusy, ResumeSession, ClaimPayment,
     RefuseNoItems, RefuseNoRate, CreateSession, SaveSession, FailNoFeeRate,
     CreateSessionFails, CrashCheckout, stripeVars
<1>2. CASE \/ \E p \in Payments : AgePending(p)
           \/ RevokeForDelete \/ SaveDeleted \/ UNCHANGED vars
  BY <1>2 DEF AgePending, RevokeForDelete, SaveDeleted, vars, stripeVars
<1>3. CASE StripeStep
  BY <1>3 DEF StripeStep, Pay, Decline, ExpireSession, FailTransfer,
     RefundExternally, OpenDispute, WinDispute, LoseDispute, Raise, Event
<1>4. ASSUME NEW w \in Workers, LoadStep(w) PROVE NoDispute'
  BY <1>4 DEF LoadStep, LoadSettlement, LoadPageSync, LoadReversal,
     IgnoreUnroutable, LoadReconcile, Load, stripeVars
<1>5. ASSUME NEW w \in Workers, ApplyStep(w) \/ CrashWorker(w)
      PROVE  NoDispute'
  <2>1. \/ raised' = raised
        \/ \E key : raised' = raised \cup {Event("charge_refunded", key[2])}
    <3>1. CASE RefuseSettlement(w)
      BY <3>1 DEF RefuseSettlement, RefundFirst, Refund, Raise, stripeVars
    <3>2. CASE RevertFailure(w) \/ Rollback(w) \/ CrashWorker(w)
      BY <3>2 DEF RevertFailure, Rollback, CrashWorker, RefundFirst, Refund,
         Raise, stripeVars
    <3>3. CASE SettleFromWebhook(w) \/ SettleFromSync(w) \/ FinishSync(w)
               \/ DropUnpaidSync(w)
      BY <3>3 DEF SettleFromWebhook, SettleFromSync, CompletePayment,
         FinishSync, DropUnpaidSync, stripeVars
    <3>4. CASE RevertReturned(w) \/ RestorePaid(w) \/ FreezeDisputed(w)
      BY <3>4 DEF RevertReturned, RestorePaid, FreezeDisputed, stripeVars
    <3> QED
      BY <1>5, <3>1, <3>2, <3>3, <3>4 DEF ApplyStep
  <2>2. \A p : Event("charge_refunded", p).type = "charge_refunded"
    BY DEF Event
  <2> QED
    BY <1>5, <2>1, <2>2, DisputeFrame
<1> QED
  BY <1>1, <1>2, <1>3, <1>4, <1>5 DEF Next

\* Only the settlement of a paid session completes a payment.
CompletedInv == \A p \in Payments : completed[p] => session[p] = "complete"

LEMMA CompletedStep ==
  ASSUME TypeInv, ClaimInv, CaptureInv, NoDispute, CompletedInv, [Next]_vars
  PROVE  CompletedInv'
<1> USE DEF CompletedInv
<1>1. ASSUME NEW c \in Checkouts, CheckoutStep(c) PROVE CompletedInv'
  <2>1. UNCHANGED completed
    BY <1>1 DEF CheckoutStep, CheckoutProgress, BeginCheckout, Activate,
       LockForPayment, RefuseUnavailable, RefuseBusy, ResumeSession,
       ClaimPayment, RefuseNoItems, RefuseNoRate, CreateSession, SaveSession,
       FailNoFeeRate, CreateSessionFails, CrashCheckout, rowVars
  <2> QED
    BY <1>1, <2>1, CheckoutKeepsComplete
<1>2. CASE \/ \E p \in Payments : AgePending(p)
           \/ RevokeForDelete \/ SaveDeleted \/ UNCHANGED vars
  BY <1>2 DEF AgePending, RevokeForDelete, SaveDeleted, vars, rowVars, stripeVars
<1>3. CASE StripeStep
  BY <1>3 DEF StripeStep, Pay, Decline, ExpireSession, FailTransfer, TypeInv,
     TypeOK, RefundExternally, OpenDispute, WinDispute, LoseDispute, OnlyStripe,
     rowVars
<1>4. ASSUME NEW w \in Workers, LoadStep(w) PROVE CompletedInv'
  BY <1>4 DEF LoadStep, LoadSettlement, LoadPageSync, LoadReversal,
     IgnoreUnroutable, LoadReconcile, Load, rowVars, stripeVars
<1>5. ASSUME NEW w \in Workers, ApplyStep(w) \/ CrashWorker(w)
      PROVE  CompletedInv'
  <2>1. \A p \in Payments : completed'[p] => completed[p] \/ session[p] = "complete"
    <3>1. CASE SettleFromWebhook(w) \/ SettleFromSync(w)
      BY <3>1 DEF SettleFromWebhook, SettleFromSync, CompletePayment, Settles,
         TypeInv, TypeOK
    <3>2. CASE RestorePaid(w)
      <4>1. work[w].pc # "idle" /\ work[w].job.type = "dispute_won"
        BY <3>2 DEF RestorePaid, Stored
      <4> QED
        BY <4>1 DEF CaptureInv, NoDispute
    <3>3. CASE RefuseSettlement(w) \/ RevertFailure(w) \/ RevertReturned(w)
      BY <3>3 DEF RefuseSettlement, RevertFailure, RevertReturned,
         FailAndReopen, TypeInv, TypeOK
    <3>4. CASE FinishSync(w) \/ DropUnpaidSync(w) \/ FreezeDisputed(w)
               \/ Rollback(w) \/ CrashWorker(w)
      BY <3>4 DEF FinishSync, DropUnpaidSync, FreezeDisputed, Rollback,
         CrashWorker, rowVars
    <3> QED
      BY <1>5, <3>1, <3>2, <3>3, <3>4 DEF ApplyStep
  <2> QED
    BY <1>5, <2>1, WorkerFrame
<1> QED
  BY <1>1, <1>2, <1>3, <1>4, <1>5 DEF Next

\* What a request saw under the lock stays true while it holds the lock.
SingleInv ==
  /\ \A c \in Checkouts :
       /\ cpc[c] \in {"claiming", "resuming"} => Pending = {}
       /\ cpc[c] = "reclaiming" => Pending \subseteq {cpay[c]}
  /\ OneClaim

\* Pending rows are incomplete: nobody has their URL yet.
LEMMA PendingIncomplete ==
  ASSUME ClaimInv, CompletedInv
  PROVE  Pending \subseteq Incomplete
  BY DEF ClaimInv, CompletedInv, Pending, Incomplete, Existing

LEMMA SingleStep ==
  ASSUME TypeInv, LockInv, ClaimInv, CompletedInv, SingleInv, [Next]_vars
  PROVE  SingleInv'
<1> USE DEF TypeInv, TypeOK, SingleInv, OneClaim
<1>1. ASSUME NEW c \in Checkouts, CheckoutStep(c) PROVE SingleInv'
  <2> USE DEF Goto, Respond
  <2>1. CASE LockForPayment(c)
    <3>1. PICK p \in Payments \cup {NoPay} :
            /\ IsNewest(p, Incomplete)
            /\ cpay' = [cpay EXCEPT ![c] = p]
            /\ cpc' = [cpc EXCEPT ![c] = PathFor(p)]
      BY <2>1 DEF LockForPayment
    <3>2. UNCHANGED row /\ Pending' = Pending /\ Existing' = Existing
      BY <2>1 DEF LockForPayment, rowVars, Pending, Existing
    <3>3. CASE p = NoPay
      <4>0. NoPay \notin Incomplete
        BY DEF Incomplete, Existing, Payments, NoPay
      <4>1. Pending = {}
        BY <3>1, <3>3, <4>0, PendingIncomplete DEF IsNewest
      <4> QED
        BY <3>1, <3>2, <3>3, <4>1 DEF PathFor
    <3>4. CASE p \in Payments /\ p # NoPay
      <4>1. p \in Existing /\ \A q \in Pending : q <= p
        BY <3>1, <3>4, PendingIncomplete DEF IsNewest, Incomplete
      <4>2. Pending \subseteq {p}
        BY <4>1 DEF Pending, Existing, Payments
      <4>3. p \in Pending => row[p] \in {"fresh", "stale"}
        BY DEF Pending
      <4>4. PathFor(p) \in {"claiming", "resuming"} => row[p] \notin {"fresh", "stale"}
        BY <3>4 DEF PathFor
      <4>5. PathFor(p) \in {"claiming", "resuming"} => Pending = {}
        BY <4>2, <4>3, <4>4
      <4>6. ASSUME NEW d \in Checkouts
            PROVE  /\ cpc'[d] \in {"claiming", "resuming"} => Pending = {}
                   /\ cpc'[d] = "reclaiming" => Pending \subseteq {cpay'[d]}
        BY <3>1, <4>2, <4>5
      <4> HIDE DEF Pending, Existing
      <4> QED
        BY <3>2, <4>6
    <3> QED
      BY <3>3, <3>4 DEF NoPay, Payments
  <2>2. CASE ClaimPayment(c)
    <3>1. PICK p \in Payments :
            /\ row[p] = "unused"
            /\ row' = [Reclaimed(c) EXCEPT ![p] = "fresh"]
      BY <2>2 DEF ClaimPayment, IsOldest
    <3>2. \A q \in Payments :
            row'[q] = IF q = p THEN "fresh"
                      ELSE IF cpc[c] = "reclaiming" /\ q = cpay[c]
                           THEN "gone" ELSE row[q]
      BY <3>1 DEF Reclaimed
    <3>3. cpc[c] \in {"claiming", "reclaiming", "resuming"}
          /\ cpc' = [cpc EXCEPT ![c] = "claimed"]
      BY <2>2 DEF ClaimPayment, NotResumed
    <3>4. Pending' = {p}
      BY <3>2, <3>3 DEF Pending
    <3>5. \A q \in Existing' : q <= p
      BY <3>1, <3>2 DEF Existing, ClaimInv, Payments
    <3>6. \A d \in Checkouts : cpc'[d] \notin Holding
      BY <3>3 DEF LockInv, Holding
    <3> QED
      BY <3>4, <3>5, <3>6 DEF Holding
  <2>3. CASE ~LockForPayment(c) /\ ~ClaimPayment(c)
    <3>1. /\ Pending' \subseteq Pending
          /\ \A q \in Existing' : q \in Existing
      <4>1. CASE RefuseNoItems(c)
        BY <4>1 DEF RefuseNoItems, Reclaimed, Pending, Existing
      <4>2. CASE CreateSessionFails(c)
        BY <4>2 DEF CreateSessionFails, Pending, Existing
      <4>3. CASE SaveSession(c)
        <5>1. HasClaim(c) /\ cpay[c] \in Payments
          BY <4>3 DEF SaveSession, HasClaim, ClaimNamed
        <5>2. row' = row \/ row' = [row EXCEPT ![cpay[c]] = "live"]
          BY <4>3 DEF SaveSession
        <5>3. row'  = row \/ cpay[c] \in Existing
          BY <4>3, <5>1 DEF SaveSession, ClaimInv, Existing
        <5> QED
          BY <5>1, <5>2, <5>3 DEF Pending, Existing
      <4>4. CASE UNCHANGED row
        BY <4>4 DEF Pending, Existing
      <4>5. \/ RefuseNoItems(c) \/ CreateSessionFails(c) \/ SaveSession(c)
            \/ UNCHANGED row
        BY <1>1, <2>3 DEF CheckoutStep, CheckoutProgress, BeginCheckout, Activate,
           RefuseUnavailable, RefuseBusy, ResumeSession, RefuseNoRate,
           CreateSession, FailNoFeeRate, CrashCheckout, rowVars
      <4> QED
        BY <4>1, <4>2, <4>3, <4>4, <4>5
    <3>2. \A d \in Checkouts : cpc'[d] \in {"claiming", "reclaiming", "resuming"}
            => cpc'[d] = cpc[d] /\ cpay'[d] = cpay[d]
      BY <1>1, <2>3 DEF CheckoutStep, CheckoutProgress, BeginCheckout, Activate,
         RefuseUnavailable, RefuseBusy, ResumeSession, RefuseNoItems,
         RefuseNoRate, CreateSession, SaveSession, FailNoFeeRate,
         CreateSessionFails, CrashCheckout, checkoutVars
    <3> QED
      BY <3>1, <3>2
  <2> QED
    BY <2>1, <2>2, <2>3
<1>2. ASSUME NEW p \in Payments, AgePending(p), UNCHANGED checkoutVars
      PROVE SingleInv'
  <2>1. Pending' = Pending /\ Existing' = Existing
    BY <1>2 DEF AgePending, Pending, Existing
  <2> QED
    BY <1>2, <2>1 DEF checkoutVars
<1>3. CASE UNCHANGED <<row, checkoutVars>>
  BY <1>3 DEF checkoutVars, Pending, Existing
<1>4. CASE StripeStep /\ UNCHANGED checkoutVars
  <2>1. UNCHANGED row
    BY <1>4 DEF StripeStep, Pay, Decline, ExpireSession, FailTransfer,
       RefundExternally, OpenDispute, WinDispute, LoseDispute, OnlyStripe, rowVars
  <2> QED
    BY <1>3, <1>4, <2>1
<1> QED
  BY <1>1, <1>2, <1>3, <1>4, OtherSteps

\* A payment counts as completed only once its own charge was captured, as
\* long as no dispute is opened about the package's payments.
THEOREM CompletedNeedsCapture ==
  ASSUME "dispute" \notin Env
  PROVE  Spec => []CompletedIsCaptured
<1> DEFINE Inv == TypeInv /\ ClaimInv /\ CaptureInv /\ NoDispute /\ CompletedInv
<1>1. Init => Inv
  <2> SUFFICES ASSUME Init
               PROVE  ClaimInv /\ CaptureInv /\ NoDispute /\ CompletedInv
    BY InitTyped
  <2> QED
    BY InitClaims DEF Init, NoDispute, CompletedInv
<1>2. Inv /\ [Next]_vars => Inv'
  BY TypeStep, ClaimStep, CaptureStep, NoDisputeStep, CompletedStep
<1>3. Inv => CompletedIsCaptured
  BY DEF CaptureInv, CompletedInv, CompletedIsCaptured
<1> QED
  BY <1>1, <1>2, <1>3, PTL DEF Spec

\* create_package_checkout: at most one attempt is being prepared, and it is
\* the newest, for any number of concurrent requests, failures and crashes.
THEOREM ClaimsAreExclusive ==
  ASSUME "dispute" \notin Env
  PROVE  Spec => []OneClaim
<1> DEFINE Inv == /\ TypeInv /\ LockInv /\ ClaimInv /\ CaptureInv /\ NoDispute
                  /\ CompletedInv /\ SingleInv
<1>1. Init => Inv
  <2> SUFFICES ASSUME Init
               PROVE  /\ LockInv /\ ClaimInv /\ CaptureInv /\ NoDispute
                      /\ CompletedInv /\ SingleInv
    BY InitTyped
  <2>1. LockInv
    BY NoOneOK DEF Init, LockInv, Holding
  <2> QED
    BY <2>1, InitClaims DEF Init, NoDispute, CompletedInv, SingleInv, OneClaim,
       Pending
<1>2. Inv /\ [Next]_vars => Inv'
  BY TypeStep, LockStep, ClaimStep, CaptureStep, NoDisputeStep, CompletedStep,
     SingleStep
<1>3. Inv => OneClaim
  BY DEF SingleInv
<1> QED
  BY <1>1, <1>2, <1>3, PTL DEF Spec

-----------------------------------------------------------------------------
(* What each kind of step leaves alone, and what a worker has in hand.     *)

Busy(w) == work[w].pc # "idle"

LEMMA CheckoutFrame ==
  ASSUME NEW c \in Checkouts, CheckoutStep(c)
  PROVE  /\ UNCHANGED <<completed, intent, processed, charge, dispute, refundKeys,
                        raised, work, deleted, deleting>>
         /\ status' = status \/ (status = "queued" /\ status' = "open")
BY DEF CheckoutStep, CheckoutProgress, BeginCheckout, Activate, LockForPayment,
   RefuseUnavailable, RefuseBusy, ResumeSession, ClaimPayment, RefuseNoItems,
   RefuseNoRate, CreateSession, SaveSession, FailNoFeeRate, CreateSessionFails,
   CrashCheckout, rowVars, stripeVars, packageVars

LEMMA StripeFrame ==
  ASSUME StripeStep
  PROVE  UNCHANGED <<packageVars, rowVars, processed, checkoutVars, work, url>>
BY DEF StripeStep, Pay, Decline, ExpireSession, FailTransfer, RefundExternally,
   OpenDispute, WinDispute, LoseDispute, OnlyStripe

LEMMA QuietFrame ==
  ASSUME \/ \E p \in Payments : AgePending(p)
         \/ RevokeForDelete \/ SaveDeleted \/ UNCHANGED vars
  PROVE  /\ UNCHANGED <<completed, intent, processed, stripeVars, checkoutVars, work,
                        status>>
         /\ deleted => deleted'
BY DEF AgePending, RevokeForDelete, SaveDeleted, vars, rowVars, packageVars

\* A worker loads an event Stripe raised, or a sync, of a row; only a reversal
\* links, and then to a row without a PaymentIntent.
LEMMA LoadSays ==
  ASSUME TypeInv, NEW w \in Workers, LoadStep(w)
  PROVE  \/ UNCHANGED work
         \/ \E j \in Jobs, p \in Payments, l \in BOOLEAN :
              /\ Load(w, j, p, l)
              /\ j.type # "sync" => j \in raised
              /\ j.type = "sync" => Env \cap {"page_sync", "reconcile"} # {}
              /\ j.type \in {"sync", "session_completed"} => j.pay = p /\ ~l
              /\ l => intent[p] = NoPay
              /\ j.type \in Reversals /\ ~l => intent[p] = j.pay
<1>1. ASSUME NEW p \in Payments
      PROVE  /\ Event("sync", p) \in Jobs /\ Event("sync", p).type = "sync"
             /\ Event("sync", p).pay = p
             /\ Event("session_completed", p) \in Jobs
             /\ Event("session_completed", p).type = "session_completed"
             /\ Event("session_completed", p).pay = p
             /\ {"sync", "session_completed"} \cap Reversals = {}
  BY DEF Event, Jobs, JobTypes, Reversals
<1>2. CASE \E p \in Payments : LoadSettlement(w, p)
  <2>1. PICK p \in Payments : /\ Event("session_completed", p) \in raised
                              /\ Load(w, Event("session_completed", p), p, FALSE)
    BY <1>2 DEF LoadSettlement, Deliverable
  <2> QED
    BY <1>1, <2>1
<1>3. CASE (\E p \in Payments : LoadPageSync(w, p)) \/ LoadReconcile(w)
  <2>1. PICK p \in Payments : /\ Env \cap {"page_sync", "reconcile"} # {}
                              /\ Load(w, Event("sync", p), p, FALSE)
    BY <1>3 DEF LoadPageSync, LoadReconcile
  <2> QED
    BY <1>1, <2>1
<1>4. CASE \E e \in Deliverable : LoadReversal(w, e)
  <2>1. PICK e \in Deliverable, r \in Payments, l \in BOOLEAN :
          /\ e.type \in Reversals /\ ResolvesTo(e.pay, r, l) /\ Load(w, e, r, l)
    BY <1>4 DEF LoadReversal
  <2>2. e \in Jobs /\ e \in raised
    BY DEF Deliverable, TypeInv, TypeOK
  <2>3. e.type \notin {"sync", "session_completed"}
    BY <2>1 DEF Reversals
  <2>4. l => intent[r] = NoPay
    BY <2>1 DEF ResolvesTo, IsNewest, WithIntent, NoPay, Payments
  <2>5. ~l => intent[r] = e.pay
    BY <2>1 DEF ResolvesTo, IsOldest, WithIntent
  <2> QED
    BY <2>1, <2>2, <2>3, <2>4, <2>5
<1>5. CASE \E e \in Deliverable : IgnoreUnroutable(w, e)
  BY <1>5 DEF IgnoreUnroutable
<1> QED
  BY <1>2, <1>3, <1>4, <1>5 DEF LoadStep

\* A load copies the payment and the package as they are.
LEMMA Loaded ==
  ASSUME TypeInv, NEW w \in Workers, NEW j, NEW p, NEW l, Load(w, j, p, l)
  PROVE  /\ \A v \in Workers \ {w} : work'[v] = work[v]
         /\ work'[w].pc = "loaded" /\ work'[w].job = j /\ work'[w].pay = p
         /\ work'[w].link = l
         /\ work'[w].seen.status = status /\ work'[w].seen.deleted = deleted
         /\ work'[w].seen.completed = completed[p]
         /\ work'[w].seen.intent = intent[p]
BY DEF Load, TypeInv, TypeOK

LEMMA LoadFrame ==
  ASSUME NEW w \in Workers, LoadStep(w)
  PROVE  /\ UNCHANGED <<packageVars, rowVars, stripeVars, checkoutVars>>
         /\ UNCHANGED work \/ ~Busy(w)
BY DEF LoadStep, LoadSettlement, LoadPageSync, LoadReversal, IgnoreUnroutable,
   LoadReconcile, Load, Busy, Idle

\* A worker that applies a job lets it go, but for a sync between its two
\* transactions.
LEMMA Applied ==
  ASSUME TypeInv, NEW w \in Workers, ApplyStep(w) \/ CrashWorker(w)
  PROVE  /\ Busy(w) /\ \A v \in Workers \ {w} : work'[v] = work[v]
         /\ \/ work'[w].pc = "idle"
            \/ /\ SettleFromSync(w) /\ work'[w].pc = "settling"
               /\ work'[w].pay = work[w].pay /\ work'[w].job = work[w].job
               /\ work'[w].link = work[w].link /\ work'[w].seen = work[w].seen
<1>1. Busy(w)
  BY DEF ApplyStep, CrashWorker, RefuseSettlement, SettleFromWebhook, SettleFromSync,
     FinishSync, DropUnpaidSync, RevertFailure, RevertReturned, RestorePaid,
     FreezeDisputed, Rollback, Settles, Stored, Busy
<1>2. CASE SettleFromSync(w)
  <2>1. work' = [work EXCEPT ![w] = [work[w] EXCEPT !.pc = "settling"]]
    BY <1>2 DEF SettleFromSync
  <2>2. work[w] \in BusyWork
    BY <1>1, BusyTyped DEF TypeInv, Busy
  <2> QED
    BY <1>1, <1>2, <2>1, <2>2 DEF TypeInv, TypeOK, BusyWork
<1>3. CASE ~SettleFromSync(w)
  <2>1. Release(w)
    BY <1>3 DEF ApplyStep, CrashWorker, RefuseSettlement, SettleFromWebhook,
       FinishSync, DropUnpaidSync, RevertFailure, RevertReturned, RestorePaid,
       FreezeDisputed, Rollback, Finish, CommitMarker
  <2> QED
    BY <1>1, <2>1 DEF Release, Idle, TypeInv, TypeOK
<1> QED
  BY <1>2, <1>3

-----------------------------------------------------------------------------
(* CompletedOwnsIntent.                                                    *)

\* Only a reversal links an intent, and to a payment that was not completed
\* when it was read, which it then fails.
IntentInv ==
  /\ \A p \in Payments : completed[p] => intent[p] = p
  /\ \A w \in Workers : Busy(w) /\ work[w].link => ~work[w].seen.completed

LEMMA IntentStep ==
  ASSUME TypeInv, CaptureInv, NoDispute, IntentInv, [Next]_vars
  PROVE  IntentInv'
<1> USE DEF IntentInv
<1>1. CASE \E c \in Checkouts : CheckoutStep(c)
  BY <1>1, CheckoutFrame DEF Busy
<1>2. CASE \/ \E p \in Payments : AgePending(p)
           \/ RevokeForDelete \/ SaveDeleted \/ UNCHANGED vars
  BY <1>2, QuietFrame DEF Busy
<1>3. CASE StripeStep
  BY <1>3, StripeFrame DEF Busy, rowVars
<1>4. ASSUME NEW w \in Workers, LoadStep(w) PROVE IntentInv'
  <2>1. UNCHANGED <<completed, intent>>
    BY <1>4, LoadFrame DEF rowVars
  <2>2. CASE UNCHANGED work
    BY <2>1, <2>2 DEF Busy
  <2>3. ASSUME NEW j \in Jobs, NEW p \in Payments, NEW l \in BOOLEAN,
               Load(w, j, p, l), l => intent[p] = NoPay
        PROVE  IntentInv'
    <3>1. l => ~completed[p]
      BY <2>3 DEF NoPay, Payments
    <3> QED
      BY <2>1, <2>3, <3>1, Loaded DEF Busy
  <2> QED
    BY <1>4, <2>2, <2>3, LoadSays
<1>5. ASSUME NEW w \in Workers, ApplyStep(w) \/ CrashWorker(w) PROVE IntentInv'
  <2>1. /\ Busy(w) /\ work[w] \in BusyWork /\ work[w].pay \in Payments
        /\ work[w].job.type # "sync" => work[w].job \in raised
    BY <1>5, Applied, BusyTyped DEF TypeInv, CaptureInv, Busy
  <2>2. \A v \in Workers : Busy(v)' /\ work'[v].link => ~work'[v].seen.completed
    BY <1>5, Applied DEF Busy
  <2>3. ASSUME NEW p \in Payments, completed'[p] PROVE intent'[p] = p
    <3>1. CASE SettleFromWebhook(w) \/ SettleFromSync(w)
      BY <2>1, <2>3, <3>1
      DEF SettleFromWebhook, SettleFromSync, CompletePayment, TypeInv, TypeOK
    <3>2. CASE RefuseSettlement(w) \/ FinishSync(w) \/ DropUnpaidSync(w)
               \/ Rollback(w) \/ CrashWorker(w)
      BY <2>1, <2>3, <3>2 DEF RefuseSettlement, FinishSync, DropUnpaidSync, Rollback,
         CrashWorker, rowVars, TypeInv, TypeOK
    <3>3. CASE RevertFailure(w) \/ RevertReturned(w)
      <4>1. /\ intent' = LinkedIntent(w)
            /\ \/ completed' = [completed EXCEPT ![work[w].pay] = FALSE]
               \/ completed' = completed /\ work[w].seen.completed
        BY <3>3 DEF RevertFailure, RevertReturned, FailAndReopen
      <4>2. completed[p] /\ (p = work[w].pay => work[w].seen.completed)
        BY <2>1, <2>3, <4>1 DEF TypeInv, TypeOK
      <4>3. intent'[p] = intent[p]
        BY <2>1, <4>1, <4>2 DEF LinkedIntent, TypeInv, TypeOK
      <4> QED
        BY <4>2, <4>3
    <3>4. CASE RestorePaid(w) \/ FreezeDisputed(w)
      <4>1. work[w].job.type \in {"dispute_won", "dispute_created"}
        BY <3>4 DEF RestorePaid, FreezeDisputed, Stored
      <4> QED
        BY <2>1, <4>1 DEF NoDispute
    <3> QED
      BY <1>5, <3>1, <3>2, <3>3, <3>4 DEF ApplyStep
  <2> QED
    BY <2>2, <2>3
<1> QED
  BY <1>1, <1>2, <1>3, <1>4, <1>5 DEF Next

\* apply_paid_session and _link_intent: a completed payment carries its own
\* PaymentIntent, whatever reversals are routed by PaymentIntent meanwhile, and
\* Stripe knows each as captured, so the daily reconciliation reports none.
THEOREM CompletedHasIntent ==
  ASSUME "dispute" \notin Env
  PROVE  Spec => []CompletedOwnsIntent
<1> DEFINE Inv == /\ TypeInv /\ ClaimInv /\ CaptureInv /\ NoDispute /\ CompletedInv
                  /\ IntentInv
<1>1. Init => Inv
  <2> SUFFICES ASSUME Init
               PROVE  ClaimInv /\ CaptureInv /\ NoDispute /\ CompletedInv /\ IntentInv
    BY InitTyped
  <2> QED
    BY InitClaims DEF Init, NoDispute, CompletedInv, IntentInv, Busy, Idle
<1>2. Inv /\ [Next]_vars => Inv'
  BY TypeStep, ClaimStep, CaptureStep, NoDisputeStep, CompletedStep, IntentStep
<1>3. Inv => CompletedOwnsIntent
  BY DEF CaptureInv, CompletedInv, IntentInv, CompletedOwnsIntent, UnsucceededIntents
<1> QED
  BY <1>1, <1>2, <1>3, PTL DEF Spec

-----------------------------------------------------------------------------
(* PaidIsBacked.                                                           *)

\* A settlement that was loaded as a duplicate of the one that settled the
\* package.
Refuses(w) ==
  Busy(w) /\ work[w].seen.status = "paid" /\ ~work[w].seen.completed

\* As long as the package exists nothing is reverted; once it is paid, some
\* completed payment is nobody's duplicate.
BackedInv ==
  /\ \A w \in Workers : Busy(w) /\ work[w].seen.deleted => deleted
  /\ deleted \/ \A e \in raised : e.type = "session_completed"
  /\ ~deleted /\ status # "paid" =>
       \A w \in Workers : Busy(w) =>
         /\ work[w].seen.status # "paid"
         /\ work[w].pc = "settling" => completed[work[w].pay]
  /\ ~deleted /\ status = "paid" =>
       \E p \in Payments : /\ completed[p]
                           /\ \A w \in Workers : Refuses(w) => work[w].pay # p

\* Whether a dispute, a refund, a failed transfer or a declined card may happen.
MoneyFlowsBack == Env \cap {"refund", "transfer_failure", "dispute", "decline"} # {}

\* What workers have in hand while the package exists.
LEMMA OnlySettlements ==
  ASSUME TypeInv, CaptureInv, BackedInv, ~deleted, NEW w \in Workers, Busy(w)
  PROVE  /\ work[w].job.type \in {"session_completed", "sync"}
         /\ ~RefundFirst(w) /\ ~work[w].seen.deleted
<1>1. /\ work[w].job.type \in {"session_completed", "sync"}
      /\ ~work[w].seen.deleted
  BY DEF CaptureInv, BackedInv, Busy
<1>2. ~RefundFirst(w)
  BY <1>1 DEF RefundFirst, SettlementRefused, Stored
<1> QED
  BY <1>1, <1>2

LEMMA BackedApply ==
  ASSUME TypeInv, CaptureInv, BackedInv,
         NEW w \in Workers, ApplyStep(w) \/ CrashWorker(w)
  PROVE  BackedInv'
<1>1. /\ Busy(w) /\ work[w] \in BusyWork /\ work[w].pay \in Payments
      /\ \A v \in Workers : Busy(v)' => /\ Busy(v) /\ work'[v].seen = work[v].seen
                                       /\ work'[v].pay = work[v].pay
      /\ \A v \in Workers \ {w} : work'[v] = work[v]
  BY Applied, BusyTyped DEF TypeInv, Busy
<1>2. UNCHANGED deleted
  BY WorkerFrame
<1>3. \A v \in Workers : Busy(v)' /\ work'[v].seen.deleted => deleted'
  BY <1>1, <1>2 DEF BackedInv
<1>4. CASE deleted
  BY <1>2, <1>3, <1>4 DEF BackedInv
<1>5. CASE ~deleted
  <2>1. /\ work[w].job.type \in {"session_completed", "sync"}
        /\ ~RefundFirst(w) /\ ~work[w].seen.deleted
    BY <1>1, <1>5, OnlySettlements
  <2>2. \A v \in Workers : Refuses(v)' => Refuses(v) /\ work'[v].pay = work[v].pay
    BY <1>1 DEF Refuses
  <2>3. CASE RefuseSettlement(w)
    <3>1. /\ raised' = raised /\ status' = status /\ Refuses(w)
          /\ completed' = [completed EXCEPT ![work[w].pay] = FALSE]
      BY <1>1, <2>1, <2>3
      DEF RefuseSettlement, SettlementRefused, Refuses, stripeVars, packageVars
    <3>2. status = "paid"
      BY <1>1, <1>5, <3>1 DEF BackedInv, Refuses
    <3>3. PICK p \in Payments : /\ completed[p]
                                /\ \A v \in Workers : Refuses(v) => work[v].pay # p
      BY <1>5, <3>2 DEF BackedInv
    <3>4. completed'[p] /\ \A v \in Workers : Refuses(v)' => work'[v].pay # p
      BY <1>1, <2>2, <3>1, <3>3 DEF TypeInv, TypeOK
    <3> QED
      BY <1>2, <1>3, <1>5, <3>1, <3>2, <3>4 DEF BackedInv
  <2>4. CASE SettleFromWebhook(w) \/ SettleFromSync(w)
    <3>1. /\ raised' = raised
          /\ completed' = [completed EXCEPT ![work[w].pay] = TRUE]
          /\ status' = status \/ status' = "paid"
      BY <2>4 DEF SettleFromWebhook, SettleFromSync, CompletePayment, MarkAsPaid,
         stripeVars
    <3>2. completed'[work[w].pay] /\ \A p \in Payments : completed[p] => completed'[p]
      BY <1>1, <3>1 DEF TypeInv, TypeOK
    <3>3. \A v \in Workers : Busy(v)' /\ work'[v].pc = "settling" /\ v # w
            => work[v].pc = "settling"
      BY <1>1
    <3>4. CASE status = "paid"
      <4>1. status' = "paid"
        BY <3>1, <3>4
      <4> QED
        BY <1>2, <1>3, <1>5, <2>2, <3>1, <3>2, <3>4, <4>1 DEF BackedInv
    <3>5. CASE status # "paid"
      <4>1. \A v \in Workers : ~Refuses(v)'
        BY <1>5, <2>2, <3>5 DEF BackedInv, Refuses
      <4>2. CASE status' = "paid"
        BY <1>1, <1>3, <1>5, <1>2, <3>1, <3>2, <4>1, <4>2 DEF BackedInv
      <4>3. CASE status' # "paid"
        <5>1. ASSUME NEW v \in Workers, Busy(v)'
              PROVE  /\ work'[v].seen.status # "paid"
                     /\ work'[v].pc = "settling" => completed'[work'[v].pay]
          <6>1. work'[v].seen.status # "paid"
            BY <1>1, <1>5, <3>5, <5>1 DEF BackedInv
          <6>2. CASE v = w
            BY <1>1, <3>2, <5>1, <6>1, <6>2
          <6>3. CASE v # w /\ work'[v].pc = "settling"
            <7>1. Busy(v) /\ work[v].pc = "settling" /\ work'[v].pay = work[v].pay
              BY <1>1, <3>3, <5>1, <6>3
            <7>2. completed[work[v].pay] /\ work[v].pay \in Payments
              BY <1>5, <3>5, <7>1, BusyTyped DEF BackedInv, TypeInv, Busy
            <7> QED
              BY <3>2, <6>1, <7>1, <7>2
          <6> QED
            BY <6>1, <6>2, <6>3
        <5> QED
          BY <1>2, <1>3, <1>5, <3>1, <4>3, <5>1 DEF BackedInv
      <4> QED
        BY <4>2, <4>3
    <3> QED
      BY <3>4, <3>5
  <2>5. CASE FinishSync(w)
    <3>1. /\ raised' = raised /\ completed' = completed
          /\ status' = status \/ status' = "paid"
          /\ work[w].pc = "settling" /\ work'[w].pc = "idle"
      BY <2>5, Applied DEF FinishSync, MarkAsPaid, stripeVars, rowVars, SettleFromSync
    <3>2. CASE status = "paid"
      <4>1. status' = "paid"
        BY <3>1, <3>2
      <4> QED
        BY <1>2, <1>3, <1>5, <2>2, <3>1, <3>2, <4>1 DEF BackedInv
    <3>3. CASE status # "paid" /\ status' = "paid"
      <4>1. completed[work[w].pay] /\ \A v \in Workers : ~Refuses(v)'
        BY <1>1, <1>5, <2>2, <3>1, <3>3 DEF BackedInv, Refuses
      <4> QED
        BY <1>1, <1>2, <1>3, <1>5, <3>1, <3>3, <4>1 DEF BackedInv
    <3>4. CASE status # "paid" /\ status' = status
      <4>1. ASSUME NEW v \in Workers, Busy(v)'
            PROVE  v # w /\ Busy(v) /\ work'[v] = work[v]
        BY <1>1, <3>1, <4>1 DEF Busy
      <4> QED
        BY <1>2, <1>3, <1>5, <3>1, <3>4, <4>1 DEF BackedInv
    <3> QED
      BY <3>1, <3>2, <3>3, <3>4
  <2>6. CASE DropUnpaidSync(w) \/ Rollback(w) \/ CrashWorker(w)
    <3>1. /\ raised' = raised /\ completed' = completed /\ status' = status
          /\ work'[w].pc = "idle"
      BY <2>1, <2>6, Applied DEF DropUnpaidSync, Rollback, CrashWorker, packageVars,
         rowVars, stripeVars, Release, Idle, TypeInv, TypeOK
    <3>2. ASSUME NEW v \in Workers, Busy(v)'
          PROVE  v # w /\ Busy(v) /\ work'[v] = work[v]
      BY <1>1, <3>1, <3>2 DEF Busy
    <3> QED
      BY <1>2, <1>3, <1>5, <2>2, <3>1, <3>2 DEF BackedInv
  <2>7. ~RevertFailure(w) /\ ~RevertReturned(w) /\ ~RestorePaid(w) /\ ~FreezeDisputed(w)
    BY <2>1 DEF RevertFailure, RevertReturned, RestorePaid, FreezeDisputed, Stored
  <2> QED
    BY <2>3, <2>4, <2>5, <2>6, <2>7 DEF ApplyStep
<1> QED
  BY <1>4, <1>5

LEMMA BackedStep ==
  ASSUME ~MoneyFlowsBack, TypeInv, CaptureInv, NoDispute, BackedInv, [Next]_vars
  PROVE  BackedInv'
<1>1. ASSUME NEW c \in Checkouts, CheckoutStep(c) PROVE BackedInv'
  <2>1. status = "paid" <=> status' = "paid"
    BY <1>1, CheckoutFrame
  <2> QED
    BY <1>1, <2>1, CheckoutFrame DEF BackedInv, Busy, Refuses
<1>2. CASE \/ \E p \in Payments : AgePending(p)
           \/ RevokeForDelete \/ SaveDeleted \/ UNCHANGED vars
  BY <1>2, QuietFrame DEF BackedInv, Busy, Refuses, stripeVars
<1>3. CASE StripeStep
  <2>1. raised' = raised
        \/ \E p \in Payments : raised' = raised \cup {Event("session_completed", p)}
    BY <1>3 DEF StripeStep, Pay, Decline, ExpireSession, FailTransfer,
       RefundExternally, OpenDispute, WinDispute, LoseDispute, Raise, NoDispute,
       MoneyFlowsBack
  <2>2. \A p : Event("session_completed", p).type = "session_completed"
    BY DEF Event
  <2> QED
    BY <1>3, <2>1, <2>2, StripeFrame DEF BackedInv, Busy, Refuses, packageVars, rowVars
<1>4. ASSUME NEW w \in Workers, LoadStep(w) PROVE BackedInv'
  <2>1. UNCHANGED <<deleted, status, completed, raised>>
    BY <1>4, LoadFrame DEF packageVars, rowVars, stripeVars
  <2>2. CASE UNCHANGED work
    BY <2>1, <2>2 DEF BackedInv, Busy, Refuses
  <2>3. ASSUME NEW j \in Jobs, NEW q \in Payments, NEW l \in BOOLEAN, Load(w, j, q, l)
        PROVE  BackedInv'
    <3>1. /\ \A v \in Workers \ {w} : work'[v] = work[v]
          /\ work'[w].pc = "loaded" /\ work'[w].pay = q
          /\ work'[w].seen.status = status /\ work'[w].seen.deleted = deleted
          /\ work'[w].seen.completed = completed[q]
      BY <2>3, Loaded
    <3>2. \A p \in Payments :
            /\ completed[p] /\ \A v \in Workers : Refuses(v) => work[v].pay # p
            => \A v \in Workers : Refuses(v)' => work'[v].pay # p
      BY <2>1, <3>1 DEF Refuses, Busy
    <3> QED
      BY <2>1, <3>1, <3>2 DEF BackedInv, Busy
  <2> QED
    BY <1>4, <2>2, <2>3, LoadSays
<1> QED
  BY <1>1, <1>2, <1>3, <1>4, BackedApply DEF Next

\* reconciliation.py, _check_paid_packages_have_completed_payment: however
\* settlements, syncs, duplicates, crashes and a deletion interleave, a paid
\* package has a completed payment, as long as Stripe sends no reversal.
THEOREM PaidPackageIsBacked ==
  ASSUME ~MoneyFlowsBack
  PROVE  Spec => []PaidIsBacked
<1> DEFINE Inv == TypeInv /\ ClaimInv /\ CaptureInv /\ NoDispute /\ BackedInv
<1>1. Init => Inv
  <2> SUFFICES ASSUME Init
               PROVE  ClaimInv /\ CaptureInv /\ NoDispute /\ BackedInv
    BY InitTyped
  <2> QED
    BY InitClaims DEF Init, NoDispute, BackedInv, Busy, Idle
<1>2. Inv /\ [Next]_vars => Inv'
  BY TypeStep, ClaimStep, CaptureStep, NoDisputeStep, BackedStep DEF MoneyFlowsBack
<1>3. Inv => PaidIsBacked
  BY DEF BackedInv, PaidIsBacked, UnbackedPackage
<1> QED
  BY <1>1, <1>2, <1>3, PTL DEF Spec

-----------------------------------------------------------------------------
(* RefundIsFinal.                                                          *)

\* Without a sync or a dispute only the delivery of a payment's own completion
\* settles it.
DeliveryInv ==
  \A w \in Workers : Busy(w) =>
    /\ work[w].job.type # "sync"
    /\ work[w].job.type = "session_completed" => work[w].job.pay = work[w].pay

NoSync == Env \cap {"page_sync", "reconcile"} = {}

LEMMA DeliveryStep ==
  ASSUME NoSync, TypeInv, DeliveryInv, [Next]_vars
  PROVE  DeliveryInv'
<1>1. ASSUME UNCHANGED work PROVE DeliveryInv'
  BY <1>1 DEF DeliveryInv, Busy
<1>2. ASSUME NEW w \in Workers, LoadStep(w) PROVE DeliveryInv'
  <2>1. ASSUME NEW j \in Jobs, NEW p \in Payments, NEW l \in BOOLEAN, Load(w, j, p, l),
               j.type # "sync", j.type = "session_completed" => j.pay = p
        PROVE  DeliveryInv'
    BY <2>1, Loaded DEF DeliveryInv, Busy
  <2> QED
    BY <1>1, <1>2, <2>1, LoadSays DEF NoSync
<1>3. ASSUME NEW w \in Workers, ApplyStep(w) \/ CrashWorker(w) PROVE DeliveryInv'
  BY <1>3, Applied DEF DeliveryInv, Busy
<1> QED
  BY <1>1, <1>2, <1>3, CheckoutFrame, StripeFrame, QuietFrame DEF Next

\* A completion that was processed is never processed again, so that it cannot
\* complete its payment once more.
LEMMA CompletesOnce ==
  ASSUME TypeInv, CaptureInv, NoDispute, DeliveryInv, [Next]_vars,
         NEW p \in Payments, ~completed[p], completed'[p]
  PROVE  Event("session_completed", p) \notin processed
<1>1. ASSUME completed' = completed PROVE FALSE
  BY <1>1
<1>2. PICK w \in Workers : ApplyStep(w) \/ CrashWorker(w)
  BY <1>1, CheckoutFrame, StripeFrame, QuietFrame, LoadFrame DEF Next, rowVars
<1>3. /\ Busy(w) /\ work[w] \in BusyWork /\ work[w].job.type # "sync"
      /\ work[w].job \in raised
  BY <1>2, Applied, BusyTyped DEF TypeInv, CaptureInv, DeliveryInv, Busy
<1>4. ~SettleFromSync(w) /\ ~RestorePaid(w)
  BY <1>3 DEF SettleFromSync, RestorePaid, Stored, NoDispute
<1>5. CASE RefuseSettlement(w) \/ RevertFailure(w) \/ RevertReturned(w)
  <2>1. completed' = completed \/ completed' = [completed EXCEPT ![work[w].pay] = FALSE]
    BY <1>5 DEF RefuseSettlement, RevertFailure, RevertReturned, FailAndReopen
  <2> QED
    BY <1>3, <2>1 DEF TypeInv, TypeOK
<1>6. CASE FinishSync(w) \/ DropUnpaidSync(w) \/ FreezeDisputed(w) \/ Rollback(w)
           \/ CrashWorker(w)
  BY <1>1, <1>6 DEF FinishSync, DropUnpaidSync, FreezeDisputed, Rollback, CrashWorker,
     rowVars
<1>7. CASE SettleFromWebhook(w)
  <2>1. /\ work[w].job.type = "session_completed" /\ work[w].job \notin processed
        /\ completed' = [completed EXCEPT ![work[w].pay] = TRUE]
    BY <1>7 DEF SettleFromWebhook, CompletePayment, CommitMarker
  <2>2. work[w].pay = p
    BY <2>1 DEF TypeInv, TypeOK
  <2>3. work[w].job \in Jobs /\ work[w].job.pay = p
    BY <1>3, <2>1, <2>2 DEF BusyWork, DeliveryInv
  <2>4. work[w].job = Event("session_completed", p)
    BY <2>1, <2>3 DEF Jobs, Event
  <2> QED
    BY <2>1, <2>4
<1> QED
  BY <1>2, <1>4, <1>5, <1>6, <1>7 DEF ApplyStep

\* webhooks.py, ProcessedStripeEvent: the refund of a payment is final, for any
\* number of redeliveries, workers and crashes: once its completion has been
\* processed, no late copy of it completes the payment again.
THEOREM RefundsAreFinal ==
  ASSUME NoSync, "dispute" \notin Env
  PROVE  Spec => RefundIsFinal
<1> DEFINE Inv == TypeInv /\ ClaimInv /\ CaptureInv /\ NoDispute /\ DeliveryInv
<1> DEFINE Final ==
      \A p \in Payments :
        /\ {Event("session_completed", p), Event("charge_refunded", p)} \subseteq processed
        /\ ~completed[p]
        => ~completed'[p]
<1>1. Init => Inv
  <2> SUFFICES ASSUME Init
               PROVE  ClaimInv /\ CaptureInv /\ NoDispute /\ DeliveryInv
    BY InitTyped
  <2> QED
    BY InitClaims DEF Init, NoDispute, DeliveryInv, Busy, Idle
<1>2. Inv /\ [Next]_vars => Inv'
  BY TypeStep, ClaimStep, CaptureStep, NoDisputeStep, DeliveryStep
<1>3. Inv /\ [Next]_vars => [Final]_vars
  BY CompletesOnce
<1> QED
  BY <1>1, <1>2, <1>3, PTL DEF Spec, RefundIsFinal

-----------------------------------------------------------------------------
(* KeepsOffers.                                                            *)

Offered(p) == p \in url /\ session[p] = "open"

\* An open offer is the newest attempt, and nobody prepares another.
OfferInv ==
  /\ ~deleted /\ ~deleting
  /\ \A p \in Payments : row[p] = "live" => p \in url
  /\ \A p \in Payments, q \in Existing : Offered(p) => q <= p
  /\ \A c \in Checkouts : HasClaim(c) \/ cpc[c] \in {"claiming", "reclaiming"} =>
       \A p \in Payments : ~Offered(p)

\* An open offer is of an incomplete live row, which is then the one that a
\* request finds under the lock.
LEMMA OfferedIsNewest ==
  ASSUME RoutableInv, CompletedInv, OfferInv, NEW p \in Payments, Offered(p)
  PROVE  p \in Incomplete /\ IsNewest(p, Incomplete) /\ CanResume(p)
<1>1. row[p] = "live" /\ session[p] = "open"
  BY DEF Offered, RoutableInv, RoutableSessions
<1>2. ~completed[p]
  BY <1>1 DEF CompletedInv
<1>3. p \in Incomplete
  BY <1>1, <1>2 DEF Incomplete, Existing
<1>4. \A q \in Incomplete : q <= p
  BY DEF OfferInv, Incomplete
<1> QED
  BY <1>1, <1>3, <1>4 DEF IsNewest, CanResume

\* Nothing is offered when a request goes ahead with a claim of its own.
LEMMA NothingOffered ==
  ASSUME "lookup_failure" \notin Env, RoutableInv, CompletedInv, OfferInv,
         NEW c \in Checkouts, NotResumed(c)
  PROVE  \A p \in Payments : ~Offered(p)
<1>1. CASE cpc[c] \in {"claiming", "reclaiming"}
  BY <1>1 DEF OfferInv
<1>2. CASE cpc[c] = "resuming"
  BY <1>2, OfferedIsNewest DEF NotResumed
<1> QED
  BY <1>1, <1>2 DEF NotResumed

\* What a save of the session writes.
LEMMA Saved ==
  ASSUME TypeInv, ClaimInv, RoutableInv, NEW c \in Checkouts, SaveSession(c)
  PROVE  /\ HasClaim(c) /\ cpay[c] \in Payments
         /\ row[cpay[c]] = "fresh" /\ cpay[c] \notin url
         /\ row' = [row EXCEPT ![cpay[c]] = "live"]
         /\ url' = url \cup {cpay[c]} /\ session' = session
         /\ cpc' = [cpc EXCEPT ![c] = "idle"]
<1>1. HasClaim(c) /\ cpay[c] \in Payments
  BY DEF SaveSession, HasClaim, TypeInv, ClaimNamed
<1>2. row[cpay[c]] = "fresh" /\ cpay[c] \notin url
  BY <1>1 DEF RoutableInv, ClaimInv
<1> QED
  BY <1>1, <1>2 DEF SaveSession, Respond, Goto

LEMMA OfferSaved ==
  ASSUME TypeInv, ClaimInv, SingleInv, RoutableInv, OfferInv,
         NEW c \in Checkouts, SaveSession(c)
  PROVE  OfferInv'
<1> DEFINE k == cpay[c]
<1>1. /\ HasClaim(c) /\ k \in Payments /\ row[k] = "fresh" /\ k \notin url
      /\ row' = [row EXCEPT ![k] = "live"] /\ url' = url \cup {k}
      /\ session' = session /\ cpc' = [cpc EXCEPT ![c] = "idle"]
  BY Saved
<1>2. UNCHANGED <<deleted, deleting>>
  BY DEF SaveSession, packageVars
<1>3. \A p \in Payments : ~Offered(p)
  BY <1>1 DEF OfferInv
<1>4. \A p \in Payments : Offered(p)' => p = k
  BY <1>1, <1>3 DEF Offered
<1>5. k \in Pending /\ \A q \in Existing : q <= k
  BY <1>1 DEF Pending, SingleInv, OneClaim
<1>6. Existing' \subseteq Existing
  BY <1>1 DEF Existing, TypeInv, TypeOK
<1>7. \A p \in Payments : row'[p] = "live" => p \in url'
  BY <1>1 DEF OfferInv, TypeInv, TypeOK
<1>8. ASSUME NEW d \in Checkouts, d # c
      PROVE  ~HasClaim(d) /\ cpc[d] \notin {"claiming", "reclaiming"}
  <2>1. cpc[d] # "claiming"
    BY <1>5 DEF SingleInv
  <2>2. cpc[d] # "reclaiming"
    BY <1>1, <1>5 DEF SingleInv, RoutableInv
  <2>3. ASSUME HasClaim(d) PROVE FALSE
    <3>1. cpay[d] \in Payments /\ row[cpay[d]] = "fresh"
      BY <2>3 DEF HasClaim, TypeInv, ClaimNamed, RoutableInv
    <3>2. cpay[d] \in Pending /\ cpay[d] \in Existing
      BY <3>1 DEF Pending, Existing
    <3>3. cpay[d] <= k /\ k <= cpay[d]
      BY <1>1, <1>5, <3>2 DEF SingleInv, OneClaim, Existing
    <3>4. cpay[d] = k
      BY <1>1, <3>1, <3>3 DEF Payments
    <3> QED
      BY <1>1, <1>8, <2>3, <3>4 DEF ClaimInv
  <2> QED
    BY <2>1, <2>2, <2>3
<1>9. \A d \in Checkouts : ~(HasClaim(d)' \/ cpc'[d] \in {"claiming", "reclaiming"})
  BY <1>1, <1>8 DEF HasClaim, TypeInv, TypeOK
<1> QED
  BY <1>2, <1>4, <1>5, <1>6, <1>7, <1>9 DEF OfferInv

LEMMA OfferCheckout ==
  ASSUME "lookup_failure" \notin Env, TypeInv, ClaimInv, SingleInv, RoutableInv,
         CompletedInv, OfferInv, NEW c \in Checkouts, CheckoutStep(c)
  PROVE  OfferInv'
<1>1. UNCHANGED <<deleted, deleting>>
  BY CheckoutFrame
<1>2. CASE SaveSession(c)
  BY <1>2, OfferSaved
<1>3. CASE ~SaveSession(c)
  <2>1. \A p \in Payments : Offered(p)' => Offered(p)
    <3>1. CASE CreateSession(c) \/ CreateSessionFails(c)
      <4>1. /\ \E s \in {"none", "open"} : session' = [session EXCEPT ![cpay[c]] = s]
            /\ url' = url /\ HasClaim(c)
        BY <3>1 DEF CreateSession, CreateSessionFails, HasClaim
      <4> QED
        BY <4>1 DEF Offered, ClaimInv, TypeInv, TypeOK
    <3>2. CASE ResumeSession(c)
      BY <3>2 DEF ResumeSession, CanResume, OfferInv, Offered
    <3>3. CASE ~CreateSession(c) /\ ~CreateSessionFails(c) /\ ~ResumeSession(c)
      <4>1. UNCHANGED <<session, url>>
        BY <1>3, <3>3 DEF CheckoutStep, CheckoutProgress, BeginCheckout, Activate,
           LockForPayment, RefuseUnavailable, RefuseBusy, ClaimPayment, RefuseNoItems,
           RefuseNoRate, FailNoFeeRate, CrashCheckout, stripeVars
      <4> QED
        BY <4>1 DEF Offered
    <3> QED
      BY <3>1, <3>2, <3>3
  <2>2. url \subseteq url'
    BY <1>3 DEF CheckoutStep, CheckoutProgress, BeginCheckout, Activate, ResumeSession,
       LockForPayment, RefuseUnavailable, RefuseBusy, ClaimPayment, RefuseNoItems,
       CreateSession, CreateSessionFails, RefuseNoRate, FailNoFeeRate, CrashCheckout,
       stripeVars
  <2>3. CASE ClaimPayment(c)
    <3>1. \A p \in Payments : ~Offered(p)'
      BY <2>1, <2>3, NothingOffered DEF ClaimPayment
    <3>2. PICK k \in Payments : row' = [Reclaimed(c) EXCEPT ![k] = "fresh"]
      BY <2>3 DEF ClaimPayment
    <3>3. \A p \in Payments : row'[p] = "live" => row[p] = "live"
      BY <3>2 DEF Reclaimed, TypeInv, TypeOK
    <3> QED
      BY <1>1, <2>2, <3>1, <3>3 DEF OfferInv
  <2>4. CASE ~ClaimPayment(c)
    <3>1. /\ \A p \in Payments : row'[p] = "live" => row[p] = "live"
          /\ Existing' \subseteq Existing
      <4>1. CASE RefuseNoItems(c) \/ CreateSessionFails(c)
        <5>1. \/ row' = row
              \/ row' = [row EXCEPT ![cpay[c]] = "gone"]
          BY <4>1 DEF RefuseNoItems, CreateSessionFails, Reclaimed
        <5> QED
          BY <5>1 DEF Existing, TypeInv, TypeOK
      <4>2. CASE ~RefuseNoItems(c) /\ ~CreateSessionFails(c)
        <5>1. row' = row
          BY <1>3, <2>4, <4>2 DEF CheckoutStep, CheckoutProgress, BeginCheckout,
             Activate, LockForPayment, RefuseUnavailable, RefuseBusy, ResumeSession,
             RefuseNoRate, CreateSession, FailNoFeeRate, CrashCheckout, rowVars
        <5> QED
          BY <5>1 DEF Existing
      <4> QED
        BY <4>1, <4>2
    <3>2. ASSUME NEW d \in Checkouts,
                 HasClaim(d)' \/ cpc'[d] \in {"claiming", "reclaiming"}
          PROVE  \A p \in Payments : ~Offered(p)
      <4>1. CASE LockForPayment(c) /\ d = c
        <5>1. PICK q \in Payments \cup {NoPay} :
                IsNewest(q, Incomplete) /\ cpc' = [cpc EXCEPT ![c] = PathFor(q)]
          BY <4>1 DEF LockForPayment, Goto
        <5>2. cpc'[c] = PathFor(q)
          BY <5>1 DEF TypeInv, TypeOK
        <5>3. q = NoPay \/ (q \in Payments /\ row[q] # "live")
          BY <3>2, <4>1, <5>1, <5>2 DEF PathFor, HasClaim
        <5>4. ASSUME NEW p \in Payments, Offered(p) PROVE FALSE
          <6>1. p \in Incomplete /\ (\A r \in Incomplete : r <= p) /\ row[p] = "live"
            BY <5>4, OfferedIsNewest DEF IsNewest, CanResume
          <6>2. q \in Incomplete /\ p <= q /\ q <= p
            BY <5>1, <6>1 DEF IsNewest
          <6>3. q \in Payments
            BY <6>2 DEF Incomplete, Existing
          <6>4. q = p /\ q # NoPay
            BY <6>2, <6>3 DEF Payments, NoPay
          <6> QED
            BY <5>3, <6>1, <6>4
        <5> QED
          BY <5>4
      <4>2. CASE ~(LockForPayment(c) /\ d = c)
        <5>1. HasClaim(d) \/ cpc[d] \in {"claiming", "reclaiming"}
          BY <1>3, <2>4, <3>2, <4>2
          DEF CheckoutStep, CheckoutProgress, BeginCheckout, Activate, LockForPayment,
             RefuseUnavailable, RefuseBusy, ResumeSession, RefuseNoItems, RefuseNoRate,
             CreateSession, CreateSessionFails, FailNoFeeRate, CrashCheckout, Goto,
             Respond, HasClaim, checkoutVars, TypeInv, TypeOK
        <5> QED
          BY <5>1 DEF OfferInv
      <4> QED
        BY <4>1, <4>2
    <3> QED
      BY <1>1, <2>1, <2>2, <3>1, <3>2 DEF OfferInv
  <2> QED
    BY <2>3, <2>4
<1> QED
  BY <1>2, <1>3

LEMMA OfferStep ==
  ASSUME Env \cap {"lookup_failure", "delete"} = {}, TypeInv, ClaimInv, SingleInv,
         RoutableInv, CompletedInv, OfferInv, [Next]_vars
  PROVE  OfferInv'
<1>1. CASE \E c \in Checkouts : CheckoutStep(c)
  BY <1>1, OfferCheckout
<1>2. ASSUME UNCHANGED <<deleted, deleting, url, checkoutVars>>,
             \A p \in Payments : session'[p] = "open" => session[p] = "open",
             \A p \in Payments : row'[p] = "live" => row[p] = "live",
             Existing' \subseteq Existing
      PROVE  OfferInv'
  BY <1>2 DEF OfferInv, Offered, HasClaim, checkoutVars
<1>3. CASE \E p \in Payments : AgePending(p)
  BY <1>2, <1>3 DEF AgePending, Existing, stripeVars, packageVars, TypeInv, TypeOK
<1>4. CASE StripeStep
  <2>1. \A p \in Payments : session'[p] = "open" => session[p] = "open"
    BY <1>4 DEF StripeStep, Pay, Decline, ExpireSession, FailTransfer, RefundExternally,
       OpenDispute, WinDispute, LoseDispute, TypeInv, TypeOK
  <2> QED
    BY <1>2, <1>4, <2>1, StripeFrame DEF packageVars, rowVars, Existing
<1>5. CASE RevokeForDelete \/ SaveDeleted
  BY <1>5 DEF RevokeForDelete, SaveDeleted, OfferInv
<1>6. CASE UNCHANGED vars
  BY <1>2, <1>6 DEF vars, packageVars, rowVars, stripeVars, Existing
<1>7. CASE \E w \in Workers : LoadStep(w) \/ ApplyStep(w) \/ CrashWorker(w)
  BY <1>2, <1>7, WorkerFrame DEF Existing
<1> QED
  BY <1>1, <1>3, <1>4, <1>5, <1>6, <1>7 DEF Next

\* The abstract variables, as the refinement maps them.
OfferMap == [p \in Payments |-> OfferOf(p)]
Recorded == {p \in Payments : completed[p]}
Settled == status = "paid"

LEMMA OfferValues ==
  ASSUME NEW p \in Payments
  PROVE  /\ OfferOf(p) = "open" <=> Offered(p)
         /\ OfferOf(p) = "taken" <=> p \in url /\ session[p] = "complete"
         /\ OfferOf(p) = "none" <=> p \notin url
         /\ OfferOf(p) \in {"none", "open", "taken", "lapsed"}
BY DEF OfferOf, Offered

\* A request answers with the URL of the one session on offer, or changes
\* nothing that payers see.
LEMMA RefineCheckout ==
  ASSUME TypeInv, ClaimInv, RoutableInv, OfferInv, NEW c \in Checkouts, CheckoutStep(c)
  PROVE  Offers!Next \/ UNCHANGED <<OfferMap, Recorded, Settled>>
<1>1. Recorded' = Recorded /\ Settled' = Settled
  BY CheckoutFrame DEF Recorded, Settled
<1>2. CASE SaveSession(c)
  <2> DEFINE k == cpay[c]
  <2>1. /\ HasClaim(c) /\ k \in Payments /\ k \notin url
        /\ url' = url \cup {k} /\ session' = session
    BY <1>2, Saved
  <2>2. OfferMap[k] = "none" /\ \A p \in Payments : OfferMap[p] # "open"
    BY <2>1, OfferValues DEF OfferMap, OfferInv
  <2>3. session[k] # "complete"
    BY <2>1 DEF ClaimInv
  <2>4. \E o \in {"open", "lapsed"} : OfferMap' = [OfferMap EXCEPT ![k] = o]
    <3> DEFINE o == IF session[k] = "open" THEN "open" ELSE "lapsed"
    <3>1. \A p \in Payments : OfferOf(p)' = IF p = k THEN o ELSE OfferOf(p)
      BY <2>1, <2>3 DEF OfferOf
    <3>2. OfferMap' = [OfferMap EXCEPT ![k] = o]
      BY <2>1, <3>1 DEF OfferMap
    <3> QED
      BY <3>2
  <2>5. Offers!MakeOffer(k)
    BY <1>1, <2>1, <2>2, <2>4
    DEF Offers!MakeOffer, Offers!NothingOpen, OfferMap, Recorded, Settled
  <2> QED
    BY <2>1, <2>5 DEF Offers!Next
<1>3. CASE ~SaveSession(c)
  <2>1. \A p \in Payments : OfferOf(p)' = OfferOf(p)
    <3>1. CASE CreateSession(c) \/ CreateSessionFails(c)
      <4>1. /\ \E s \in {"none", "open"} : session' = [session EXCEPT ![cpay[c]] = s]
            /\ url' = url /\ HasClaim(c)
        BY <3>1 DEF CreateSession, CreateSessionFails, HasClaim
      <4> QED
        BY <4>1 DEF OfferOf, ClaimInv, TypeInv, TypeOK
    <3>2. CASE ResumeSession(c)
      <4>1. session' = session /\ url' = url
        BY <3>2 DEF ResumeSession, CanResume, OfferInv
      <4> QED
        BY <4>1 DEF OfferOf
    <3>3. CASE ~CreateSession(c) /\ ~CreateSessionFails(c) /\ ~ResumeSession(c)
      <4>1. session' = session /\ url' = url
        BY <1>3, <3>3 DEF CheckoutStep, CheckoutProgress, BeginCheckout, Activate,
           LockForPayment, RefuseUnavailable, RefuseBusy, ClaimPayment, RefuseNoItems,
           RefuseNoRate, FailNoFeeRate, CrashCheckout, stripeVars
      <4> QED
        BY <4>1 DEF OfferOf
    <3> QED
      BY <3>1, <3>2, <3>3
  <2> QED
    BY <1>1, <2>1 DEF OfferMap
<1> QED
  BY <1>2, <1>3

\* The payer pays, or a session expires, and an offer ends.
LEMMA RefineStripe ==
  ASSUME TypeInv, StripeStep
  PROVE  Offers!Next \/ UNCHANGED <<OfferMap, Recorded, Settled>>
<1>1. Recorded' = Recorded /\ Settled' = Settled /\ url' = url
  BY StripeFrame DEF Recorded, Settled, packageVars, rowVars
<1>2. ASSUME NEW k \in Payments, session[k] = "open", NEW s \in {"complete", "expired"},
             session' = [session EXCEPT ![k] = s]
      PROVE  Offers!Next \/ UNCHANGED <<OfferMap, Recorded, Settled>>
  <2> DEFINE o == IF s = "complete" THEN "taken" ELSE "lapsed"
  <2>1. \A p \in Payments : OfferOf(p)' = IF p = k /\ k \in url THEN o ELSE OfferOf(p)
    BY <1>1, <1>2 DEF OfferOf, TypeInv, TypeOK
  <2>2. CASE k \in url
    <3>1. OfferMap' = [OfferMap EXCEPT ![k] = o] /\ o \in {"taken", "lapsed"}
      BY <2>1, <2>2 DEF OfferMap
    <3>2. OfferMap[k] = "open"
      BY <1>2, <2>2 DEF OfferMap, OfferOf
    <3>3. Offers!EndOffer(k)
      BY <1>1, <3>1, <3>2 DEF Offers!EndOffer, OfferMap, Recorded, Settled
    <3> QED
      BY <3>3 DEF Offers!Next
  <2>3. CASE k \notin url
    BY <1>1, <2>1, <2>3 DEF OfferMap
  <2> QED
    BY <2>2, <2>3
<1>3. ASSUME session' = session PROVE UNCHANGED <<OfferMap, Recorded, Settled>>
  BY <1>1, <1>3 DEF OfferMap, OfferOf
<1> QED
  BY <1>2, <1>3 DEF StripeStep, Pay, Decline, ExpireSession, FailTransfer,
     RefundExternally, OpenDispute, WinDispute, LoseDispute

\* A worker records a payment, settles the package or strikes a duplicate.
LEMMA RefineApply ==
  ASSUME TypeInv, ClaimInv, CaptureInv, BackedInv, OfferInv,
         NEW w \in Workers, ApplyStep(w) \/ CrashWorker(w)
  PROVE  Offers!Next \/ UNCHANGED <<OfferMap, Recorded, Settled>>
<1>0. Busy(w) /\ work[w].pay \in Payments
  BY Applied, BusyTyped DEF TypeInv, Busy
<1> PICK k \in Payments : k = work[w].pay
  BY <1>0
<1>1. /\ Busy(w) /\ ~deleted
      /\ work[w].job.type \in {"session_completed", "sync"}
      /\ ~RefundFirst(w) /\ ~work[w].seen.deleted
  BY <1>0, OnlySettlements DEF OfferInv
<1>2. OfferMap' = OfferMap
  BY WorkerFrame DEF OfferMap, OfferOf
<1>3. CASE SettleFromWebhook(w) \/ SettleFromSync(w)
  <2>1. /\ session[k] = "complete" /\ completed' = [completed EXCEPT ![k] = TRUE]
        /\ status' = status \/ status' = "paid"
    BY <1>3 DEF SettleFromWebhook, SettleFromSync, CompletePayment, Settles, MarkAsPaid
  <2>2. OfferMap[k] = "taken"
    BY <1>1, <2>1 DEF ClaimInv, OfferMap, OfferOf
  <2>3. Recorded' = Recorded \cup {k}
    BY <1>1, <2>1 DEF Recorded, TypeInv, TypeOK
  <2>4. Settled' = Settled \/ Settled' = TRUE
    BY <2>1 DEF Settled
  <2>5. Offers!Record(k)
    BY <1>2, <2>2, <2>3, <2>4 DEF Offers!Record, OfferMap, Recorded, Settled
  <2> QED
    BY <2>5 DEF Offers!Next
<1>4. CASE FinishSync(w)
  <2>1. /\ completed' = completed /\ work[w].pc = "settling"
        /\ status' = status \/ (status' = "paid" /\ status # "paid")
    BY <1>4 DEF FinishSync, MarkAsPaid, rowVars
  <2>2. CASE status' = status
    BY <1>2, <2>1, <2>2 DEF Recorded, Settled
  <2>3. CASE status' = "paid" /\ status # "paid"
    <3>1. completed[k]
      BY <1>1, <2>1, <2>3 DEF BackedInv
    <3>2. Recorded # {} /\ Recorded' = Recorded /\ Settled' = TRUE
      BY <1>1, <2>1, <2>3, <3>1 DEF Recorded, Settled
    <3>3. Offers!Settle
      BY <1>2, <3>2 DEF Offers!Settle, OfferMap, Recorded, Settled
    <3> QED
      BY <3>3 DEF Offers!Next
  <2> QED
    BY <2>1, <2>2, <2>3
<1>5. CASE RefuseSettlement(w)
  <2>1. /\ Refuses(w) /\ completed' = [completed EXCEPT ![k] = FALSE]
        /\ status' = status
    BY <1>1, <1>5 DEF RefuseSettlement, SettlementRefused, Refuses, packageVars
  <2>2. status = "paid"
    BY <1>1, <2>1 DEF BackedInv, Refuses
  <2>3. PICK p \in Payments : completed[p] /\ k # p
    BY <1>1, <2>1, <2>2 DEF BackedInv
  <2>4. /\ Recorded' = Recorded \ {k} /\ Recorded \ {k} # {}
        /\ Settled /\ Settled' = Settled
    BY <1>1, <2>1, <2>2, <2>3 DEF Recorded, Settled, TypeInv, TypeOK
  <2>5. Offers!StrikeDuplicate(k)
    BY <1>2, <2>4 DEF Offers!StrikeDuplicate, OfferMap, Recorded, Settled
  <2> QED
    BY <2>5 DEF Offers!Next
<1>6. CASE DropUnpaidSync(w) \/ Rollback(w) \/ CrashWorker(w)
  <2>1. UNCHANGED <<completed, status>>
    BY <1>6 DEF DropUnpaidSync, Rollback, CrashWorker, packageVars, rowVars
  <2> QED
    BY <1>2, <2>1 DEF Recorded, Settled
<1>7. ~RevertFailure(w) /\ ~RevertReturned(w) /\ ~RestorePaid(w) /\ ~FreezeDisputed(w)
  BY <1>1 DEF RevertFailure, RevertReturned, RestorePaid, FreezeDisputed, Stored
<1> QED
  BY <1>3, <1>4, <1>5, <1>6, <1>7 DEF ApplyStep

LEMMA RefineStep ==
  ASSUME TypeInv, ClaimInv, CaptureInv, RoutableInv, BackedInv, OfferInv, [Next]_vars
  PROVE  Offers!Next \/ UNCHANGED <<OfferMap, Recorded, Settled>>
<1>1. ASSUME UNCHANGED <<session, url, completed, status>>
      PROVE  UNCHANGED <<OfferMap, Recorded, Settled>>
  BY <1>1 DEF OfferMap, OfferOf, Recorded, Settled
<1>2. ASSUME \/ \E p \in Payments : AgePending(p)
             \/ RevokeForDelete \/ SaveDeleted \/ UNCHANGED vars
      PROVE  UNCHANGED <<OfferMap, Recorded, Settled>>
  BY <1>1, <1>2, QuietFrame DEF stripeVars
<1>3. ASSUME NEW w \in Workers, LoadStep(w)
      PROVE  UNCHANGED <<OfferMap, Recorded, Settled>>
  BY <1>1, <1>3, LoadFrame DEF stripeVars, rowVars, packageVars
<1> QED
  BY <1>2, <1>3, RefineCheckout, RefineStripe, RefineApply DEF Next

\* services.py, create_package_checkout, and webhooks.py: for any number of
\* requests, workers, claims, crashes and redeliveries, payers and the package
\* see the steps of CheckoutOffer and no others, while Stripe's lookups answer,
\* no request outlives PENDING_SESSION_STALENESS, the package is not deleted
\* and no money flows back.
THEOREM CheckoutKeepsOffers ==
  ASSUME Env \cap {"lookup_failure", "slow_request", "delete"} = {}, ~MoneyFlowsBack
  PROVE  Spec => KeepsOffers
<1> DEFINE Inv == /\ TypeInv /\ LockInv /\ ClaimInv /\ RoutableInv /\ CaptureInv
                  /\ NoDispute /\ CompletedInv /\ SingleInv /\ BackedInv /\ OfferInv
<1>1. Init => Inv
  <2> SUFFICES ASSUME Init
               PROVE  /\ LockInv /\ ClaimInv /\ RoutableInv /\ CaptureInv /\ NoDispute
                      /\ CompletedInv /\ SingleInv /\ BackedInv /\ OfferInv
    BY InitTyped
  <2>1. LockInv
    BY NoOneOK DEF Init, LockInv, Holding
  <2>2. NoDispute /\ CompletedInv /\ BackedInv
    BY DEF Init, NoDispute, CompletedInv, BackedInv, Busy, Idle
  <2>3. SingleInv
    BY DEF Init, SingleInv, OneClaim, Pending
  <2>4. RoutableInv /\ OfferInv
    BY DEF Init, RoutableInv, RoutableSessions, OfferInv, Offered, HasClaim
  <2> QED
    BY <2>1, <2>2, <2>3, <2>4, InitClaims
<1>2. Inv /\ [Next]_vars => Inv'
  BY TypeStep, LockStep, ClaimStep, RoutableStep, CaptureStep, NoDisputeStep,
     CompletedStep, SingleStep, BackedStep, OfferStep DEF MoneyFlowsBack
<1>3. Init => Offers!Init
  BY DEF Init, Offers!Init, OfferOf
<1>4. Inv /\ [Next]_vars => Offers!Next \/ UNCHANGED <<OfferMap, Recorded, Settled>>
  BY RefineStep
<1>5. Inv /\ [Next]_vars =>
        [Offers!Next]_<<[p \in Payments |-> OfferOf(p)], {p \in Payments : completed[p]},
                        status = "paid">>
  BY <1>4 DEF OfferMap, Recorded, Settled
<1> QED
  BY <1>1, <1>2, <1>3, <1>5, PTL DEF Spec, KeepsOffers, Offers!Spec

-----------------------------------------------------------------------------
(* FailedMeansReturned and DisputedStaysSettled.  With several workers what  *)
(* one has read may be out of date when it writes, and both can fail.        *)

OneWorker == \A v, w \in Workers : v = w
OnePayment == MaxPayments <= 1

\* Money that was returned stays so, and Stripe returns none while the bank
\* decides a dispute.
ReturnedInv ==
  /\ \A p \in Payments : /\ charge[p] # "none" => session[p] = "complete"
                         /\ dispute[p] = "open" => charge[p] = "held"
  /\ \A key \in refundKeys : charge[key[2]] = "returned"
  /\ \A e \in raised : e.type \in {"charge_refunded", "dispute_lost"}
                          => charge[e.pay] = "returned"

\* What the only worker has read is still so when it writes.
CopyInv ==
  \A w \in Workers : work[w].pc = "loaded" =>
    /\ work[w].seen.completed = completed[work[w].pay]
    /\ work[w].seen.deleted => deleted
    /\ work[w].link => intent[work[w].pay] = NoPay
    /\ work[w].job.type \in Reversals /\ ~work[w].link
         => intent[work[w].pay] = work[w].job.pay

NeverDeleted == ~deleted /\ ~deleting

LEMMA CopyStep ==
  ASSUME OneWorker, TypeInv, CopyInv, [Next]_vars
  PROVE  CopyInv'
<1>1. ASSUME UNCHANGED <<completed, intent, work>>, deleted => deleted' PROVE CopyInv'
  BY <1>1 DEF CopyInv
<1>2. ASSUME NEW w \in Workers, LoadStep(w) PROVE CopyInv'
  <2>1. UNCHANGED <<completed, intent, deleted>>
    BY <1>2, LoadFrame DEF rowVars, packageVars
  <2>2. ASSUME NEW j \in Jobs, NEW p \in Payments, NEW l \in BOOLEAN, Load(w, j, p, l),
               l => intent[p] = NoPay,
               j.type \in Reversals /\ ~l => intent[p] = j.pay
        PROVE  CopyInv'
    BY <2>1, <2>2, Loaded DEF CopyInv, OneWorker
  <2> QED
    BY <1>1, <1>2, <2>1, <2>2, LoadSays
<1>3. ASSUME NEW w \in Workers, ApplyStep(w) \/ CrashWorker(w) PROVE CopyInv'
  BY <1>3, Applied DEF CopyInv, OneWorker
<1> QED
  BY <1>1, <1>2, <1>3, CheckoutFrame, StripeFrame, QuietFrame DEF Next, rowVars, packageVars

LEMMA ReturnedStripe ==
  ASSUME TypeInv, ReturnedInv, StripeStep
  PROVE  ReturnedInv'
<1> USE DEF TypeInv, TypeOK, ReturnedInv
<1>1. PICK p \in Payments :
        \/ Pay(p) \/ Decline(p) \/ ExpireSession(p) \/ FailTransfer(p)
        \/ RefundExternally(p) \/ OpenDispute(p) \/ WinDispute(p) \/ LoseDispute(p)
  BY DEF StripeStep
<1>2. refundKeys' = refundKeys
  BY <1>1 DEF Pay, Decline, ExpireSession, FailTransfer, RefundExternally,
     OpenDispute, WinDispute, LoseDispute, OnlyStripe
<1>3. \A t : Event(t, p).type = t /\ Event(t, p).pay = p
  BY DEF Event
<1>4. \A key \in refundKeys : key[2] \in Payments
  OBVIOUS
<1>5. \A e \in raised : e.pay \in Payments
  BY DEF Jobs
<1>6. CASE Pay(p)
  <2>1. /\ charge[p] = "none" /\ session' = [session EXCEPT ![p] = "complete"]
        /\ charge' = [charge EXCEPT ![p] = "held"] /\ dispute' = dispute
        /\ raised' = raised \cup {Event("session_completed", p)}
    BY <1>6 DEF Pay, Raise
  <2> QED
    BY <1>2, <1>3, <1>4, <1>5, <2>1
<1>7. CASE Decline(p) \/ FailTransfer(p)
  <2>1. /\ UNCHANGED <<session, charge, dispute>>
        /\ \E t \in {"charge_failed", "transfer_failed"} : raised' = raised \cup {Event(t, p)}
    BY <1>7 DEF Decline, FailTransfer, Raise
  <2> QED
    BY <1>2, <1>3, <2>1
<1>8. CASE ExpireSession(p)
  BY <1>2, <1>8 DEF ExpireSession
<1>9. CASE RefundExternally(p)
  <2>1. /\ charge[p] = "held" /\ dispute[p] # "open"
        /\ charge' = [charge EXCEPT ![p] = "returned"] /\ UNCHANGED <<session, dispute>>
        /\ raised' = raised \cup {Event("charge_refunded", p)}
    BY <1>9 DEF RefundExternally, Raise
  <2> QED
    BY <1>2, <1>3, <1>4, <1>5, <2>1
<1>10. CASE OpenDispute(p)
  <2>1. /\ charge[p] = "held" /\ dispute' = [dispute EXCEPT ![p] = "open"]
        /\ UNCHANGED <<session, charge>>
        /\ raised' = raised \cup {Event("dispute_created", p)}
    BY <1>10 DEF OpenDispute, Raise
  <2> QED
    BY <1>2, <1>3, <2>1
<1>11. CASE WinDispute(p)
  <2>1. /\ dispute' = [dispute EXCEPT ![p] = "won"] /\ UNCHANGED <<session, charge>>
        /\ raised' = raised \cup {Event("dispute_won", p)}
    BY <1>11 DEF WinDispute, Raise
  <2> QED
    BY <1>2, <1>3, <2>1
<1>12. CASE LoseDispute(p)
  <2>1. /\ dispute[p] = "open" /\ dispute' = [dispute EXCEPT ![p] = "lost"]
        /\ charge' = [charge EXCEPT ![p] = "returned"] /\ session' = session
        /\ raised' = raised \cup {Event("dispute_lost", p)}
    BY <1>12 DEF LoseDispute, Raise
  <2> QED
    BY <1>2, <1>3, <1>4, <1>5, <2>1
<1> QED
  BY <1>1, <1>6, <1>7, <1>8, <1>9, <1>10, <1>11, <1>12

LEMMA ReturnedApply ==
  ASSUME TypeInv, ReturnedInv, NEW w \in Workers, ApplyStep(w) \/ CrashWorker(w)
  PROVE  ReturnedInv'
<1> USE DEF ReturnedInv
<1>1. UNCHANGED stripeVars
      \/ \E key \in RefundReasons \X Payments : Refund(key)
  <2>1. CASE RefuseSettlement(w) \/ RevertFailure(w) \/ Rollback(w) \/ CrashWorker(w)
    <3>1. work[w].pc # "idle" /\ (UNCHANGED stripeVars \/ RefundFirst(w))
      BY <2>1 DEF RefuseSettlement, RevertFailure, Rollback, CrashWorker, Settles, Stored
    <3> QED
      BY <3>1, RefundFirstKey DEF TypeInv
  <2>2. CASE SettleFromWebhook(w) \/ SettleFromSync(w) \/ FinishSync(w)
             \/ DropUnpaidSync(w) \/ RevertReturned(w) \/ RestorePaid(w)
             \/ FreezeDisputed(w)
    BY <2>2 DEF SettleFromWebhook, SettleFromSync, CompletePayment, FinishSync,
       DropUnpaidSync, RevertReturned, RestorePaid, FreezeDisputed
  <2> QED
    BY <2>1, <2>2 DEF ApplyStep
<1>2. CASE UNCHANGED stripeVars
  BY <1>2 DEF stripeVars
<1>3. ASSUME NEW key \in RefundReasons \X Payments, Refund(key) PROVE ReturnedInv'
  <2> USE DEF TypeInv, TypeOK
  <2>1. PICK p \in Payments : p = key[2]
    OBVIOUS
  <2>2. /\ charge' = [charge EXCEPT ![p] = "returned"]
        /\ refundKeys' = refundKeys \cup {key}
        /\ raised' = raised \cup {Event("charge_refunded", p)}
        /\ UNCHANGED <<session, dispute>>
        /\ charge[p] # "none" /\ dispute[p] # "open"
    BY <1>3, <2>1 DEF Refund, RefundAccepted, Raise
  <2>3. Event("charge_refunded", p).pay = p
    BY DEF Event
  <2>4. /\ \A k \in refundKeys : k[2] \in Payments
        /\ \A e \in raised : e.pay \in Payments
    BY DEF Jobs
  <2>5. \A q \in Payments : charge'[q] = IF q = p THEN "returned" ELSE charge[q]
    BY <2>2
  <2>6. \A k \in refundKeys' : charge'[k[2]] = "returned"
    BY <2>1, <2>2, <2>4, <2>5
  <2>7. \A e \in raised' : e.type \in {"charge_refunded", "dispute_lost"}
                             => charge'[e.pay] = "returned"
    BY <2>2, <2>3, <2>4, <2>5
  <2> QED
    BY <2>2, <2>5, <2>6, <2>7
<1> QED
  BY <1>1, <1>2, <1>3

LEMMA ReturnedStep ==
  ASSUME TypeInv, ClaimInv, ReturnedInv, [Next]_vars
  PROVE  ReturnedInv'
<1>1. ASSUME NEW c \in Checkouts, CheckoutStep(c) PROVE ReturnedInv'
  BY <1>1, CheckoutFrame, CheckoutKeepsComplete DEF ReturnedInv
<1>2. ASSUME UNCHANGED stripeVars PROVE ReturnedInv'
  BY <1>2 DEF ReturnedInv, stripeVars
<1> QED
  BY <1>1, <1>2, LoadFrame, QuietFrame, ReturnedStripe, ReturnedApply DEF Next

\* The step that fails a completed payment, or reopens a package, reverts that
\* payment for one of three reasons.
LEMMA FailureSays ==
  ASSUME OneWorker, TypeInv, CaptureInv, CopyInv, NEW w \in Workers, ApplyStep(w) \/ CrashWorker(w),
         NEW p \in Payments, completed[p],
         ~completed'[p] \/ (OnePayment /\ status = "paid" /\ status' = "open")
  PROVE  /\ p = work[w].pay /\ work[w].pc = "loaded"
         /\ \/ RefuseSettlement(w) /\ deleted
            \/ /\ work[w].job.type \in Reversals /\ work[w].job \in raised
               /\ \/ Refund(RefundKey(w))
                  \/ /\ work[w].job.type \in {"charge_refunded", "dispute_lost"}
                     /\ UNCHANGED stripeVars
<1>1. Busy(w) /\ work[w] \in BusyWork /\ work[w].pay \in Payments
  BY Applied, BusyTyped DEF TypeInv, Busy
<1>2. CASE SettleFromWebhook(w) \/ SettleFromSync(w) \/ FinishSync(w) \/ RestorePaid(w)
  <2>1. status' = status \/ status' = "paid"
    BY <1>2 DEF SettleFromWebhook, SettleFromSync, FinishSync, RestorePaid, MarkAsPaid
  <2>2. completed'[p]
    BY <1>1, <1>2 DEF SettleFromWebhook, SettleFromSync, CompletePayment, FinishSync,
       RestorePaid, rowVars, TypeInv, TypeOK
  <2> QED
    BY <2>1, <2>2
<1>3. CASE DropUnpaidSync(w) \/ FreezeDisputed(w) \/ Rollback(w) \/ CrashWorker(w)
  BY <1>3 DEF DropUnpaidSync, FreezeDisputed, Rollback, CrashWorker, rowVars, packageVars
<1>4. ASSUME RefuseSettlement(w) \/ RevertFailure(w) \/ RevertReturned(w)
      PROVE  work[w].pc = "loaded" /\ p = work[w].pay
  <2>1. completed' = completed \/ completed' = [completed EXCEPT ![work[w].pay] = FALSE]
    BY <1>4 DEF RefuseSettlement, RevertFailure, RevertReturned, FailAndReopen
  <2>2. OnePayment => p = work[w].pay
    BY <1>1, ConstantsOK DEF OnePayment, Payments
  <2> QED
    BY <1>1, <1>4, <2>1, <2>2 DEF RefuseSettlement, RevertFailure, RevertReturned, Settles,
       Stored, TypeInv, TypeOK
<1>5. CASE RefuseSettlement(w)
  <2>1. SettlementRefused(w) /\ work[w].seen.completed
    BY <1>4, <1>5 DEF RefuseSettlement, CopyInv
  <2> QED
    BY <1>4, <1>5, <2>1 DEF SettlementRefused, CopyInv
<1>6. CASE RevertFailure(w)
  <2>1. work[w].job.type \in {"transfer_failed", "charge_failed"}
    BY <1>6 DEF RevertFailure, Stored
  <2>2. work[w].job.type \in Reversals /\ work[w].job \in raised
    BY <1>1, <2>1 DEF Reversals, CaptureInv, Busy
  <2>3. work[w].seen.completed
    BY <1>4, <1>6 DEF CopyInv
  <2>4. RefundFirst(w)
    BY <1>6, <2>3 DEF RevertFailure
  <2>5. Refund(RefundKey(w))
    BY <2>1, <2>4 DEF RefundFirst, Settles, Stored
  <2> QED
    BY <1>4, <1>6, <2>2, <2>5
<1>7. CASE RevertReturned(w)
  <2>1. work[w].job.type \in {"charge_refunded", "dispute_lost"} /\ UNCHANGED stripeVars
    BY <1>7 DEF RevertReturned, Stored
  <2>2. work[w].job.type \in Reversals /\ work[w].job \in raised
    BY <1>1, <2>1 DEF Reversals, CaptureInv, Busy
  <2> QED
    BY <1>4, <1>7, <2>1, <2>2
<1> QED
  BY <1>2, <1>3, <1>5, <1>6, <1>7 DEF ApplyStep

\* Only workers fail payments and reopen settled packages.
LEMMA OnlyWorkersFail ==
  ASSUME [Next]_vars, NEW p \in Payments, completed[p],
         ~completed'[p] \/ (status = "paid" /\ status' = "open")
  PROVE  \E w \in Workers : ApplyStep(w) \/ CrashWorker(w)
BY CheckoutFrame, StripeFrame, QuietFrame, LoadFrame DEF Next, rowVars, packageVars

\* webhooks.py, _revert_package_payment: a payment stops counting as completed
\* only once its money is back with the payer.  Holds where the package is not
\* deleted, with one worker, and with disputes as long as there is one payment:
\* the run that checks it, and any number of requests, payments and crashes.
THEOREM FailureIsReturned ==
  ASSUME OneWorker, "delete" \notin Env, "dispute" \notin Env \/ OnePayment
  PROVE  Spec => FailedMeansReturned
<1> DEFINE Inv == /\ TypeInv /\ ClaimInv /\ CaptureInv /\ ReturnedInv /\ CopyInv
                  /\ NeverDeleted
                  /\ "dispute" \notin Env => NoDispute /\ IntentInv
           Returned == \A p \in Payments :
                         completed[p] /\ ~completed'[p] => charge'[p] = "returned"
<1>1. Init => Inv
  <2> SUFFICES ASSUME Init
               PROVE  /\ ClaimInv /\ CaptureInv /\ ReturnedInv /\ CopyInv
                      /\ NeverDeleted /\ NoDispute /\ IntentInv
    BY InitTyped
  <2> QED
    BY InitClaims DEF Init, ReturnedInv, CopyInv, NeverDeleted, NoDispute, IntentInv, Busy, Idle
<1>2. ASSUME NeverDeleted, [Next]_vars PROVE NeverDeleted'
  <2>1. UNCHANGED <<deleted, deleting>>
    <3>1. ASSUME NEW w \in Workers, ApplyStep(w) \/ CrashWorker(w)
          PROVE  UNCHANGED <<deleted, deleting>>
      BY <3>1 DEF ApplyStep, CrashWorker, RefuseSettlement, SettleFromWebhook,
         SettleFromSync, CompletePayment, FinishSync, DropUnpaidSync, RevertFailure,
         RevertReturned, RestorePaid, FreezeDisputed, Rollback, packageVars
    <3> QED
      BY <1>2, <3>1, CheckoutFrame, StripeFrame, LoadFrame
      DEF Next, NeverDeleted, RevokeForDelete, SaveDeleted, AgePending, vars, packageVars
  <2> QED
    BY <1>2, <2>1 DEF NeverDeleted
<1>3. Inv /\ [Next]_vars => Inv'
  BY <1>2, TypeStep, ClaimStep, CaptureStep, ReturnedStep, CopyStep, NoDisputeStep, IntentStep
<1>4. ASSUME Inv, [Next]_vars PROVE Returned
  <2> SUFFICES ASSUME NEW p \in Payments, completed[p], ~completed'[p]
               PROVE  charge'[p] = "returned"
    OBVIOUS
  <2>1. PICK w \in Workers : ApplyStep(w) \/ CrashWorker(w)
    BY <1>4, OnlyWorkersFail
  <2>2. /\ p = work[w].pay /\ work[w].pc = "loaded"
        /\ work[w].job.type \in Reversals /\ work[w].job \in raised
        /\ \/ Refund(RefundKey(w))
           \/ /\ work[w].job.type \in {"charge_refunded", "dispute_lost"}
              /\ UNCHANGED stripeVars
    BY <1>4, <2>1, FailureSays DEF NeverDeleted
  <2>3. work[w].job.pay \in Payments
    BY <1>4, <2>2 DEF TypeInv, TypeOK, Jobs
  <2>4. work[w].job.pay = p
    <3>1. CASE "dispute" \notin Env
      <4>1. intent[p] = p /\ p # NoPay
        BY <1>4, <3>1 DEF IntentInv, NoPay, Payments
      <4> QED
        BY <1>4, <2>2, <4>1 DEF CopyInv
    <3>2. CASE OnePayment
      BY <2>3, <3>2, ConstantsOK DEF OnePayment, Payments
    <3> QED
      BY <3>1, <3>2
  <2>5. CASE Refund(RefundKey(w))
    BY <1>4, <2>4, <2>5 DEF Refund, RefundKey, TypeInv, TypeOK
  <2>6. CASE work[w].job.type \in {"charge_refunded", "dispute_lost"} /\ UNCHANGED stripeVars
    BY <1>4, <2>2, <2>4, <2>6 DEF ReturnedInv, stripeVars
  <2> QED
    BY <2>2, <2>5, <2>6
<1>5. Inv /\ [Next]_vars => [Returned]_vars
  BY <1>4
<1> QED
  BY <1>1, <1>3, <1>5, PTL DEF Spec, FailedMeansReturned

\* webhooks.py, _handle_dispute_created and _revert_package_payment: while the
\* bank decides a dispute, neither a failed transfer nor a late refund event
\* reopens the package the disputed payment settled: Stripe refuses the refund,
\* and a refused refund leaves the package as it is.
THEOREM DisputedIsSettled ==
  ASSUME OneWorker, OnePayment
  PROVE  Spec => DisputedStaysSettled
<1> DEFINE Inv == TypeInv /\ ClaimInv /\ CaptureInv /\ ReturnedInv /\ CopyInv
           Settled1 == status = "paid" /\ status' = "open" =>
                         \A p \in Payments : completed[p] => dispute[p] # "open"
<1>1. Init => Inv
  <2> SUFFICES ASSUME Init
               PROVE  ClaimInv /\ CaptureInv /\ ReturnedInv /\ CopyInv
    BY InitTyped
  <2> QED
    BY InitClaims DEF Init, ReturnedInv, CopyInv, Idle
<1>2. Inv /\ [Next]_vars => Inv'
  BY TypeStep, ClaimStep, CaptureStep, ReturnedStep, CopyStep
<1>3. ASSUME Inv, [Next]_vars PROVE Settled1
  <2> SUFFICES ASSUME status = "paid", status' = "open", NEW p \in Payments, completed[p],
                      dispute[p] = "open"
               PROVE  FALSE
    OBVIOUS
  <2>1. PICK w \in Workers : ApplyStep(w) \/ CrashWorker(w)
    BY <1>3, OnlyWorkersFail
  <2>2. ~RefuseSettlement(w)
    BY DEF RefuseSettlement, packageVars
  <2>3. /\ work[w].job \in raised
        /\ \/ Refund(RefundKey(w))
           \/ work[w].job.type \in {"charge_refunded", "dispute_lost"}
    BY <1>3, <2>1, <2>2, FailureSays
  <2>4. work[w].job.pay = p
    BY <1>3, <2>3, ConstantsOK DEF OnePayment, Payments, TypeInv, TypeOK, Jobs
  <2>5. charge[p] = "held"
    BY <1>3 DEF ReturnedInv
  <2>6. ~Refund(RefundKey(w))
    BY <1>3, <2>4, <2>5 DEF Refund, RefundAccepted, RefundKey, ReturnedInv
  <2> QED
    BY <1>3, <2>3, <2>4, <2>5, <2>6 DEF ReturnedInv
<1>4. Inv /\ [Next]_vars => [Settled1]_vars
  BY <1>3
<1> QED
  BY <1>1, <1>2, <1>4, PTL DEF Spec, DisputedStaysSettled
=============================================================================
