---------------------------- MODULE Subscriptions ----------------------------
(***************************************************************************)
(* One user's subscriptions: what Stripe bills, what the local dj-stripe   *)
(* rows say, and the plan the pages show.  The confirmation page of a      *)
(* checkout stores the new subscription and cancels those it replaces; an  *)
(* hourly task corrects the rows.  The receivers of subscription events    *)
(* look the user up by the Stripe customer id in a column that holds row   *)
(* numbers, and fail: at most dj-stripe's own copy of the row is left.     *)
(***************************************************************************)
EXTENDS Naturals, FiniteSets, Scenarios

CONSTANTS
  MaxSubs,     \* bound: subscriptions the user buys
  Visitors,    \* requests and workers
  MaxMishaps   \* bound: failing Stripe calls and requests that stop

ASSUME SubscriptionConstantsOK == MaxSubs \in Nat /\ MaxMishaps \in Nat

\* The words of a scenario: mishap, portal, gone, race, replay, combined.

VARIABLES
  carries,    \* the products of each subscription, numbered as created
  stripe,     \* its status at Stripe
  row,        \* its status in the local row
  settled,    \* confirmations that went through without a warning
  byUser,     \* subscriptions the user ended
  cached,      \* what the subscription_status cache holds, if anything
  visitor,
  mishaps

subVars == <<carries, stripe, row, settled, byUser, cached, visitor, mishaps>>

Subs == 1..MaxSubs
None == "none"
Away == [pc |-> "away"]

\* PRODUCTS of metadata.py: the paid plan and two storage packs
Product == {"pro", "pack_1", "pack_5"}
Category(p) == IF p = "pro" THEN "base_plan" ELSE "storage_plan"
ProOnly(p) == p = "pack_5"
Categories(s) == {Category(p) : p \in carries[s]}

Plans == SUBSET Product

SubscriptionTypeOK ==
  /\ carries \in [Subs -> Plans] /\ byUser \subseteq Subs /\ settled \subseteq Subs
  /\ stripe \in [Subs -> {None, "active", "canceled", "gone"}]
  /\ row \in [Subs -> {None, "active", "canceled"}]
  /\ cached \subseteq Plans
  /\ visitor \in [Visitors ->
       {Away} \cup [pc : {"confirming", "reconciling"}, sub : Subs,
                    seen : {"active", "canceled"}]
              \cup [pc : {"listing"}, sub : Subs]
              \cup [pc : {"cancelling"}, sub : Subs, todo : SUBSET Subs,
                    cleared : BOOLEAN]
              \cup [pc : {"viewing"}, plan : Plans]]
  /\ mishaps \in 0..MaxMishaps

SubscriptionInit ==
  /\ carries = [s \in Subs |-> {}] /\ stripe = [s \in Subs |-> None]
  /\ row = [s \in Subs |-> None]
  /\ settled = {} /\ byUser = {} /\ cached = {}
  /\ visitor = [v \in Visitors |-> Away]
  /\ mishaps = 0

-----------------------------------------------------------------------------
(* Entitlements.                                                           *)

\* _products_by_category: one product per category, of the newest subscription.
Winners(active) ==
  {p \in Product : \E s \in active :
     /\ p \in carries[s]
     /\ \A t \in active : t > s => Category(p) \notin Categories(t)}

\* _active_subscriptions reads the local rows.
ActiveRows == {s \in Subs : row[s] = "active"}
PlanForUser == Winners(ActiveRows)
GetPlan(products) == IF "pro" \in products THEN "paid" ELSE "free"

Is(v, r) == visitor' = [visitor EXCEPT ![v] = r]
Arrives(v, r) == visitor[v] = Away /\ Is(v, r)
Leaves(v) == Is(v, Away)
Mishap == "mishap" \in env /\ mishaps < MaxMishaps /\ mishaps' = mishaps + 1

-----------------------------------------------------------------------------
(* At Stripe.                                                              *)

\* _validated_price: what may be bought together, and by whom.
MayBuy(products) ==
  /\ products # {} /\ \A p, q \in products : Category(p) = Category(q) => p = q
  /\ Cardinality(products) > 1 => "combined" \in env
  /\ \A p \in products : ProOnly(p) => GetPlan(PlanForUser) = "paid"

\* create_checkout_session; the user pays and Stripe starts the subscription.
\* Users wait for one confirmation before they buy again, but for "race".
Buy(s) ==
  /\ stripe[s] = None /\ \A t \in 1..s - 1 : stripe[t] # None
  /\ "race" \in env \/ 1..s - 1 \subseteq settled
  /\ "race" \in env \/ \A v \in Visitors : visitor[v].pc \in {"away", "viewing", "reconciling"}
  /\ \E products \in Plans :
       MayBuy(products) /\ carries' = [carries EXCEPT ![s] = products]
  /\ stripe' = [stripe EXCEPT ![s] = "active"]
  /\ UNCHANGED <<row, settled, byUser, cached, visitor, mishaps>>

\* The user ends a subscription in the portal of create_portal_session.
EndInPortal(s) ==
  /\ "portal" \in env /\ stripe[s] = "active"
  /\ stripe' = [stripe EXCEPT ![s] = "canceled"]
  /\ byUser' = byUser \cup {s}
  /\ UNCHANGED <<carries, row, settled, cached, visitor, mishaps>>

\* A subscription or its customer is deleted at Stripe.
Vanish(s) ==
  /\ "gone" \in env /\ stripe[s] = "canceled"
  /\ stripe' = [stripe EXCEPT ![s] = "gone"]
  /\ UNCHANGED <<carries, row, settled, byUser, cached, visitor, mishaps>>

\* A subscription event: the receivers of webhooks.py fail on it, so the cache
\* does not follow.
SubscriptionEvent(s) ==
  /\ stripe[s] \in {"active", "canceled"} /\ row[s] # stripe[s]
  /\ row' = [row EXCEPT ![s] = stripe[s]]
  /\ UNCHANGED <<carries, stripe, settled, byUser, cached, visitor, mishaps>>

-----------------------------------------------------------------------------
(* subscription_confirm and CustomUser.handle_new_subscription             *)

OpenConfirm(v, s) ==
  /\ stripe[s] \in {"active", "canceled"}
  /\ s \notin settled \/ "replay" \in env
  /\ "race" \in env \/ \A w \in Visitors : visitor[w].pc \in {"away", "viewing", "reconciling"}
  /\ Arrives(v, [pc |-> "confirming", sub |-> s, seen |-> stripe[s]])
  /\ UNCHANGED <<carries, stripe, row, settled, byUser, cached, mishaps>>

\* sync_from_stripe_data; the cache goes.  CustomUser.subscription, set for a base
\* plan, only names a row that the customer's rows hold anyway.
StoreNew(v) ==
  /\ visitor[v].pc = "confirming"
  /\ LET s == visitor[v].sub IN
     /\ row' = [row EXCEPT ![s] = visitor[v].seen]
     /\ Is(v, [pc |-> "listing", sub |-> s])
  /\ cached' = {}
  /\ UNCHANGED <<carries, stripe, settled, byUser, mishaps>>

\* Mutant: the new subscription is not left out.
OverlappingAll(s) == {t \in ActiveRows : Categories(t) \cap Categories(s) # {}}

\* Mutant: only subscriptions for the very same products overlap.
OverlappingSame(s) == {t \in ActiveRows \ {s} : carries[t] = carries[s]}

Overlapping(s) == {t \in ActiveRows \ {s} : Categories(t) \cap Categories(s) # {}}

ListOverlaps(v) ==
  /\ visitor[v].pc = "listing"
  /\ Is(v, [pc |-> "cancelling", sub |-> visitor[v].sub,
            todo |-> Overlapping(visitor[v].sub), cleared |-> TRUE])
  /\ UNCHANGED <<carries, stripe, row, settled, byUser, cached, mishaps>>

\* _cancel_overlapping_subscription: Stripe refuses to cancel twice.
CancelOverlap(v) ==
  /\ visitor[v].pc = "cancelling"
  /\ \E t \in visitor[v].todo :
       \/ /\ stripe[t] = "active"
          /\ stripe' = [stripe EXCEPT ![t] = "canceled"]
          /\ Is(v, [visitor[v] EXCEPT !.todo = @ \ {t}])
          /\ UNCHANGED mishaps
       \/ /\ \/ stripe[t] # "active" /\ UNCHANGED mishaps
             \/ Mishap
          /\ Is(v, [pc |-> "cancelling", sub |-> visitor[v].sub,
                    todo |-> visitor[v].todo \ {t}, cleared |-> FALSE])
          /\ UNCHANGED stripe
  /\ UNCHANGED <<carries, row, settled, byUser, cached>>

EndPurchase(v) ==
  /\ visitor[v].pc = "cancelling" /\ visitor[v].todo = {}
  /\ settled' = IF visitor[v].cleared THEN settled \cup {visitor[v].sub} ELSE settled
  /\ Leaves(v)
  /\ UNCHANGED <<carries, stripe, row, byUser, cached, mishaps>>

\* A later Stripe call fails, or the request stops: the page may be reloaded.
ConfirmStops(v) ==
  /\ Mishap /\ visitor[v].pc \in {"confirming", "listing", "cancelling"}
  /\ Leaves(v)
  /\ UNCHANGED <<carries, stripe, row, settled, byUser, cached>>

-----------------------------------------------------------------------------
(* reconcile_subscription_statuses, row by row                             *)

\* Mutant: a subscription Stripe does not know is passed over.
RemoteStatusSkips(s) == IF stripe[s] = "gone" THEN row[s] ELSE stripe[s]
RemoteStatus(s) == IF stripe[s] = "gone" THEN "canceled" ELSE stripe[s]

RetrieveRemote(v, s) ==
  /\ row[s] # None /\ RemoteStatus(s) # row[s]
  /\ Arrives(v, [pc |-> "reconciling", sub |-> s, seen |-> RemoteStatus(s)])
  /\ UNCHANGED <<carries, stripe, row, settled, byUser, cached, mishaps>>

CorrectRow(v) ==
  /\ visitor[v].pc = "reconciling"
  /\ row' = [row EXCEPT ![visitor[v].sub] = visitor[v].seen]
  /\ cached' = {}
  /\ Leaves(v)
  /\ UNCHANGED <<carries, stripe, settled, byUser, mishaps>>

-----------------------------------------------------------------------------
(* subscription_status of context_processors.py                            *)

ViewPage(v) ==
  /\ cached = {}
  /\ Arrives(v, [pc |-> "viewing", plan |-> PlanForUser])
  /\ UNCHANGED <<carries, stripe, row, settled, byUser, cached, mishaps>>

CachePlan(v) ==
  /\ visitor[v].pc = "viewing"
  /\ cached' = {visitor[v].plan} /\ Leaves(v)
  /\ UNCHANGED <<carries, stripe, row, settled, byUser, mishaps>>

CacheExpires ==
  /\ cached # {} /\ cached' = {}
  /\ UNCHANGED <<carries, stripe, row, settled, byUser, visitor, mishaps>>

Proceeds(v) == \/ StoreNew(v) \/ ListOverlaps(v) \/ CancelOverlap(v) \/ EndPurchase(v)
               \/ CorrectRow(v) \/ CachePlan(v)

SubscriptionNext ==
  \/ CacheExpires
  \/ \E s \in Subs : \/ Buy(s) \/ EndInPortal(s) \/ Vanish(s) \/ SubscriptionEvent(s)
                     \/ \E v \in Visitors : OpenConfirm(v, s) \/ RetrieveRemote(v, s)
  \/ \E v \in Visitors : Proceeds(v) \/ ConfirmStops(v) \/ ViewPage(v)

SubscriptionSpec ==
  SubscriptionInit /\ [][SubscriptionNext /\ UNCHANGED env]_<<env, subVars>>

\* The task runs every hour over all rows, requests end, the cache has a
\* lifetime of minutes; nobody has to open a page.
SubscriptionFairness(w) ==
  /\ \A s \in Subs : SF_subVars(w \in env /\ \E v \in Visitors : RetrieveRemote(v, s))
  /\ WF_subVars(w \in env /\ CacheExpires)
  /\ \A v \in Visitors :
       WF_subVars(w \in env /\ Proceeds(v))

-----------------------------------------------------------------------------
(* Properties.                                                             *)

\* Of two confirmed subscriptions for the same kind of product at most one is
\* billed, however the confirmations, the hourly task, events and the portal
\* meet, unless the user was warned (models.py, handle_new_subscription).
NobodyPaysTwice ==
  \A s, t \in settled :
    s # t /\ Categories(s) \cap Categories(t) # {}
      => stripe[s] # "active" \/ stripe[t] # "active"

\* Replacing plans never takes away the newest base plan the user paid for, as
\* long as each purchase is confirmed, once, before the next (models.py,
\* handle_new_subscription; metadata.py "the most recently created wins").
NewestPlanIsKept ==
  env \cap {"race", "replay", "combined"} = {} => \A s \in Subs :
    /\ "pro" \in carries[s] /\ s \notin byUser
    /\ \A t \in Subs : t > s => "pro" \notin carries[t]
    => stripe[s] = "active"

\* The local rows, and the plan shown on every page, end up as Stripe has
\* them, though no subscription event is processed (tasks.py: "so plan
\* entitlements never trust stale local data").
PlanSettles ==
  <>[](/\ \A s \in ActiveRows : stripe[s] = "active"
       /\ cached \subseteq {PlanForUser})
=============================================================================
