-------------------------- MODULE SubscriptionsProofs --------------------------
(***************************************************************************)
(* Who pays for what after any number of purchases, confirmations, events  *)
(* and hourly corrections of one user's subscriptions.                     *)
(***************************************************************************)
EXTENDS Subscriptions, FiniteSetTheorems, TLAPS

-----------------------------------------------------------------------------
(* The inductive invariant, part by part.                                  *)

Knows(v) == visitor[v].pc \in {"confirming", "reconciling"}
Buying(v) == visitor[v].pc \in {"confirming", "listing", "cancelling"}
Concerned(v) == Knows(v) \/ Buying(v)

\* Nothing is known of a subscription before it is bought.
UnboughtIsUnknown ==
  \A s \in Subs : stripe[s] = None =>
    /\ row[s] = None /\ carries[s] = {} /\ s \notin settled
    /\ \A v \in Visitors : Concerned(v) => visitor[v].sub # s

\* A subscription that ended stays ended, so that nobody holds a stale "canceled".
SeenIsRight ==
  \A v \in Visitors :
    Knows(v) /\ stripe[visitor[v].sub] = "active" => visitor[v].seen = "active"

\* A subscription that was stored and is still billed has an active row.
StoredIsActive ==
  /\ \A s \in settled : stripe[s] = "active" => row[s] = "active"
  /\ \A v \in Visitors :
       /\ visitor[v].pc \in {"listing", "cancelling"}
       /\ stripe[visitor[v].sub] = "active"
       => row[visitor[v].sub] = "active"

\* Confirmations without a warning so far know of each other: the later one
\* has the earlier one's subscription still to cancel.
SameKind(s, t) == Categories(s) \cap Categories(t) # {}
Rivals(s, t) == /\ s # t /\ SameKind(s, t)
                /\ stripe[s] = "active" /\ stripe[t] = "active"
Clearing(v) == visitor[v].pc = "cancelling" /\ visitor[v].cleared

RivalsAreListed ==
  /\ \A s, t \in settled : ~Rivals(s, t)
  /\ \A s \in settled, v \in Visitors :
       Clearing(v) /\ Rivals(s, visitor[v].sub) => s \in visitor[v].todo
  /\ \A v, w \in Visitors :
       Clearing(v) /\ Clearing(w) /\ Rivals(visitor[v].sub, visitor[w].sub)
         => visitor[w].sub \in visitor[v].todo \/ visitor[v].sub \in visitor[w].todo

\* Purchases confirmed one after the other.
OneByOne ==
  env \cap {"race", "replay"} = {} =>
    /\ \A s \in Subs : stripe[s] # None => 1..s - 1 \subseteq settled
    /\ \A v, w \in Visitors : Buying(v) /\ Buying(w) => v = w
    /\ \A v \in Visitors : Buying(v) => visitor[v].sub \notin settled
    /\ \A v \in Visitors : visitor[v].pc = "cancelling" =>
         \A t \in visitor[v].todo : t < visitor[v].sub /\ SameKind(t, visitor[v].sub)

ProIsAlone ==
  "combined" \notin env =>
    \A s \in Subs : "pro" \in carries[s] => carries[s] = {"pro"}

-----------------------------------------------------------------------------
(* Types.                                                                  *)

\* What a visitor holds at each place.
LEMMA VisitorTyped ==
  ASSUME SubscriptionTypeOK, NEW v \in Visitors
  PROVE  /\ visitor[v].pc \in {"away", "confirming", "reconciling", "listing",
                              "cancelling", "viewing"}
         /\ Concerned(v) => visitor[v].sub \in Subs
         /\ Knows(v) => visitor[v].seen \in {"active", "canceled"}
         /\ visitor[v].pc = "cancelling" =>
              /\ visitor[v].todo \subseteq Subs /\ visitor[v].cleared \in BOOLEAN
              /\ visitor[v] \in [pc : {"cancelling"}, sub : Subs, todo : SUBSET Subs,
                                 cleared : BOOLEAN]
         /\ visitor[v].pc = "viewing" => visitor[v].plan \in Plans
BY DEF SubscriptionTypeOK, Away, Concerned, Knows, Buying

LEMMA PlansTyped == PlanForUser \in Plans
BY DEF PlanForUser, Winners, Plans

\* A cancellation succeeds, or leaves the warning.
Tried(v, t, c) ==
  /\ visitor' = [visitor EXCEPT ![v] =
       [pc |-> "cancelling", sub |-> visitor[v].sub, todo |-> visitor[v].todo \ {t},
        cleared |-> c]]
  /\ \/ /\ c = visitor[v].cleared /\ stripe[t] = "active"
        /\ stripe' = [stripe EXCEPT ![t] = "canceled"]
     \/ c = FALSE /\ stripe' = stripe
  /\ UNCHANGED <<carries, row, settled, byUser, cached>>

LEMMA CancelStep ==
  ASSUME SubscriptionTypeOK, NEW v \in Visitors, CancelOverlap(v)
  PROVE  \E t \in visitor[v].todo, c \in BOOLEAN : Tried(v, t, c)
<1>1. visitor[v] \in [pc : {"cancelling"}, sub : Subs, todo : SUBSET Subs,
                      cleared : BOOLEAN]
  BY VisitorTyped DEF CancelOverlap
<1>2. PICK t \in visitor[v].todo : CancelOverlap(v)!2!(t)
  BY DEF CancelOverlap
<1>3. [visitor[v] EXCEPT !.todo = @ \ {t}] =
        [pc |-> "cancelling", sub |-> visitor[v].sub, todo |-> visitor[v].todo \ {t},
         cleared |-> visitor[v].cleared]
  BY <1>1
<1>4. visitor[v].cleared \in BOOLEAN
  BY <1>1
<1>5. UNCHANGED <<carries, row, settled, byUser, cached>>
  BY DEF CancelOverlap
<1>6. CASE visitor' = [visitor EXCEPT ![v] = [visitor[v] EXCEPT !.todo = @ \ {t}]]
           /\ stripe[t] = "active" /\ stripe' = [stripe EXCEPT ![t] = "canceled"]
  <2>1. Tried(v, t, visitor[v].cleared)
    BY <1>3, <1>5, <1>6 DEF Tried
  <2> QED BY <1>4, <2>1
<1>7. CASE visitor' = [visitor EXCEPT ![v] =
             [pc |-> "cancelling", sub |-> visitor[v].sub, todo |-> visitor[v].todo \ {t},
              cleared |-> FALSE]]
           /\ stripe' = stripe
  <2>1. Tried(v, t, FALSE)
    BY <1>5, <1>7 DEF Tried
  <2> QED BY <2>1
<1> QED BY <1>2, <1>6, <1>7 DEF Is

LEMMA SubTypeStep ==
  ASSUME SubscriptionTypeOK, UnboughtIsUnknown, SubscriptionNext
  PROVE  SubscriptionTypeOK'
<1> USE DEF SubscriptionTypeOK, Is, Arrives, Leaves
<1>1. CASE CacheExpires
  BY <1>1, SMTT(30) DEF CacheExpires
<1>2. ASSUME NEW s \in Subs, Buy(s) PROVE SubscriptionTypeOK'
  BY <1>2 DEF Buy
<1>3. ASSUME NEW s \in Subs, EndInPortal(s) \/ Vanish(s) PROVE SubscriptionTypeOK'
  BY <1>3 DEF EndInPortal, Vanish
<1>4. ASSUME NEW s \in Subs, SubscriptionEvent(s) PROVE SubscriptionTypeOK'
  BY <1>4 DEF SubscriptionEvent
<1>5. ASSUME NEW s \in Subs, NEW v \in Visitors, OpenConfirm(v, s) PROVE SubscriptionTypeOK'
  <2>1. stripe[s] \in {"active", "canceled"}
    BY <1>5 DEF OpenConfirm
  <2>2. visitor' = [visitor EXCEPT ![v] = [pc |-> "confirming", sub |-> s, seen |-> stripe[s]]]
    BY <1>5 DEF OpenConfirm
  <2> QED BY <1>5, <2>1, <2>2 DEF OpenConfirm
<1>6. ASSUME NEW s \in Subs, NEW v \in Visitors, RetrieveRemote(v, s) PROVE SubscriptionTypeOK'
  <2>1. RemoteStatus(s) \in {"active", "canceled"}
    BY <1>6 DEF RetrieveRemote, RemoteStatus, UnboughtIsUnknown
  <2>2. visitor' = [visitor EXCEPT ![v] = [pc |-> "reconciling", sub |-> s,
                                           seen |-> RemoteStatus(s)]]
    BY <1>6 DEF RetrieveRemote
  <2>3. UNCHANGED <<carries, stripe, row, settled, byUser, cached, mishaps>>
    BY <1>6 DEF RetrieveRemote
  <2> HIDE DEF Is, Arrives, Leaves
  <2> QED BY <2>1, <2>2, <2>3
<1>7. ASSUME NEW v \in Visitors, StoreNew(v) PROVE SubscriptionTypeOK'
  <2>1. visitor[v].sub \in Subs /\ visitor[v].seen \in {"active", "canceled"}
    BY <1>7, VisitorTyped DEF StoreNew, Concerned, Knows
  <2> QED BY <1>7, <2>1 DEF StoreNew
<1>8. ASSUME NEW v \in Visitors, ListOverlaps(v) PROVE SubscriptionTypeOK'
  <2>1. visitor[v].sub \in Subs
    BY <1>8, VisitorTyped DEF ListOverlaps, Concerned, Buying
  <2>2. Overlapping(visitor[v].sub) \subseteq Subs
    BY DEF Overlapping, ActiveRows
  <2> QED BY <1>8, <2>1, <2>2 DEF ListOverlaps
<1>9. ASSUME NEW v \in Visitors, CancelOverlap(v) PROVE SubscriptionTypeOK'
  <2>1. PICK t \in visitor[v].todo, c \in BOOLEAN : Tried(v, t, c)
    BY <1>9, CancelStep
  <2>2. visitor[v].sub \in Subs /\ visitor[v].todo \subseteq Subs
    BY <1>9, VisitorTyped DEF CancelOverlap, Concerned, Buying
  <2>3. stripe' \in [Subs -> {None, "active", "canceled", "gone"}]
    BY <2>1, <2>2 DEF Tried
  <2>4. mishaps' \in 0..MaxMishaps
    BY <1>9, SubscriptionConstantsOK DEF CancelOverlap, Mishap
  <2> QED BY <2>1, <2>2, <2>3, <2>4 DEF Tried
<1>10. ASSUME NEW v \in Visitors, EndPurchase(v) PROVE SubscriptionTypeOK'
  <2>1. visitor[v].sub \in Subs
    BY <1>10, VisitorTyped DEF EndPurchase, Concerned, Buying
  <2> QED BY <1>10, <2>1 DEF EndPurchase
<1>11. ASSUME NEW v \in Visitors, CorrectRow(v) PROVE SubscriptionTypeOK'
  <2>1. visitor[v].sub \in Subs /\ visitor[v].seen \in {"active", "canceled"}
    BY <1>11, VisitorTyped DEF CorrectRow, Concerned, Knows
  <2> QED BY <1>11, <2>1 DEF CorrectRow
<1>12. ASSUME NEW v \in Visitors, CachePlan(v) PROVE SubscriptionTypeOK'
  <2>1. visitor[v].plan \in Plans
    BY <1>12, VisitorTyped DEF CachePlan
  <2> QED BY <1>12, <2>1 DEF CachePlan
<1>13. ASSUME NEW v \in Visitors, ConfirmStops(v) PROVE SubscriptionTypeOK'
  BY <1>13, SubscriptionConstantsOK DEF ConfirmStops, Mishap
<1>14. ASSUME NEW v \in Visitors, ViewPage(v) PROVE SubscriptionTypeOK'
  BY <1>14, PlansTyped DEF ViewPage
<1> QED BY <1>1, <1>2, <1>3, <1>4, <1>5, <1>6, <1>7, <1>8, <1>9, <1>10, <1>11, <1>12,
           <1>13, <1>14 DEF SubscriptionNext, Proceeds

-----------------------------------------------------------------------------
(* The parts, step by step.                                                *)

\* Nothing is told of a subscription that Stripe has not started.
LEMMA UnboughtStep ==
  ASSUME SubscriptionTypeOK, UnboughtIsUnknown, SubscriptionNext
  PROVE  UnboughtIsUnknown'
<1> USE DEF SubscriptionTypeOK, UnboughtIsUnknown, Concerned, Knows, Buying, Away, Is, Arrives, Leaves, None
<1>1. CASE CacheExpires
  BY <1>1 DEF CacheExpires
<1>2. ASSUME NEW s \in Subs, Buy(s) PROVE UnboughtIsUnknown'
  BY <1>2 DEF Buy
<1>3. ASSUME NEW s \in Subs, EndInPortal(s) PROVE UnboughtIsUnknown'
  BY <1>3 DEF EndInPortal
<1>4. ASSUME NEW s \in Subs, Vanish(s) PROVE UnboughtIsUnknown'
  BY <1>4 DEF Vanish
<1>5. ASSUME NEW s \in Subs, SubscriptionEvent(s) PROVE UnboughtIsUnknown'
  BY <1>5 DEF SubscriptionEvent
<1>6. ASSUME NEW s \in Subs, NEW v \in Visitors, OpenConfirm(v, s) PROVE UnboughtIsUnknown'
  BY <1>6 DEF OpenConfirm
<1>7. ASSUME NEW s \in Subs, NEW v \in Visitors, RetrieveRemote(v, s) PROVE UnboughtIsUnknown'
  BY <1>7 DEF RetrieveRemote
<1>8. ASSUME NEW v \in Visitors, StoreNew(v) PROVE UnboughtIsUnknown'
  BY <1>8 DEF StoreNew
<1>9. ASSUME NEW v \in Visitors, ListOverlaps(v) PROVE UnboughtIsUnknown'
  BY <1>9 DEF ListOverlaps
<1>10. ASSUME NEW v \in Visitors, CancelOverlap(v) PROVE UnboughtIsUnknown'
  <2>1. PICK t \in visitor[v].todo, c \in BOOLEAN : Tried(v, t, c)
    BY <1>10, CancelStep
  <2>2. visitor[v].pc = "cancelling"
    BY <1>10 DEF CancelOverlap
  <2> QED BY <2>1, <2>2 DEF Tried
<1>11. ASSUME NEW v \in Visitors, EndPurchase(v) PROVE UnboughtIsUnknown'
  BY <1>11 DEF EndPurchase
<1>12. ASSUME NEW v \in Visitors, CorrectRow(v) PROVE UnboughtIsUnknown'
  BY <1>12 DEF CorrectRow
<1>13. ASSUME NEW v \in Visitors, CachePlan(v) PROVE UnboughtIsUnknown'
  BY <1>13 DEF CachePlan
<1>14. ASSUME NEW v \in Visitors, ConfirmStops(v) PROVE UnboughtIsUnknown'
  BY <1>14 DEF ConfirmStops, Mishap
<1>15. ASSUME NEW v \in Visitors, ViewPage(v) PROVE UnboughtIsUnknown'
  BY <1>15 DEF ViewPage
<1> QED BY <1>1, <1>2, <1>3, <1>4, <1>5, <1>6, <1>7, <1>8, <1>9, <1>10, <1>11, <1>12,
           <1>13, <1>14, <1>15 DEF SubscriptionNext, Proceeds

\* What a request saw active, it finds active or ended; "canceled" is for good.
LEMMA SeenStep ==
  ASSUME SubscriptionTypeOK, UnboughtIsUnknown, SeenIsRight, SubscriptionNext
  PROVE  SeenIsRight'
<1> USE DEF SubscriptionTypeOK, UnboughtIsUnknown, SeenIsRight, Concerned, Knows, Buying, Away,
          Is, Arrives, Leaves, None
<1>1. CASE CacheExpires
  BY <1>1 DEF CacheExpires
<1>2. ASSUME NEW s \in Subs, Buy(s) PROVE SeenIsRight'
  BY <1>2 DEF Buy
<1>3. ASSUME NEW s \in Subs, EndInPortal(s) PROVE SeenIsRight'
  BY <1>3 DEF EndInPortal
<1>4. ASSUME NEW s \in Subs, Vanish(s) PROVE SeenIsRight'
  BY <1>4 DEF Vanish
<1>5. ASSUME NEW s \in Subs, SubscriptionEvent(s) PROVE SeenIsRight'
  BY <1>5 DEF SubscriptionEvent
<1>6. ASSUME NEW s \in Subs, NEW v \in Visitors, OpenConfirm(v, s) PROVE SeenIsRight'
  BY <1>6 DEF OpenConfirm
<1>7. ASSUME NEW s \in Subs, NEW v \in Visitors, RetrieveRemote(v, s) PROVE SeenIsRight'
  BY <1>7 DEF RetrieveRemote, RemoteStatus
<1>8. ASSUME NEW v \in Visitors, StoreNew(v) PROVE SeenIsRight'
  BY <1>8 DEF StoreNew
<1>9. ASSUME NEW v \in Visitors, ListOverlaps(v) PROVE SeenIsRight'
  BY <1>9 DEF ListOverlaps
<1>10. ASSUME NEW v \in Visitors, CancelOverlap(v) PROVE SeenIsRight'
  <2>1. PICK t \in visitor[v].todo, c \in BOOLEAN : Tried(v, t, c)
    BY <1>10, CancelStep
  <2>2. visitor[v].pc = "cancelling"
    BY <1>10 DEF CancelOverlap
  <2> QED BY <2>1, <2>2 DEF Tried
<1>11. ASSUME NEW v \in Visitors, EndPurchase(v) PROVE SeenIsRight'
  BY <1>11 DEF EndPurchase
<1>12. ASSUME NEW v \in Visitors, CorrectRow(v) PROVE SeenIsRight'
  BY <1>12 DEF CorrectRow
<1>13. ASSUME NEW v \in Visitors, CachePlan(v) PROVE SeenIsRight'
  BY <1>13 DEF CachePlan
<1>14. ASSUME NEW v \in Visitors, ConfirmStops(v) PROVE SeenIsRight'
  BY <1>14 DEF ConfirmStops, Mishap
<1>15. ASSUME NEW v \in Visitors, ViewPage(v) PROVE SeenIsRight'
  BY <1>15 DEF ViewPage
<1> QED BY <1>1, <1>2, <1>3, <1>4, <1>5, <1>6, <1>7, <1>8, <1>9, <1>10, <1>11, <1>12,
           <1>13, <1>14, <1>15 DEF SubscriptionNext, Proceeds

\* The row is written before the overlaps are listed, and never undone while
\* the subscription is billed.
LEMMA StoredPlanStep ==
  ASSUME SubscriptionTypeOK, UnboughtIsUnknown, SeenIsRight, StoredIsActive, SubscriptionNext
  PROVE  StoredIsActive'
<1> USE DEF SubscriptionTypeOK, UnboughtIsUnknown, SeenIsRight, StoredIsActive, Concerned, Knows,
          Buying, Away, Is, Arrives, Leaves, None
<1>1. CASE CacheExpires
  BY <1>1 DEF CacheExpires
<1>2. ASSUME NEW s \in Subs, Buy(s) PROVE StoredIsActive'
  BY <1>2 DEF Buy
<1>3. ASSUME NEW s \in Subs, EndInPortal(s) PROVE StoredIsActive'
  BY <1>3 DEF EndInPortal
<1>4. ASSUME NEW s \in Subs, Vanish(s) PROVE StoredIsActive'
  BY <1>4 DEF Vanish
<1>5. ASSUME NEW s \in Subs, SubscriptionEvent(s) PROVE StoredIsActive'
  BY <1>5 DEF SubscriptionEvent
<1>6. ASSUME NEW s \in Subs, NEW v \in Visitors, OpenConfirm(v, s) PROVE StoredIsActive'
  BY <1>6 DEF OpenConfirm
<1>7. ASSUME NEW s \in Subs, NEW v \in Visitors, RetrieveRemote(v, s) PROVE StoredIsActive'
  BY <1>7 DEF RetrieveRemote
<1>8. ASSUME NEW v \in Visitors, StoreNew(v) PROVE StoredIsActive'
  BY <1>8 DEF StoreNew
<1>9. ASSUME NEW v \in Visitors, ListOverlaps(v) PROVE StoredIsActive'
  BY <1>9 DEF ListOverlaps
<1>10. ASSUME NEW v \in Visitors, CancelOverlap(v) PROVE StoredIsActive'
  <2>1. PICK t \in visitor[v].todo, c \in BOOLEAN : Tried(v, t, c)
    BY <1>10, CancelStep
  <2>2. visitor[v].pc = "cancelling"
    BY <1>10 DEF CancelOverlap
  <2> QED BY <2>1, <2>2 DEF Tried
<1>11. ASSUME NEW v \in Visitors, EndPurchase(v) PROVE StoredIsActive'
  BY <1>11 DEF EndPurchase
<1>12. ASSUME NEW v \in Visitors, CorrectRow(v) PROVE StoredIsActive'
  BY <1>12 DEF CorrectRow
<1>13. ASSUME NEW v \in Visitors, CachePlan(v) PROVE StoredIsActive'
  BY <1>13 DEF CachePlan
<1>14. ASSUME NEW v \in Visitors, ConfirmStops(v) PROVE StoredIsActive'
  BY <1>14 DEF ConfirmStops, Mishap
<1>15. ASSUME NEW v \in Visitors, ViewPage(v) PROVE StoredIsActive'
  BY <1>15 DEF ViewPage
<1> QED BY <1>1, <1>2, <1>3, <1>4, <1>5, <1>6, <1>7, <1>8, <1>9, <1>10, <1>11, <1>12,
           <1>13, <1>14, <1>15 DEF SubscriptionNext, Proceeds

\* Two subscriptions share a kind of product; only a purchase changes that.
LEMMA KindsKept ==
  ASSUME carries' = carries
  PROVE  \A s, t \in Subs : SameKind(s, t)' <=> SameKind(s, t)
BY DEF SameKind, Categories

\* The later listing sees the earlier row, since both rows were stored first.
LEMMA RivalsStep ==
  ASSUME SubscriptionTypeOK, UnboughtIsUnknown, StoredIsActive, RivalsAreListed, SubscriptionNext
  PROVE  RivalsAreListed'
<1> USE DEF SubscriptionTypeOK, UnboughtIsUnknown, StoredIsActive, RivalsAreListed, Clearing, Rivals,
          Concerned, Knows, Buying, Away, Is, Arrives, Leaves, None
<1>1. CASE CacheExpires
  <2>1. UNCHANGED carries
    BY <1>1 DEF CacheExpires
  <2> QED BY <1>1, <2>1, KindsKept DEF CacheExpires
<1>2. ASSUME NEW s \in Subs, Buy(s) PROVE RivalsAreListed'
  <2>1. /\ UNCHANGED <<settled, visitor>> /\ stripe[s] = None
        /\ stripe' = [stripe EXCEPT ![s] = "active"]
        /\ \E products \in Plans : carries' = [carries EXCEPT ![s] = products]
    BY <1>2 DEF Buy
  <2>2. \A t, u \in Subs : t # s /\ u # s => (SameKind(t, u)' <=> SameKind(t, u))
    BY <2>1 DEF SameKind, Categories
  <2> QED BY <2>1, <2>2
<1>3. ASSUME NEW s \in Subs, EndInPortal(s) PROVE RivalsAreListed'
  <2>1. UNCHANGED carries
    BY <1>3 DEF EndInPortal
  <2> QED BY <1>3, <2>1, KindsKept DEF EndInPortal
<1>4. ASSUME NEW s \in Subs, Vanish(s) PROVE RivalsAreListed'
  <2>1. UNCHANGED carries
    BY <1>4 DEF Vanish
  <2> QED BY <1>4, <2>1, KindsKept DEF Vanish
<1>5. ASSUME NEW s \in Subs, SubscriptionEvent(s) PROVE RivalsAreListed'
  <2>1. UNCHANGED carries
    BY <1>5 DEF SubscriptionEvent
  <2> QED BY <1>5, <2>1, KindsKept DEF SubscriptionEvent
<1>6. ASSUME NEW s \in Subs, NEW v \in Visitors, OpenConfirm(v, s) PROVE RivalsAreListed'
  <2>1. UNCHANGED carries
    BY <1>6 DEF OpenConfirm
  <2> QED BY <1>6, <2>1, KindsKept DEF OpenConfirm
<1>7. ASSUME NEW s \in Subs, NEW v \in Visitors, RetrieveRemote(v, s) PROVE RivalsAreListed'
  <2>1. UNCHANGED carries
    BY <1>7 DEF RetrieveRemote
  <2> QED BY <1>7, <2>1, KindsKept DEF RetrieveRemote
<1>8. ASSUME NEW v \in Visitors, StoreNew(v) PROVE RivalsAreListed'
  <2>1. UNCHANGED carries
    BY <1>8 DEF StoreNew
  <2> QED BY <1>8, <2>1, KindsKept DEF StoreNew
<1>9. ASSUME NEW v \in Visitors, ListOverlaps(v) PROVE RivalsAreListed'
  <2> DEFINE x == visitor[v].sub
  <2>1. UNCHANGED <<carries, stripe, row, settled>> /\ visitor[v].pc = "listing" /\ x \in Subs
    BY <1>9 DEF ListOverlaps
  <2>2. visitor' = [visitor EXCEPT ![v] = [pc |-> "cancelling", sub |-> x,
                                           todo |-> Overlapping(x), cleared |-> TRUE]]
    BY <1>9 DEF ListOverlaps
  <2>3. \A s \in Subs : row[s] = "active" /\ s # x /\ SameKind(s, x) => s \in Overlapping(x)
    BY DEF Overlapping, ActiveRows, SameKind
  <2>4. \A s, u \in Subs : /\ Rivals(s, u)' <=> Rivals(s, u)
                           /\ Rivals(s, u) => Rivals(u, s)
    BY <2>1, KindsKept DEF SameKind
  <2>5. \A s \in Subs : row[s] = "active" /\ Rivals(s, x) => s \in Overlapping(x)
    BY <2>3
  <2>6. \A w \in Visitors : Clearing(w)' =>
          /\ visitor'[w].sub = visitor[w].sub /\ visitor[w].sub \in Subs
          /\ Rivals(visitor[w].sub, x) => row[visitor[w].sub] = "active"
          /\ IF w = v THEN visitor'[w].todo = Overlapping(x)
                      ELSE Clearing(w) /\ visitor'[w] = visitor[w]
    BY <2>1, <2>2, VisitorTyped
  <2>7. \A s \in settled : Rivals(s, x) => row[s] = "active"
    OBVIOUS
  <2>8. \A s \in Subs : ~Rivals(s, s)
    OBVIOUS
  <2> HIDE DEF Rivals, Clearing
  <2>9. (\A s, t \in settled : ~Rivals(s, t))'
    BY <2>1, <2>4
  <2>10. (\A s \in settled, w \in Visitors :
            Clearing(w) /\ Rivals(s, visitor[w].sub) => s \in visitor[w].todo)'
    BY <2>1, <2>4, <2>5, <2>6, <2>7
  <2>11. (\A u, w \in Visitors :
            Clearing(u) /\ Clearing(w) /\ Rivals(visitor[u].sub, visitor[w].sub)
              => visitor[w].sub \in visitor[u].todo \/ visitor[u].sub \in visitor[w].todo)'
    BY <2>4, <2>5, <2>6, <2>8
  <2> QED BY <2>9, <2>10, <2>11
<1>10. ASSUME NEW v \in Visitors, CancelOverlap(v) PROVE RivalsAreListed'
  <2>1. PICK t \in visitor[v].todo, c \in BOOLEAN : Tried(v, t, c)
    BY <1>10, CancelStep
  <2>2. visitor[v].pc = "cancelling" /\ UNCHANGED carries /\ t \in Subs
    BY <1>10, <2>1, VisitorTyped DEF CancelOverlap
  <2>3. \A s, u \in Subs : Rivals(s, u)' => Rivals(s, u) /\ (c => t # s /\ t # u)
    <3> SUFFICES ASSUME NEW s \in Subs, NEW u \in Subs, Rivals(s, u)'
                 PROVE  Rivals(s, u) /\ (c => t # s /\ t # u)
      OBVIOUS
    <3>1. SameKind(s, u)
      BY <2>2, KindsKept
    <3>2. stripe'[s] = "active" /\ stripe'[u] = "active" /\ s # u
      OBVIOUS
    <3> QED BY <2>1, <2>2, <3>1, <3>2 DEF Tried
  <2>4. \A w \in Visitors : Clearing(w)' =>
          /\ Clearing(w) /\ visitor'[w].sub = visitor[w].sub
          /\ visitor'[w].todo = IF w = v THEN visitor[v].todo \ {t} ELSE visitor[w].todo
          /\ w = v => c
    BY <2>1, <2>2 DEF Tried
  <2>5. settled' = settled /\ \A w \in Visitors : Clearing(w) => visitor[w].sub \in Subs
    BY <2>1, VisitorTyped DEF Tried
  <2> HIDE DEF Rivals, Clearing
  <2>6. (\A s, u \in settled : ~Rivals(s, u))'
    BY <2>3, <2>5
  <2>7. (\A s \in settled, w \in Visitors :
           Clearing(w) /\ Rivals(s, visitor[w].sub) => s \in visitor[w].todo)'
    BY <2>3, <2>4, <2>5
  <2>8. (\A u, w \in Visitors :
           Clearing(u) /\ Clearing(w) /\ Rivals(visitor[u].sub, visitor[w].sub)
             => visitor[w].sub \in visitor[u].todo \/ visitor[u].sub \in visitor[w].todo)'
    <3> SUFFICES ASSUME NEW u \in Visitors, NEW w \in Visitors, Clearing(u)', Clearing(w)',
                        Rivals(visitor[u].sub, visitor[w].sub)'
                 PROVE  visitor'[w].sub \in visitor'[u].todo
                          \/ visitor'[u].sub \in visitor'[w].todo
      OBVIOUS
    <3>1. PICK a \in Subs, b \in Subs : a = visitor[u].sub /\ b = visitor[w].sub
      BY <2>4, <2>5
    <3>2. Rivals(a, b)'
      BY <2>4, <3>1
    <3>3. Rivals(a, b) /\ (u = v \/ w = v => a # t /\ b # t)
      BY <2>3, <2>4, <3>2
    <3>4. b \in visitor[u].todo \/ a \in visitor[w].todo
      BY <2>4, <3>1, <3>3
    <3> QED BY <2>4, <3>1, <3>3, <3>4
  <2> QED BY <2>6, <2>7, <2>8
<1>11. ASSUME NEW v \in Visitors, EndPurchase(v) PROVE RivalsAreListed'
  <2> DEFINE x == visitor[v].sub
  <2>1. /\ visitor[v].pc = "cancelling" /\ visitor[v].todo = {} /\ x \in Subs
        /\ visitor[v].cleared \in BOOLEAN /\ visitor' = [visitor EXCEPT ![v] = Away]
        /\ UNCHANGED <<carries, stripe>>
    BY <1>11, VisitorTyped DEF EndPurchase
  <2>2. \A s, u \in Subs : /\ Rivals(s, u)' => Rivals(s, u)
                           /\ Rivals(s, u) => Rivals(u, s)
    BY <2>1, KindsKept DEF SameKind
  <2>3. \A w \in Visitors : Clearing(w)' =>
          Clearing(w) /\ visitor'[w] = visitor[w] /\ visitor[w].sub \in Subs
    BY <2>1, VisitorTyped
  <2>4. settled' = settled \/ (Clearing(v) /\ settled' = settled \cup {x})
    BY <1>11 DEF EndPurchase
  <2>5. \A s \in Subs : ~Rivals(s, s)
    OBVIOUS
  <2> HIDE DEF Rivals, Clearing
  <2>6. \A s \in settled' : s \in settled \/ (s = x /\ Clearing(v))
    BY <2>4
  <2>7. \A s \in settled : Clearing(v) => ~Rivals(s, x) /\ ~Rivals(x, s)
    BY <2>1, <2>2
  <2>8. \A w \in Visitors : Clearing(v) /\ Clearing(w) /\ Rivals(x, visitor[w].sub)
          => x \in visitor[w].todo
    BY <2>1
  <2> HIDE DEF x
  <2>9. (\A s, t \in settled : ~Rivals(s, t))'
    BY <2>1, <2>2, <2>5, <2>6, <2>7
  <2>10. (\A s \in settled, w \in Visitors :
            Clearing(w) /\ Rivals(s, visitor[w].sub) => s \in visitor[w].todo)'
    BY <2>1, <2>2, <2>3, <2>6, <2>8
  <2>11. (\A u, w \in Visitors :
            Clearing(u) /\ Clearing(w) /\ Rivals(visitor[u].sub, visitor[w].sub)
              => visitor[w].sub \in visitor[u].todo \/ visitor[u].sub \in visitor[w].todo)'
    BY <2>2, <2>3
  <2> QED BY <2>9, <2>10, <2>11
<1>12. ASSUME NEW v \in Visitors, CorrectRow(v) PROVE RivalsAreListed'
  <2>1. UNCHANGED carries
    BY <1>12 DEF CorrectRow
  <2> QED BY <1>12, <2>1, KindsKept DEF CorrectRow
<1>13. ASSUME NEW v \in Visitors, CachePlan(v) PROVE RivalsAreListed'
  <2>1. UNCHANGED carries
    BY <1>13 DEF CachePlan
  <2> QED BY <1>13, <2>1, KindsKept DEF CachePlan
<1>14. ASSUME NEW v \in Visitors, ConfirmStops(v) PROVE RivalsAreListed'
  <2>1. UNCHANGED carries
    BY <1>14 DEF ConfirmStops
  <2> QED BY <1>14, <2>1, KindsKept DEF ConfirmStops, Mishap
<1>15. ASSUME NEW v \in Visitors, ViewPage(v) PROVE RivalsAreListed'
  <2>1. UNCHANGED carries
    BY <1>15 DEF ViewPage
  <2> QED BY <1>15, <2>1, KindsKept DEF ViewPage
<1> QED BY <1>1, <1>2, <1>3, <1>4, <1>5, <1>6, <1>7, <1>8, <1>9, <1>10, <1>11, <1>12,
           <1>13, <1>14, <1>15 DEF SubscriptionNext, Proceeds

\* A purchase waits until all before it are settled, so it only replaces older ones.
LEMMA OneByOneStep ==
  ASSUME SubscriptionTypeOK, UnboughtIsUnknown, OneByOne, UNCHANGED env, SubscriptionNext
  PROVE  OneByOne'
<1> USE DEF SubscriptionTypeOK, OneByOne, Concerned, Knows, Buying, Away, Is, Arrives, Leaves, None
<1> SUFFICES ASSUME env \cap {"race", "replay"} = {} PROVE OneByOne'
  OBVIOUS
<1>1. CASE CacheExpires
  <2>1. UNCHANGED carries
    BY <1>1 DEF CacheExpires
  <2> QED BY <1>1, <2>1, KindsKept, VisitorTyped DEF CacheExpires
<1>2. ASSUME NEW s \in Subs, Buy(s) PROVE OneByOne'
  <2>1. /\ UNCHANGED <<settled, visitor>> /\ 1..s - 1 \subseteq settled
        /\ stripe' = [stripe EXCEPT ![s] = "active"] /\ \A v \in Visitors : ~Buying(v)
    BY <1>2 DEF Buy
  <2> QED BY <2>1
<1>3. ASSUME NEW s \in Subs, EndInPortal(s) PROVE OneByOne'
  <2>1. UNCHANGED carries
    BY <1>3 DEF EndInPortal
  <2> QED BY <1>3, <2>1, KindsKept, VisitorTyped DEF EndInPortal
<1>4. ASSUME NEW s \in Subs, Vanish(s) PROVE OneByOne'
  <2>1. UNCHANGED carries
    BY <1>4 DEF Vanish
  <2> QED BY <1>4, <2>1, KindsKept, VisitorTyped DEF Vanish
<1>5. ASSUME NEW s \in Subs, SubscriptionEvent(s) PROVE OneByOne'
  <2>1. UNCHANGED carries
    BY <1>5 DEF SubscriptionEvent
  <2> QED BY <1>5, <2>1, KindsKept, VisitorTyped DEF SubscriptionEvent
<1>6. ASSUME NEW s \in Subs, NEW v \in Visitors, OpenConfirm(v, s) PROVE OneByOne'
  <2>1. UNCHANGED carries
    BY <1>6 DEF OpenConfirm
  <2> QED BY <1>6, <2>1, KindsKept, VisitorTyped DEF OpenConfirm
<1>7. ASSUME NEW s \in Subs, NEW v \in Visitors, RetrieveRemote(v, s) PROVE OneByOne'
  <2>1. UNCHANGED carries
    BY <1>7 DEF RetrieveRemote
  <2> QED BY <1>7, <2>1, KindsKept, VisitorTyped DEF RetrieveRemote
<1>8. ASSUME NEW v \in Visitors, StoreNew(v) PROVE OneByOne'
  <2>1. UNCHANGED carries
    BY <1>8 DEF StoreNew
  <2> QED BY <1>8, <2>1, KindsKept, VisitorTyped DEF StoreNew
<1>9. ASSUME NEW v \in Visitors, ListOverlaps(v) PROVE OneByOne'
  <2>0. PICK x \in Subs : x = visitor[v].sub
    BY <1>9, VisitorTyped DEF ListOverlaps
  <2>1. UNCHANGED <<carries, stripe, row, settled>> /\ visitor[v].pc = "listing"
    BY <1>9 DEF ListOverlaps
  <2>2. visitor' = [visitor EXCEPT ![v] = [pc |-> "cancelling", sub |-> x,
                                           todo |-> Overlapping(x), cleared |-> TRUE]]
    BY <1>9, <2>0 DEF ListOverlaps
  <2>3. \A t \in Overlapping(x) : t \in Subs /\ SameKind(t, x) /\ row[t] = "active" /\ t # x
    BY DEF Overlapping, ActiveRows, SameKind
  <2>4. ASSUME NEW t \in Overlapping(x) PROVE t < x
    <3>1. stripe[t] # None
      BY <2>3 DEF UnboughtIsUnknown
    <3>2. x \notin 1..t - 1
      BY <2>0, <2>1, <2>3, <3>1
    <3> QED BY <2>1, <2>3, <3>2 DEF Subs
  <2>5. /\ \A w \in Visitors : Buying(w)' <=> Buying(w)
        /\ \A w \in Visitors : Buying(w)' => visitor'[w].sub = visitor[w].sub
        /\ \A w \in Visitors : w # v => visitor'[w] = visitor[w]
        /\ visitor'[v].todo = Overlapping(x) /\ visitor'[v].sub = x
    BY <2>0, <2>1, <2>2
  <2>6. ASSUME NEW t \in Overlapping(x) PROVE t < x /\ SameKind(t, x)'
    BY <2>1, <2>3, <2>4, KindsKept
  <2>7. \A w \in Visitors : w # v => ~Buying(w)
    BY <2>0, <2>1
  <2> HIDE DEF Buying, Overlapping
  <2>8. (\A w \in Visitors : visitor[w].pc = "cancelling" =>
          \A t \in visitor[w].todo : t < visitor[w].sub /\ SameKind(t, visitor[w].sub))'
    <3> SUFFICES ASSUME NEW w \in Visitors, visitor'[w].pc = "cancelling",
                        NEW t \in visitor'[w].todo
                 PROVE  t < visitor'[w].sub /\ SameKind(t, visitor[w].sub)'
      OBVIOUS
    <3>1. Buying(w)'
      BY DEF Buying
    <3>2. w = v
      BY <2>5, <2>7, <3>1
    <3>3. visitor'[w].sub = x
      BY <2>5, <3>2
    <3>4. t \in Overlapping(x)
      BY <2>5, <3>2
    <3>5. t < x /\ SameKind(t, x)'
      BY <2>6, <3>4
    <3> QED BY <3>3, <3>5
  <2> QED BY <2>1, <2>5, <2>8
<1>10. ASSUME NEW v \in Visitors, CancelOverlap(v) PROVE OneByOne'
  <2>1. PICK t \in visitor[v].todo, c \in BOOLEAN : Tried(v, t, c)
    BY <1>10, CancelStep
  <2>2. visitor[v].pc = "cancelling" /\ UNCHANGED carries /\ t \in Subs
    BY <1>10, <2>1, VisitorTyped DEF CancelOverlap
  <2> QED BY <2>1, <2>2, KindsKept DEF Tried
<1>11. ASSUME NEW v \in Visitors, EndPurchase(v) PROVE OneByOne'
  <2>1. UNCHANGED carries
    BY <1>11 DEF EndPurchase
  <2> QED BY <1>11, <2>1, KindsKept, VisitorTyped DEF EndPurchase
<1>12. ASSUME NEW v \in Visitors, CorrectRow(v) PROVE OneByOne'
  <2>1. UNCHANGED carries
    BY <1>12 DEF CorrectRow
  <2> QED BY <1>12, <2>1, KindsKept, VisitorTyped DEF CorrectRow
<1>13. ASSUME NEW v \in Visitors, CachePlan(v) PROVE OneByOne'
  <2>1. UNCHANGED carries
    BY <1>13 DEF CachePlan
  <2> QED BY <1>13, <2>1, KindsKept, VisitorTyped DEF CachePlan
<1>14. ASSUME NEW v \in Visitors, ConfirmStops(v) PROVE OneByOne'
  <2>1. UNCHANGED carries
    BY <1>14 DEF ConfirmStops
  <2> QED BY <1>14, <2>1, KindsKept, VisitorTyped DEF ConfirmStops, Mishap
<1>15. ASSUME NEW v \in Visitors, ViewPage(v) PROVE OneByOne'
  <2>1. UNCHANGED carries
    BY <1>15 DEF ViewPage
  <2> QED BY <1>15, <2>1, KindsKept, VisitorTyped DEF ViewPage
<1> QED BY <1>1, <1>2, <1>3, <1>4, <1>5, <1>6, <1>7, <1>8, <1>9, <1>10, <1>11, <1>12,
           <1>13, <1>14, <1>15 DEF SubscriptionNext, Proceeds

\* What is bought without "combined" is one product.
LEMMA BoughtAlone ==
  ASSUME NEW products \in Plans, MayBuy(products), "combined" \notin env, "pro" \in products
  PROVE  products = {"pro"}
<1>1. IsFiniteSet(Product)
  <2>1. Product = (({} \cup {"pro"}) \cup {"pack_1"}) \cup {"pack_5"}
    BY DEF Product
  <2> QED BY <2>1, FS_EmptySet, FS_AddElement
<1>2. IsFiniteSet(products)
  BY <1>1, FS_Subset DEF Plans
<1>3. Cardinality(products) \in Nat /\ ~(Cardinality(products) > 1)
  BY <1>2, FS_CardinalityType DEF MayBuy
<1>4. IsFiniteSet(products \ {"pro"}) /\ Cardinality(products \ {"pro"}) = Cardinality(products) - 1
  BY <1>2, FS_RemoveElement
<1>5. Cardinality(products \ {"pro"}) \in Nat
  BY <1>4, FS_CardinalityType
<1>6. Cardinality(products \ {"pro"}) = 0
  BY <1>3, <1>4, <1>5
<1>7. products \ {"pro"} = {}
  BY <1>4, <1>6, FS_EmptySet
<1> QED BY <1>7

\* No other action changes what a subscription carries.
LEMMA ProIsAloneStep ==
  ASSUME SubscriptionTypeOK, ProIsAlone, UNCHANGED env, SubscriptionNext
  PROVE  ProIsAlone'
<1> USE DEF SubscriptionTypeOK, ProIsAlone
<1>1. CASE CacheExpires
  BY <1>1 DEF CacheExpires
<1>2. ASSUME NEW s \in Subs, Buy(s) PROVE ProIsAlone'
  <2>1. PICK products \in Plans :
          MayBuy(products) /\ carries' = [carries EXCEPT ![s] = products]
    BY <1>2 DEF Buy
  <2>2. "combined" \notin env /\ "pro" \in products => products = {"pro"}
    BY <2>1, BoughtAlone
  <2> QED BY <2>1, <2>2
<1>3. ASSUME NEW s \in Subs, EndInPortal(s) PROVE ProIsAlone'
  BY <1>3 DEF EndInPortal
<1>4. ASSUME NEW s \in Subs, Vanish(s) PROVE ProIsAlone'
  BY <1>4 DEF Vanish
<1>5. ASSUME NEW s \in Subs, SubscriptionEvent(s) PROVE ProIsAlone'
  BY <1>5 DEF SubscriptionEvent
<1>6. ASSUME NEW s \in Subs, NEW v \in Visitors, OpenConfirm(v, s) PROVE ProIsAlone'
  BY <1>6 DEF OpenConfirm
<1>7. ASSUME NEW s \in Subs, NEW v \in Visitors, RetrieveRemote(v, s) PROVE ProIsAlone'
  BY <1>7 DEF RetrieveRemote
<1>8. ASSUME NEW v \in Visitors, StoreNew(v) PROVE ProIsAlone'
  BY <1>8 DEF StoreNew
<1>9. ASSUME NEW v \in Visitors, ListOverlaps(v) PROVE ProIsAlone'
  BY <1>9 DEF ListOverlaps
<1>10. ASSUME NEW v \in Visitors, CancelOverlap(v) PROVE ProIsAlone'
  BY <1>10 DEF CancelOverlap
<1>11. ASSUME NEW v \in Visitors, EndPurchase(v) PROVE ProIsAlone'
  BY <1>11 DEF EndPurchase
<1>12. ASSUME NEW v \in Visitors, CorrectRow(v) PROVE ProIsAlone'
  BY <1>12 DEF CorrectRow
<1>13. ASSUME NEW v \in Visitors, CachePlan(v) PROVE ProIsAlone'
  BY <1>13 DEF CachePlan
<1>14. ASSUME NEW v \in Visitors, ConfirmStops(v) PROVE ProIsAlone'
  BY <1>14 DEF ConfirmStops, Mishap
<1>15. ASSUME NEW v \in Visitors, ViewPage(v) PROVE ProIsAlone'
  BY <1>15 DEF ViewPage
<1> QED BY <1>1, <1>2, <1>3, <1>4, <1>5, <1>6, <1>7, <1>8, <1>9, <1>10, <1>11, <1>12,
           <1>13, <1>14, <1>15 DEF SubscriptionNext, Proceeds

\* Only an older plan is replaced, and a newer base plan took its place.
LEMMA NewestPlanStep ==
  ASSUME SubscriptionTypeOK, UnboughtIsUnknown, OneByOne, ProIsAlone,
         NewestPlanIsKept, UNCHANGED env, SubscriptionNext
  PROVE  NewestPlanIsKept'
<1> USE DEF SubscriptionTypeOK, NewestPlanIsKept, None
<1> SUFFICES ASSUME env \cap {"race", "replay", "combined"} = {} PROVE NewestPlanIsKept'
  OBVIOUS
<1>1. CASE CacheExpires
  BY <1>1 DEF CacheExpires
<1>2. ASSUME NEW s \in Subs, Buy(s) PROVE NewestPlanIsKept'
  <2>1. carries[s] = {} /\ carries' \in [Subs -> Plans]
    BY <1>2 DEF Buy, UnboughtIsUnknown
  <2> QED BY <1>2, <2>1 DEF Buy
<1>3. ASSUME NEW s \in Subs, EndInPortal(s) PROVE NewestPlanIsKept'
  BY <1>3 DEF EndInPortal
<1>4. ASSUME NEW s \in Subs, Vanish(s) PROVE NewestPlanIsKept'
  BY <1>4 DEF Vanish
<1>5. ASSUME NEW s \in Subs, SubscriptionEvent(s) PROVE NewestPlanIsKept'
  BY <1>5 DEF SubscriptionEvent
<1>6. ASSUME NEW s \in Subs, NEW v \in Visitors, OpenConfirm(v, s) PROVE NewestPlanIsKept'
  BY <1>6 DEF OpenConfirm
<1>7. ASSUME NEW s \in Subs, NEW v \in Visitors, RetrieveRemote(v, s) PROVE NewestPlanIsKept'
  BY <1>7 DEF RetrieveRemote
<1>8. ASSUME NEW v \in Visitors, StoreNew(v) PROVE NewestPlanIsKept'
  BY <1>8 DEF StoreNew
<1>9. ASSUME NEW v \in Visitors, ListOverlaps(v) PROVE NewestPlanIsKept'
  BY <1>9 DEF ListOverlaps
<1>10. ASSUME NEW v \in Visitors, CancelOverlap(v) PROVE NewestPlanIsKept'
  <2>1. PICK t \in visitor[v].todo, c \in BOOLEAN : Tried(v, t, c)
    BY <1>10, CancelStep
  <2> DEFINE x == visitor[v].sub
  <2>2. /\ visitor[v].pc = "cancelling" /\ UNCHANGED <<carries, byUser>>
        /\ t \in Subs /\ x \in Subs
    BY <1>10, <2>1, VisitorTyped DEF CancelOverlap, Concerned, Buying
  <2>3. t < x /\ SameKind(t, x)
    BY <2>1, <2>2 DEF OneByOne
  <2>4. "pro" \in carries[t] => "pro" \in carries[x]
    <3> SUFFICES ASSUME "pro" \in carries[t] PROVE "pro" \in carries[x]
      OBVIOUS
    <3>1. carries[t] = {"pro"}
      BY <2>2 DEF ProIsAlone
    <3>2. PICK p \in carries[x] : Category(p) = "base_plan"
      BY <2>3, <3>1 DEF SameKind, Categories, Category
    <3> QED BY <3>2 DEF Category
  <2>5. t < x /\ x > t
    BY <2>2, <2>3 DEF Subs
  <2> HIDE DEF x
  <2> QED BY <2>1, <2>2, <2>4, <2>5 DEF Tried
<1>11. ASSUME NEW v \in Visitors, EndPurchase(v) PROVE NewestPlanIsKept'
  BY <1>11 DEF EndPurchase
<1>12. ASSUME NEW v \in Visitors, CorrectRow(v) PROVE NewestPlanIsKept'
  BY <1>12 DEF CorrectRow
<1>13. ASSUME NEW v \in Visitors, CachePlan(v) PROVE NewestPlanIsKept'
  BY <1>13 DEF CachePlan
<1>14. ASSUME NEW v \in Visitors, ConfirmStops(v) PROVE NewestPlanIsKept'
  BY <1>14 DEF ConfirmStops, Mishap
<1>15. ASSUME NEW v \in Visitors, ViewPage(v) PROVE NewestPlanIsKept'
  BY <1>15 DEF ViewPage
<1> QED BY <1>1, <1>2, <1>3, <1>4, <1>5, <1>6, <1>7, <1>8, <1>9, <1>10, <1>11, <1>12,
           <1>13, <1>14, <1>15 DEF SubscriptionNext, Proceeds

-----------------------------------------------------------------------------
(* The theorems.                                                           *)

SubscriptionInv ==
  /\ SubscriptionTypeOK /\ UnboughtIsUnknown /\ SeenIsRight /\ StoredIsActive
  /\ RivalsAreListed /\ OneByOne /\ ProIsAlone /\ NewestPlanIsKept

LEMMA SubInit_Inv == SubscriptionInit => SubscriptionInv
<1> SUFFICES ASSUME SubscriptionInit PROVE SubscriptionInv
  OBVIOUS
<1> USE DEF SubscriptionInit, Away, None
<1>1. SubscriptionTypeOK
  BY SubscriptionConstantsOK DEF SubscriptionTypeOK, Plans
<1>2. UnboughtIsUnknown /\ SeenIsRight /\ StoredIsActive
  BY DEF UnboughtIsUnknown, SeenIsRight, StoredIsActive, Concerned, Knows, Buying
<1>3. RivalsAreListed
  BY DEF RivalsAreListed, Clearing
<1>4. OneByOne
  BY DEF OneByOne, Buying
<1>5. ProIsAlone /\ NewestPlanIsKept
  BY DEF ProIsAlone, NewestPlanIsKept
<1> QED BY <1>1, <1>2, <1>3, <1>4, <1>5 DEF SubscriptionInv

LEMMA SubNext_Inv ==
  SubscriptionInv /\ [SubscriptionNext /\ UNCHANGED env]_<<env, subVars>> => SubscriptionInv'
<1> SUFFICES ASSUME SubscriptionInv, [SubscriptionNext /\ UNCHANGED env]_<<env, subVars>>
             PROVE  SubscriptionInv'
  OBVIOUS
<1> USE DEF SubscriptionInv
<1>1. CASE SubscriptionNext /\ UNCHANGED env
  BY <1>1, SubTypeStep, UnboughtStep, SeenStep, StoredPlanStep, RivalsStep, OneByOneStep,
     ProIsAloneStep, NewestPlanStep
<1>2. CASE UNCHANGED <<env, subVars>>
  <2> USE <1>2 DEF subVars
  <2>1. SubscriptionTypeOK'
    BY DEF SubscriptionTypeOK
  <2>2. UnboughtIsUnknown' /\ SeenIsRight' /\ StoredIsActive'
    BY DEF UnboughtIsUnknown, SeenIsRight, StoredIsActive, Concerned, Knows, Buying
  <2>3. RivalsAreListed'
    BY DEF RivalsAreListed, Clearing, Rivals, SameKind, Categories
  <2>4. OneByOne'
    BY DEF OneByOne, Buying, SameKind, Categories
  <2>5. ProIsAlone' /\ NewestPlanIsKept'
    BY DEF ProIsAlone, NewestPlanIsKept
  <2> QED BY <2>1, <2>2, <2>3, <2>4, <2>5
<1> QED BY <1>1, <1>2

\* The invariant holds of every run of the subscription pages and tasks.
THEOREM SubscriptionInvariant == SubscriptionSpec => []SubscriptionInv
<1>1. SubscriptionInv /\ [SubscriptionNext /\ UNCHANGED env]_<<env, subVars>>
        => SubscriptionInv'
  BY SubNext_Inv
<1> QED BY SubInit_Inv, <1>1, PTL DEF SubscriptionSpec

\* Stripe's status, the local rows, the cache and the requests keep their shapes.
THEOREM SubscriptionTyped == SubscriptionSpec => []SubscriptionTypeOK
<1>1. SubscriptionInv => SubscriptionTypeOK
  BY DEF SubscriptionInv
<1> QED BY <1>1, SubscriptionInvariant, PTL

\* However many confirmation pages race each other, the hourly task, the events
\* and the portal: of two subscriptions of one kind that were confirmed without
\* a warning at most one is billed (handle_new_subscription).
THEOREM NobodyPaysTwiceAlways == SubscriptionSpec => []NobodyPaysTwice
<1>1. SubscriptionInv => NobodyPaysTwice
  BY DEF SubscriptionInv, RivalsAreListed, Rivals, SameKind, NobodyPaysTwice
<1> QED BY <1>1, SubscriptionInvariant, PTL

\* When purchases are confirmed one at a time, replacing plans leaves the newest
\* base plan the user paid for running (_overlapping_subscriptions).
THEOREM NewestPlanIsKeptAlways == SubscriptionSpec => []NewestPlanIsKept
<1>1. SubscriptionInv => NewestPlanIsKept
  BY DEF SubscriptionInv
<1> QED BY <1>1, SubscriptionInvariant, PTL

=============================================================================
