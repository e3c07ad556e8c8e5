-------------------------- MODULE RecordSharingProofs --------------------------
(***************************************************************************)
(* What packages do to the grants of a record, for any number of records,  *)
(* users, packages and requests.                                           *)
(***************************************************************************)
EXTENDS RecordSharing, TLAPS

-----------------------------------------------------------------------------
(* The inductive invariant, part by part.                                  *)

Working(q) == request[q] # Idle
Withdrawing(q) == request[q].pc \in {"revoking", "deleting"}
Serves(q, p) == Working(q) /\ request[q].pack = p
StandsOpen(p) == /\ IsOpen(p) /\ ~IsDeleted(p)
               /\ \A q \in Requests : Serves(q, p) => ~Withdrawing(q)

\* A request works on a package that was sent, on records of that package.
RequestsWorkOnSent ==
  \A q \in Requests : Working(q) =>
    /\ pack[request[q].pack] # NoPackage
    /\ request[q].todo \subseteq pack[request[q].pack].records

\* A grant by a package ends with a package that was sent.
GrantsEndWithPackage ==
  \A r \in Shareable, u \in Guests :
    ShareOf(r, u) # NotShared /\ ShareOf(r, u).purpose = "reimbursement" =>
      ShareOf(r, u).expires \in Packages /\ pack[ShareOf(r, u).expires] # NoPackage

\* Requests on one package take turns, each on a package in the right state,
\* and what they have listed to revoke are a package's grants.
RequestsTakeTurns ==
  "race" \notin env =>
    /\ \A q, o \in Requests :
         Working(q) /\ Working(o) /\ request[q].pack = request[o].pack => q = o
    /\ \A q \in Requests :
         request[q].pc = "revoking" => IsPaid(request[q].pack)
    /\ \A q \in Requests : Withdrawing(q) =>
         LET u == pack[request[q].pack].to IN
         \A r \in request[q].todo : /\ ShareOf(r, u) # NotShared
                                    /\ ShareOf(r, u).purpose = "reimbursement"

\* Only open packages are granted.
GrantingIsOpen ==
  env \cap {"race", "late_refund"} = {} =>
    \A q \in Requests : request[q].pc = "granting" =>
      IsOpen(request[q].pack) /\ ~IsDeleted(request[q].pack)

\* A package accounts for a grant while it is open, or until the request that
\* takes its grants back comes to this one.
AccountsFor(p, r, u) ==
  /\ pack[p] # NoPackage /\ r \in pack[p].records /\ u = pack[p].to
  /\ \/ StandsOpen(p)
     \/ \E q \in Requests : Serves(q, p) /\ Withdrawing(q) /\ r \in request[q].todo

GrantsAccountedFor ==
  env \cap {"race", "crash", "late_refund"} = {} =>
    \A r \in Shareable, u \in Guests :
      InEffect(ShareOf(r, u)) /\ ShareOf(r, u).purpose = "reimbursement" =>
        \E p \in Packages : AccountsFor(p, r, u)

\* Only archiving hides a record.
AllShown == "archive" \notin env => shown = Shareable

\* Unless packages may overlap, no record is in two.
PackagesDisjoint ==
  "overlap" \notin env =>
    \A p, o \in Packages :
      pack[p] # NoPackage /\ pack[o] # NoPackage /\ p # o =>
        pack[p].records \cap pack[o].records = {}

\* Where the owner shares nothing, every row is a package's, with documents.
OnlyPackagesShare ==
  "owner" \notin env =>
    \A r \in Shareable, u \in Guests : ShareOf(r, u) # NotShared =>
      ShareOf(r, u).purpose = "reimbursement" /\ ShareOf(r, u).documents

\* What an open package grants stands, or is still to be granted.
GrantsStand ==
  env \cap {"race", "crash", "overlap", "owner", "archive"} = {} =>
    \A p \in Packages : StandsOpen(p) => \A r \in pack[p].records :
      \/ ShareOf(r, pack[p].to) # NotShared /\ ~ShareOf(r, pack[p].to).revoked
      \/ \E q \in Requests : Serves(q, p) /\ r \in request[q].todo

SharingInv ==
  /\ SharingTypeOK /\ RequestsWorkOnSent /\ GrantsEndWithPackage /\ PackagesOnlyLetView
  /\ RequestsTakeTurns /\ GrantingIsOpen /\ GrantsAccountedFor
  /\ AllShown /\ PackagesDisjoint /\ OnlyPackagesShare /\ GrantsStand
  /\ RefundUndoesSettlement

-----------------------------------------------------------------------------
(* Facts about single rows and actions.                                    *)

\* An absent row or package is no other value.
LEMMA Absent ==
  /\ \A s \in Grants : s # NotShared
  /\ \A k \in Sent : k # NoPackage
<1>1. NotShared.permission = "none" /\ NoPackage.status = "absent"
  BY DEF NotShared, NoPackage
<1>2. /\ \A s \in Grants : s.permission # "none"
      /\ \A k \in Sent : k.status # "absent"
  BY DEF Grants, Sent
<1> QED
  BY <1>1, <1>2

\* What the types say of one row, one package and one request.
LEMMA Typed ==
  ASSUME SharingTypeOK
  PROVE  /\ \A r \in Shareable, u \in Guests :
              ShareOf(r, u) # NotShared => ShareOf(r, u) \in Grants
         /\ \A p \in Packages : pack[p] # NoPackage => pack[p] \in Sent
         /\ \A p \in Packages : IsOpen(p) \/ IsPaid(p) => pack[p] # NoPackage
         /\ \A q \in Requests : Working(q) =>
              /\ request[q].pc \in {"granting", "revoking", "deleting"}
              /\ request[q].pack \in Packages /\ request[q].todo \subseteq Shareable
         /\ \A q \in Requests : request[q].pc # "idle" => Working(q)
         /\ \A q \in Requests : request[q].pc = "idle" => ~Working(q)
<1>1. ASSUME NEW r \in Shareable, NEW u \in Guests
      PROVE  ShareOf(r, u) # NotShared => ShareOf(r, u) \in Grants
  <2>1. <<r, u>> \in Shareable \X Guests
    OBVIOUS
  <2> QED
    BY <2>1 DEF SharingTypeOK, ShareOf
<1>2. ASSUME NEW p \in Packages
      PROVE  /\ pack[p] # NoPackage => pack[p] \in Sent
             /\ IsOpen(p) \/ IsPaid(p) => pack[p] # NoPackage
  BY DEF SharingTypeOK, IsOpen, IsPaid, NoPackage
<1>3. ASSUME NEW q \in Requests
      PROVE  /\ Working(q) =>
                  /\ request[q].pc \in {"granting", "revoking", "deleting"}
                  /\ request[q].pack \in Packages /\ request[q].todo \subseteq Shareable
             /\ request[q].pc # "idle" => Working(q)
             /\ request[q].pc = "idle" => ~Working(q)
  BY DEF SharingTypeOK, Working, Idle, Work
<1> QED
  BY <1>1, <1>2, <1>3

\* The records of some packages, one by one.
LEMMA UnionOfRecords ==
  ASSUME NEW R, NEW K, NEW f
  PROVE  R = UNION {f[p].records : p \in K} <=>
           \A r : r \in R <=> \E p \in K : r \in f[p].records
OBVIOUS

\* The rows a package or the owner writes are rows of the table.
LEMMA ConfigTyped ==
  ASSUME NEW permission \in {"view", "edit"}, NEW purpose \in {"", "reimbursement"},
         NEW documents \in BOOLEAN, NEW expires \in Packages \cup {Never}
  PROVE  /\ Config(permission, purpose, documents, expires) \in Grants
         /\ Config(permission, purpose, documents, expires).revoked = FALSE
BY DEF Config, Grants

-----------------------------------------------------------------------------
(* The initial state.                                                      *)

\* The invariant holds before anything is shared or sent.
LEMMA InitSharing ==
  SharingInit => SharingInv
<1> SUFFICES ASSUME SharingInit PROVE SharingInv
  OBVIOUS
<1>1. SharingTypeOK
  BY DEF SharingInit, SharingTypeOK
<1>2. /\ \A q \in Requests : ~Working(q)
      /\ \A r \in Shareable, u \in Guests : ShareOf(r, u) = NotShared
      /\ \A p \in Packages : pack[p] = NoPackage /\ receipt[p] = "none"
      /\ shown = Shareable /\ repaid = {}
  BY DEF SharingInit, Working, ShareOf
<1>3. \A p \in Packages : ~IsOpen(p) /\ ~IsPaid(p)
  BY <1>1, <1>2, Typed
<1>4. \A q \in Requests : request[q].pc = "idle"
  BY DEF SharingInit, Idle
<1>5. /\ RequestsWorkOnSent /\ GrantsEndWithPackage /\ PackagesOnlyLetView
      /\ GrantsAccountedFor /\ AllShown /\ PackagesDisjoint /\ OnlyPackagesShare
  BY <1>2 DEF RequestsWorkOnSent, GrantsEndWithPackage, PackagesOnlyLetView,
     GrantsAccountedFor, AllShown, PackagesDisjoint, OnlyPackagesShare, InEffect
<1>6. RequestsTakeTurns /\ GrantingIsOpen /\ GrantsStand
  BY <1>2, <1>3, <1>4
  DEF RequestsTakeTurns, GrantingIsOpen, GrantsStand, StandsOpen, Withdrawing
<1>7. RefundUndoesSettlement
  BY <1>2, <1>3 DEF RefundUndoesSettlement
<1> QED
  BY <1>1, <1>5, <1>6, <1>7 DEF SharingInv

-----------------------------------------------------------------------------
(* What the building blocks of the actions do.                             *)

\* A request that begins takes its package for itself, unless it races.
LEMMA Beginning ==
  ASSUME SharingTypeOK, NEW q \in Requests, NEW p \in Packages,
         NEW pc \in {"granting", "revoking", "deleting"},
         NEW todo \in SUBSET Shareable, Begins(q, p, pc, todo)
  PROVE  /\ ~Working(q) /\ \A o \in Requests \ {q} : request'[o] = request[o]
         /\ request'[q] = [pc |-> pc, pack |-> p, todo |-> todo]
         /\ Working(q)' /\ Withdrawing(q)' = (pc # "granting")
         /\ \A o \in Requests \ {q} : /\ Working(o)' = Working(o)
                                      /\ Withdrawing(o)' = Withdrawing(o)
         /\ "race" \notin env => \A o \in Requests : Working(o) => request[o].pack # p
         /\ request' \in [Requests -> {Idle} \cup Work]
<1>1. /\ request[q] = Idle
      /\ request' = [request EXCEPT ![q] = [pc |-> pc, pack |-> p, todo |-> todo]]
      /\ "race" \notin env => ~InHand(p)
  BY DEF Begins, Now
<1>2. /\ request'[q] = [pc |-> pc, pack |-> p, todo |-> todo]
      /\ \A o \in Requests \ {q} : request'[o] = request[o]
  BY <1>1 DEF SharingTypeOK
<1>3. [pc |-> pc, pack |-> p, todo |-> todo] # Idle
  <2>1. pc # Idle.pc
    BY DEF Idle
  <2> QED
    BY <2>1
<1>4. "race" \notin env => \A o \in Requests : Working(o) => request[o].pack # p
  BY <1>1 DEF InHand, Working
<1>5. request' \in [Requests -> {Idle} \cup Work]
  BY <1>1 DEF SharingTypeOK, Work
<1> QED
  BY <1>1, <1>2, <1>3, <1>4, <1>5 DEF Working, Withdrawing

\* A request that ends leaves the others as they are.
LEMMA Ending ==
  ASSUME SharingTypeOK, NEW q \in Requests, Now(q, Idle)
  PROVE  /\ \A o \in Requests \ {q} : request'[o] = request[o]
         /\ request'[q].pc = "idle" /\ ~Working(q)' /\ ~Withdrawing(q)'
         /\ \A o \in Requests \ {q} : /\ Working(o)' = Working(o)
                                      /\ Withdrawing(o)' = Withdrawing(o)
         /\ request' \in [Requests -> {Idle} \cup Work]
<1>1. /\ request'[q] = Idle
      /\ \A o \in Requests \ {q} : request'[o] = request[o]
  BY DEF Now, SharingTypeOK
<1> QED
  BY <1>1 DEF Now, SharingTypeOK, Working, Withdrawing, Idle

\* A loop that goes on has one record less to do.
LEMMA GoingOn ==
  ASSUME SharingTypeOK, NEW q \in Requests, Working(q), NEW r \in request[q].todo,
         Now(q, [request[q] EXCEPT !.todo = @ \ {r}])
  PROVE  /\ \A o \in Requests \ {q} : request'[o] = request[o]
         /\ request'[q].pc = request[q].pc /\ request'[q].pack = request[q].pack
         /\ request'[q].todo = request[q].todo \ {r}
         /\ \A o \in Requests : /\ Working(o)' = Working(o)
                                /\ Withdrawing(o)' = Withdrawing(o)
                                /\ request'[o].pc = request[o].pc
                                /\ Working(o) => request'[o].pack = request[o].pack
         /\ request' \in [Requests -> {Idle} \cup Work]
<1>1. request[q] \in Work
  BY DEF SharingTypeOK, Working
<1> DEFINE w == [request[q] EXCEPT !.todo = @ \ {r}]
<1>2. /\ w.pc = request[q].pc /\ w.pack = request[q].pack
      /\ w.todo = request[q].todo \ {r}
      /\ w \in Work
  BY <1>1 DEF Work
<1>3. w # Idle
  BY <1>1, <1>2 DEF Idle, Work
<1>4. /\ request'[q] = w
      /\ \A o \in Requests \ {q} : request'[o] = request[o]
      /\ request' = [request EXCEPT ![q] = w]
  BY DEF Now, SharingTypeOK
<1>5. request' \in [Requests -> {Idle} \cup Work]
  BY <1>2, <1>4 DEF SharingTypeOK
<1> HIDE DEF w
<1> QED
  BY <1>2, <1>3, <1>4, <1>5 DEF Working, Withdrawing

-----------------------------------------------------------------------------
(* What the actions do to the rows.                                        *)

\* The owner writes rows of no purpose where none is in effect, and revokes.
LEMMA OwnerRows ==
  ASSUME SharingTypeOK, NEW S \in SUBSET Shareable, NEW r, NEW u \in Guests,
         (r \in Shareable /\ (ShareRecord(r, u) \/ RevokeShare(r, u))) \/ BulkShare(S, u)
  PROVE  /\ share' \in [Shareable \X Guests -> Grants \cup {NotShared}]
         /\ \A s \in Shareable, v \in Guests :
              \/ ShareOf(s, v)' = ShareOf(s, v)
              \/ /\ ~InEffect(ShareOf(s, v))
                 /\ ShareOf(s, v)' \in Grants /\ ShareOf(s, v)'.purpose = ""
              \/ /\ ShareOf(s, v) # NotShared
                 /\ ShareOf(s, v)' = [ShareOf(s, v) EXCEPT !.revoked = TRUE]
<1>1. ASSUME NEW X \in SUBSET Shareable, NEW config \in Grants, config.purpose = "",
             ShareWithUsers(X, u, config)
      PROVE  /\ share' \in [Shareable \X Guests -> Grants \cup {NotShared}]
             /\ \A s \in Shareable, v \in Guests :
                  \/ ShareOf(s, v)' = ShareOf(s, v)
                  \/ /\ ~InEffect(ShareOf(s, v))
                     /\ ShareOf(s, v)' \in Grants /\ ShareOf(s, v)'.purpose = ""
  BY <1>1 DEF SharingTypeOK, ShareWithUsers, Reactivated, ShareOf
<1>2. ASSUME NEW X \in SUBSET Shareable, NEW permission \in {"view", "edit"},
             NEW documents \in BOOLEAN,
             ShareWithUsers(X, u, Config(permission, "", documents, Never))
      PROVE  /\ share' \in [Shareable \X Guests -> Grants \cup {NotShared}]
             /\ \A s \in Shareable, v \in Guests :
                  \/ ShareOf(s, v)' = ShareOf(s, v)
                  \/ /\ ~InEffect(ShareOf(s, v))
                     /\ ShareOf(s, v)' \in Grants /\ ShareOf(s, v)'.purpose = ""
  <2>1. /\ Config(permission, "", documents, Never) \in Grants
        /\ Config(permission, "", documents, Never).purpose = ""
    BY ConfigTyped DEF Config
  <2> QED
    BY <1>1, <1>2, <2>1
<1>3. CASE r \in Shareable /\ ShareRecord(r, u)
  BY <1>2, <1>3 DEF ShareRecord
<1>4. CASE BulkShare(S, u)
  BY <1>2, <1>4 DEF BulkShare
<1>5. CASE r \in Shareable /\ RevokeShare(r, u)
  <2>1. /\ share[<<r, u>>] # NotShared
        /\ share' = [share EXCEPT ![<<r, u>>] = [share[<<r, u>>] EXCEPT !.revoked = TRUE]]
    BY <1>5 DEF RevokeShare, Revoke, ShareOf, SharingTypeOK
  <2>2. <<r, u>> \in Shareable \X Guests
    BY <1>5
  <2>3. [share[<<r, u>>] EXCEPT !.revoked = TRUE] \in Grants
    BY <2>1, <2>2 DEF SharingTypeOK, Grants
  <2> QED
    BY <1>5, <2>1, <2>2, <2>3 DEF ShareOf, SharingTypeOK
<1> QED
  BY <1>3, <1>4, <1>5

\* A package grants a row of its own unless one is in effect.
LEMMA GrantRows ==
  ASSUME SharingTypeOK, RequestsWorkOnSent, NEW q \in Requests, GrantNext(q)
  PROVE  LET p == request[q].pack
             u == pack[p].to IN
         /\ Working(q) /\ p \in Packages /\ u \in Guests
         /\ share' \in [Shareable \X Guests -> Grants \cup {NotShared}]
         /\ \E r \in request[q].todo :
              /\ Now(q, [request[q] EXCEPT !.todo = @ \ {r}])
              /\ share'[<<r, u>>] = IF InEffect(ShareOf(r, u)) THEN ShareOf(r, u)
                                                             ELSE PackageConfig(p)
              /\ \A s \in Shareable, v \in Guests :
                   <<s, v>> # <<r, u>> => ShareOf(s, v)' = ShareOf(s, v)
<1> DEFINE p == request[q].pack
           u == pack[p].to
<1>1. Working(q) /\ p \in Packages /\ pack[p] \in Sent
  BY Typed DEF GrantNext, RequestsWorkOnSent
<1>2. u \in Guests
  BY <1>1 DEF Sent
<1>3. PackageConfig(p) \in Grants
  BY <1>1, ConfigTyped DEF PackageConfig
<1>4. PICK r \in request[q].todo : /\ Grant(r, u, PackageConfig(p))
                                   /\ Now(q, [request[q] EXCEPT !.todo = @ \ {r}])
  BY DEF GrantNext
<1>5. r \in Shareable
  BY <1>1, Typed
<1>6. <<r, u>> \in Shareable \X Guests
  BY <1>2, <1>5
<1> HIDE DEF p, u
<1>7. share' = [share EXCEPT ![<<r, u>>] = IF InEffect(share[<<r, u>>])
                                     THEN share[<<r, u>>] ELSE PackageConfig(p)]
  BY <1>4, <1>6 DEF Grant, Reactivated, SharingTypeOK
<1>8. share' \in [Shareable \X Guests -> Grants \cup {NotShared}]
  BY <1>3, <1>6, <1>7 DEF SharingTypeOK
<1>9. share'[<<r, u>>] = IF InEffect(ShareOf(r, u)) THEN ShareOf(r, u) ELSE PackageConfig(p)
  BY <1>6, <1>7 DEF SharingTypeOK, ShareOf, p, u
<1>10. ASSUME NEW s \in Shareable, NEW v \in Guests, <<s, v>> # <<r, u>>
       PROVE  ShareOf(s, v)' = ShareOf(s, v)
  BY <1>7, <1>10 DEF SharingTypeOK, ShareOf
<1> QED
  BY <1>1, <1>2, <1>4, <1>8, <1>9, <1>10 DEF p, u

\* A package that is settled or deleted revokes a row that it listed.
LEMMA RevokeRows ==
  ASSUME SharingTypeOK, RequestsWorkOnSent, NEW q \in Requests, RevokeNext(q)
  PROVE  LET p == request[q].pack
             u == pack[p].to IN
         /\ Withdrawing(q) /\ Working(q) /\ p \in Packages /\ u \in Guests
         /\ share' \in [Shareable \X Guests -> Grants \cup {NotShared}]
         /\ \E r \in request[q].todo :
              /\ Now(q, [request[q] EXCEPT !.todo = @ \ {r}])
              /\ share'[<<r, u>>] = IF ShareOf(r, u) = NotShared THEN NotShared
                                  ELSE [ShareOf(r, u) EXCEPT !.revoked = TRUE]
              /\ \A s \in Shareable, v \in Guests :
                   <<s, v>> # <<r, u>> => ShareOf(s, v)' = ShareOf(s, v)
<1> DEFINE p == request[q].pack
           u == pack[p].to
<1>1. Working(q) /\ p \in Packages /\ pack[p] \in Sent
  BY Typed DEF RevokeNext, RequestsWorkOnSent
<1>2. u \in Guests
  BY <1>1 DEF Sent
<1>3. PICK r \in request[q].todo : /\ Revoke(r, u)
                                   /\ Now(q, [request[q] EXCEPT !.todo = @ \ {r}])
  BY DEF RevokeNext
<1>4. r \in Shareable
  BY <1>1, Typed
<1>5. <<r, u>> \in Shareable \X Guests
  BY <1>2, <1>4
<1> HIDE DEF p, u
<1> DEFINE row == IF share[<<r, u>>] = NotShared THEN NotShared
                  ELSE [share[<<r, u>>] EXCEPT !.revoked = TRUE]
<1>6. share' = [share EXCEPT ![<<r, u>>] = row]
  BY <1>3, <1>5 DEF Revoke, SharingTypeOK
<1>7. row \in Grants \cup {NotShared}
  BY <1>5 DEF SharingTypeOK, Grants
<1> HIDE DEF row
<1>8. share' \in [Shareable \X Guests -> Grants \cup {NotShared}]
  BY <1>5, <1>6, <1>7 DEF SharingTypeOK
<1>9. share'[<<r, u>>] = row
  BY <1>5, <1>6 DEF SharingTypeOK, ShareOf, p, u
<1>10. ASSUME NEW s \in Shareable, NEW v \in Guests, <<s, v>> # <<r, u>>
       PROVE  ShareOf(s, v)' = ShareOf(s, v)
  BY <1>6, <1>10 DEF SharingTypeOK, ShareOf
<1> QED
  BY <1>1, <1>2, <1>3, <1>8, <1>9, <1>10
  DEF p, u, row, ShareOf, RevokeNext, Withdrawing

-----------------------------------------------------------------------------
(* Every action keeps the invariant.                                       *)

\* Rows that stay keep what they say of their packages.
LEMMA RowsStay ==
  ASSUME SharingInv, share' = share, env' = env,
         \A p \in Packages : pack[p] # NoPackage =>
           /\ pack'[p] # NoPackage
           /\ pack'[p].records = pack[p].records /\ pack'[p].to = pack[p].to
  PROVE  GrantsEndWithPackage' /\ PackagesOnlyLetView' /\ OnlyPackagesShare'
<1>1. \A r \in Shareable, u \in Guests : ShareOf(r, u)' = ShareOf(r, u)
  BY DEF ShareOf
<1> QED
  BY <1>1 DEF SharingInv, GrantsEndWithPackage, PackagesOnlyLetView, OnlyPackagesShare

\* The owner shares, or revokes, a record.
LEMMA OwnerKeeps ==
  ASSUME SharingInv, env' = env,
         NEW S \in SUBSET Shareable, NEW r, NEW u \in Guests,
         (r \in Shareable /\ (ShareRecord(r, u) \/ RevokeShare(r, u))) \/ BulkShare(S, u)
  PROVE  SharingInv'
<1>1. /\ OwnerActs
      /\ UNCHANGED <<shown, pack, expired, repaid, receipt, request>>
  BY DEF ShareRecord, BulkShare, RevokeShare
<1>2. /\ share' \in [Shareable \X Guests -> Grants \cup {NotShared}]
      /\ \A s \in Shareable, v \in Guests :
           \/ ShareOf(s, v)' = ShareOf(s, v)
           \/ /\ ~InEffect(ShareOf(s, v))
              /\ ShareOf(s, v)' \in Grants /\ ShareOf(s, v)'.purpose = ""
           \/ /\ ShareOf(s, v) # NotShared
              /\ ShareOf(s, v)' = [ShareOf(s, v) EXCEPT !.revoked = TRUE]
  BY OwnerRows DEF SharingInv
<1>3. ASSUME NEW s \in Shareable, NEW v \in Guests,
             ShareOf(s, v)' # NotShared, ShareOf(s, v)'.purpose = "reimbursement"
      PROVE  /\ ShareOf(s, v) # NotShared /\ ShareOf(s, v).purpose = "reimbursement"
             /\ ShareOf(s, v)'.permission = ShareOf(s, v).permission
             /\ ShareOf(s, v)'.expires = ShareOf(s, v).expires
             /\ InEffect(ShareOf(s, v))' => InEffect(ShareOf(s, v))
  <2>1. CASE ShareOf(s, v)' = ShareOf(s, v)
    BY <1>1, <1>3, <2>1 DEF InEffect
  <2>2. CASE /\ ShareOf(s, v) # NotShared
             /\ ShareOf(s, v)' = [ShareOf(s, v) EXCEPT !.revoked = TRUE]
    <3>1. ShareOf(s, v) \in Grants
      BY <2>2, Typed DEF SharingInv
    <3>2. ShareOf(s, v)'.revoked
      BY <2>2, <3>1 DEF Grants
    <3> QED
      BY <1>3, <2>2, <3>1, <3>2 DEF Grants, InEffect
  <2> QED
    BY <1>2, <1>3, <2>1, <2>2
<1>4. SharingTypeOK'
  BY <1>1, <1>2 DEF SharingInv, SharingTypeOK
<1>5. RequestsWorkOnSent' /\ GrantingIsOpen' /\ AllShown' /\ PackagesDisjoint'
      /\ RefundUndoesSettlement'
  BY <1>1 DEF SharingInv, RequestsWorkOnSent, GrantingIsOpen, AllShown,
     PackagesDisjoint, RefundUndoesSettlement, Working, IsOpen, IsPaid, IsDeleted
<1>6. GrantsEndWithPackage' /\ PackagesOnlyLetView'
  BY <1>1, <1>3 DEF SharingInv, GrantsEndWithPackage, PackagesOnlyLetView
<1>7. RequestsTakeTurns'
  <2>1. "race" \notin env =>
          \A q \in Requests : request'[q].pc = "idle" /\ ~Working(q)'
    BY <1>1 DEF OwnerActs, Working, Idle
  <2> QED
    BY <2>1 DEF RequestsTakeTurns, Withdrawing
<1>8. GrantsAccountedFor'
  BY <1>1, <1>3 DEF SharingInv, GrantsAccountedFor, AccountsFor, StandsOpen, Serves,
     Working, Withdrawing, IsOpen, IsDeleted, InEffect
<1>9. OnlyPackagesShare' /\ GrantsStand'
  BY <1>1 DEF OwnerActs, OnlyPackagesShare, GrantsStand
<1> QED
  BY <1>4, <1>5, <1>6, <1>7, <1>8, <1>9 DEF SharingInv

\* A package grants the next record.
LEMMA GrantKeeps ==
  ASSUME SharingInv, env' = env, NEW q \in Requests, GrantNext(q)
  PROVE  SharingInv'
<1> DEFINE p == request[q].pack
           u == pack[p].to
<1>1. /\ request[q].pc = "granting"
      /\ UNCHANGED <<shown, pack, expired, repaid, receipt>>
  BY DEF GrantNext
<1>2. /\ Working(q) /\ p \in Packages /\ u \in Guests
      /\ share' \in [Shareable \X Guests -> Grants \cup {NotShared}]
  BY GrantRows DEF SharingInv
<1>3. PICK r \in request[q].todo :
              /\ Now(q, [request[q] EXCEPT !.todo = @ \ {r}])
              /\ share'[<<r, u>>] = IF InEffect(ShareOf(r, u)) THEN ShareOf(r, u)
                                                               ELSE PackageConfig(p)
              /\ \A s \in Shareable, v \in Guests :
                   <<s, v>> # <<r, u>> => ShareOf(s, v)' = ShareOf(s, v)
  BY GrantRows DEF SharingInv
<1>4. /\ \A o \in Requests \ {q} : request'[o] = request[o]
      /\ request'[q].pc = request[q].pc /\ request'[q].pack = request[q].pack
      /\ request'[q].todo = request[q].todo \ {r}
      /\ \A o \in Requests : /\ Working(o)' = Working(o)
                             /\ Withdrawing(o)' = Withdrawing(o)
                             /\ request'[o].pc = request[o].pc
                             /\ Working(o) => request'[o].pack = request[o].pack
      /\ request' \in [Requests -> {Idle} \cup Work]
  BY <1>2, <1>3, GoingOn DEF SharingInv
<1>5. /\ pack[p] # NoPackage /\ r \in pack[p].records /\ r \in Shareable
      /\ pack[p] \in Sent
  BY <1>2, Typed DEF SharingInv, RequestsWorkOnSent
<1>6. /\ PackageConfig(p) \in Grants /\ PackageConfig(p) # NotShared
      /\ PackageConfig(p).purpose = "reimbursement" /\ PackageConfig(p).permission = "view"
      /\ PackageConfig(p).expires = p /\ PackageConfig(p).documents
      /\ ~PackageConfig(p).revoked
  BY <1>2, ConfigTyped, Absent DEF PackageConfig, Config
<1> HIDE DEF p, u
\* A row is what it was, or the row the package wrote.
<1>7. \A s \in Shareable, v \in Guests :
        \/ ShareOf(s, v)' = ShareOf(s, v)
        \/ /\ s = r /\ v = u /\ ~InEffect(ShareOf(s, v))
           /\ ShareOf(s, v)' = PackageConfig(p)
  BY <1>3 DEF ShareOf
<1>8. SharingTypeOK'
  BY <1>1, <1>2, <1>4 DEF SharingInv, SharingTypeOK
<1>9. RequestsWorkOnSent'
  BY <1>1, <1>4 DEF SharingInv, RequestsWorkOnSent
<1>10. GrantsEndWithPackage' /\ PackagesOnlyLetView'
  <2>1. p # Never
    BY <1>2, NeverOK
  <2>2. /\ GrantsEndWithPackage /\ PackagesOnlyLetView /\ pack' = pack
        /\ r \in pack[p].records /\ u = pack[p].to /\ pack[p] # NoPackage
    BY <1>1, <1>5 DEF SharingInv, u
  <2>3. ASSUME NEW s \in Shareable, NEW v \in Guests, ShareOf(s, v)' # NotShared,
               ShareOf(s, v)'.purpose = "reimbursement"
        PROVE  /\ ShareOf(s, v)'.permission = "view" /\ ShareOf(s, v)'.expires # Never
               /\ s \in pack[ShareOf(s, v)'.expires].records
               /\ v = pack[ShareOf(s, v)'.expires].to
               /\ ShareOf(s, v)'.expires \in Packages
               /\ pack[ShareOf(s, v)'.expires] # NoPackage
    <3>1. CASE ShareOf(s, v)' = ShareOf(s, v)
      BY <2>2, <2>3, <3>1 DEF GrantsEndWithPackage, PackagesOnlyLetView
    <3>2. CASE s = r /\ v = u /\ ShareOf(s, v)' = PackageConfig(p)
      BY <1>2, <1>6, <2>1, <2>2, <3>2
    <3> QED
      BY <1>7, <3>1, <3>2
  <2> QED
    BY <2>2, <2>3 DEF GrantsEndWithPackage, PackagesOnlyLetView
<1>11. RequestsTakeTurns'
  <2>1. \A s \in Shareable, v \in Guests :
          ShareOf(s, v) # NotShared /\ ShareOf(s, v).purpose = "reimbursement" =>
            ShareOf(s, v)' # NotShared /\ ShareOf(s, v)'.purpose = "reimbursement"
    BY <1>6, <1>7
  <2>2. ASSUME "race" \notin env
        PROVE  /\ \A a, b \in Requests :
                    Serves(a, request[b].pack) /\ Working(b) => a = b
               /\ \A o \in Requests :
                    request[o].pc = "revoking" => IsPaid(request[o].pack)
               /\ \A o \in Requests : Withdrawing(o) =>
                    \A s \in request[o].todo :
                      /\ ShareOf(s, pack[request[o].pack].to) # NotShared
                      /\ ShareOf(s, pack[request[o].pack].to).purpose = "reimbursement"
    BY <2>2 DEF SharingInv, RequestsTakeTurns, Serves
  <2>3. ASSUME "race" \notin env, NEW o \in Requests, Withdrawing(o)',
               NEW s \in request'[o].todo
        PROVE  LET v == pack[request[o].pack].to IN
               /\ share'[<<s, v>>] # NotShared
               /\ share'[<<s, v>>].purpose = "reimbursement"
    <3>1. Withdrawing(o) /\ Working(o) /\ s \in request[o].todo
      BY <1>1, <1>4, <2>3, Typed DEF SharingInv, Withdrawing
    <3>2. s \in Shareable /\ pack[request[o].pack].to \in Guests
      BY <3>1, Typed DEF SharingInv, RequestsWorkOnSent, Sent
    <3> QED
      BY <2>1, <2>2, <2>3, <3>1, <3>2 DEF ShareOf
  <2>4. \A o \in Requests : request'[o].pc # "idle" => request'[o].pack = request[o].pack
    BY <1>4, Typed DEF SharingInv
  <2>5. \A o \in Requests : request'[o].pc = request[o].pc
    BY <1>4
  <2> QED
    BY <1>1, <1>4, <2>2, <2>3, <2>4, <2>5
    DEF RequestsTakeTurns, Serves, Withdrawing, IsPaid, ShareOf
<1>12. GrantingIsOpen'
  <2>1. \A o \in Requests : request'[o].pc = "granting" =>
          request[o].pc = "granting" /\ request'[o].pack = request[o].pack
    BY <1>4, Typed DEF SharingInv
  <2> QED
    BY <1>1, <2>1 DEF SharingInv, GrantingIsOpen, IsOpen, IsDeleted
<1>13. ASSUME NEW o \in Packages
       PROVE  /\ StandsOpen(o)' = StandsOpen(o)
              /\ \A a \in Requests : Serves(a, o)' = Serves(a, o)
  BY <1>1, <1>4 DEF StandsOpen, Serves, IsOpen, IsDeleted
<1>14. GrantsAccountedFor'
  <2> SUFFICES ASSUME env \cap {"race", "crash", "late_refund"} = {},
                      NEW s \in Shareable, NEW v \in Guests, InEffect(ShareOf(s, v))',
                      ShareOf(s, v)'.purpose = "reimbursement"
               PROVE  \E o \in Packages : AccountsFor(o, s, v)'
    BY DEF GrantsAccountedFor
  <2>1. CASE ShareOf(s, v)' = ShareOf(s, v)
    <3>1. InEffect(ShareOf(s, v))
      BY <1>1, <2>1 DEF InEffect
    <3>2. PICK o \in Packages : AccountsFor(o, s, v)
      BY <2>1, <3>1 DEF SharingInv, GrantsAccountedFor
    <3>3. AccountsFor(o, s, v)'
      BY <1>1, <1>4, <1>13, <3>2 DEF AccountsFor, Withdrawing
    <3> QED
      BY <3>3
  <2>2. CASE s = r /\ v = u
    <3>1. IsOpen(p) /\ ~IsDeleted(p)
      BY <1>1, <1>2 DEF SharingInv, GrantingIsOpen, p
    <3>2. \A o \in Requests : Serves(o, p) => ~Withdrawing(o)
      BY <1>1, <1>2 DEF SharingInv, RequestsTakeTurns, Serves, Withdrawing, p
    <3>3. PICK k \in Packages : k = p
      BY <1>2
    <3>4. AccountsFor(k, s, v)'
      BY <1>1, <1>5, <1>13, <2>2, <3>1, <3>2, <3>3 DEF AccountsFor, StandsOpen, u
    <3> QED
      BY <3>4
  <2> QED
    BY <1>7, <2>1, <2>2
<1>15. AllShown' /\ PackagesDisjoint' /\ RefundUndoesSettlement'
  BY <1>1 DEF SharingInv, AllShown, PackagesDisjoint, RefundUndoesSettlement, IsPaid
<1>16. OnlyPackagesShare'
  BY <1>6, <1>7 DEF SharingInv, OnlyPackagesShare
<1>17. GrantsStand'
  <2> SUFFICES ASSUME env \cap {"race", "crash", "overlap", "owner", "archive"} = {},
                      NEW o \in Packages, StandsOpen(o), NEW s \in pack[o].records
               PROVE  \/ /\ share'[<<s, pack[o].to>>] # NotShared
                         /\ ~share'[<<s, pack[o].to>>].revoked
                      \/ \E a \in Requests : Serves(a, o)' /\ s \in request'[a].todo
    BY <1>1, <1>13 DEF GrantsStand, ShareOf
  <2>1. s \in Shareable /\ pack[o].to \in Guests
    BY Typed DEF SharingInv, StandsOpen, Sent
  <2>2. CASE s = r /\ pack[o].to = u
    BY <1>3, <1>6, <2>2 DEF InEffect
  <2>3. CASE ~(s = r /\ pack[o].to = u)
    <3>1. share'[<<s, pack[o].to>>] = ShareOf(s, pack[o].to)
      BY <1>3, <2>1, <2>3 DEF ShareOf, u
    <3>2. CASE ShareOf(s, pack[o].to) # NotShared /\ ~ShareOf(s, pack[o].to).revoked
      BY <3>1, <3>2
    <3>3. ASSUME NEW a \in Requests, Serves(a, o), s \in request[a].todo
          PROVE  Serves(a, o)' /\ s \in request'[a].todo
      BY <1>4, <1>13, <2>3, <3>3 DEF Serves, u, p
    <3> QED
      BY <3>2, <3>3 DEF SharingInv, GrantsStand
  <2> QED
    BY <2>2, <2>3
<1> QED
  BY <1>8, <1>9, <1>10, <1>11, <1>12, <1>14, <1>15, <1>16, <1>17 DEF SharingInv

\* A package that is settled or deleted revokes the next record.
LEMMA RevokeKeeps ==
  ASSUME SharingInv, env' = env, NEW q \in Requests, RevokeNext(q)
  PROVE  SharingInv'
<1>1. UNCHANGED <<shown, pack, expired, repaid, receipt>>
  BY DEF RevokeNext
<1>2. PICK p \in Packages, u \in Guests : p = request[q].pack /\ u = pack[p].to
  BY RevokeRows DEF SharingInv
<1>3. /\ Withdrawing(q) /\ Working(q)
      /\ share' \in [Shareable \X Guests -> Grants \cup {NotShared}]
  BY RevokeRows DEF SharingInv
<1>4. PICK r \in request[q].todo :
              /\ Now(q, [request[q] EXCEPT !.todo = @ \ {r}])
              /\ share'[<<r, u>>] = IF ShareOf(r, u) = NotShared THEN NotShared
                                    ELSE [ShareOf(r, u) EXCEPT !.revoked = TRUE]
              /\ \A s \in Shareable, v \in Guests :
                   <<s, v>> # <<r, u>> => ShareOf(s, v)' = ShareOf(s, v)
  BY <1>2, RevokeRows DEF SharingInv
<1>5. /\ \A o \in Requests \ {q} : request'[o] = request[o]
      /\ request'[q].pc = request[q].pc /\ request'[q].pack = request[q].pack
      /\ request'[q].todo = request[q].todo \ {r}
      /\ \A o \in Requests : /\ Working(o)' = Working(o)
                             /\ Withdrawing(o)' = Withdrawing(o)
                             /\ request'[o].pc = request[o].pc
                             /\ Working(o) => request'[o].pack = request[o].pack
      /\ request' \in [Requests -> {Idle} \cup Work]
  BY <1>3, <1>4, GoingOn DEF SharingInv
<1>6. /\ pack[p] # NoPackage /\ r \in pack[p].records /\ r \in Shareable
  BY <1>2, <1>3, Typed DEF SharingInv, RequestsWorkOnSent
\* A row is what it was, or revoked.
<1>7. ASSUME NEW s \in Shareable, NEW v \in Guests, ShareOf(s, v) # NotShared
      PROVE  /\ ShareOf(s, v)' \in Grants /\ ShareOf(s, v)' # NotShared
             /\ ShareOf(s, v)'.purpose = ShareOf(s, v).purpose
             /\ ShareOf(s, v)'.permission = ShareOf(s, v).permission
             /\ ShareOf(s, v)'.expires = ShareOf(s, v).expires
             /\ ShareOf(s, v)'.documents = ShareOf(s, v).documents
             /\ <<s, v>> = <<r, u>> => ~InEffect(ShareOf(s, v))'
             /\ <<s, v>> # <<r, u>> => ShareOf(s, v)' = ShareOf(s, v)
  <2>1. ShareOf(s, v) \in Grants
    BY <1>7, Typed DEF SharingInv
  <2>2. CASE <<s, v>> # <<r, u>>
    BY <1>4, <1>7, <2>1, <2>2
  <2>3. CASE <<s, v>> = <<r, u>>
    <3>1. ShareOf(s, v)' = [ShareOf(s, v) EXCEPT !.revoked = TRUE]
      BY <1>4, <1>7, <2>3 DEF ShareOf
    <3>2. [ShareOf(s, v) EXCEPT !.revoked = TRUE] \in Grants
      BY <2>1 DEF Grants
    <3>3. ShareOf(s, v)'.revoked
      BY <2>1, <3>1 DEF Grants
    <3> QED
      BY <2>1, <2>3, <3>1, <3>2, <3>3, Absent DEF Grants, InEffect
  <2> QED
    BY <2>2, <2>3
<1>8. ASSUME NEW s \in Shareable, NEW v \in Guests, ShareOf(s, v) = NotShared
      PROVE  ShareOf(s, v)' = NotShared
  BY <1>4, <1>8 DEF ShareOf
<1>9. SharingTypeOK'
  BY <1>1, <1>3, <1>5 DEF SharingInv, SharingTypeOK
<1>10. RequestsWorkOnSent'
  BY <1>1, <1>5 DEF SharingInv, RequestsWorkOnSent
<1>11. GrantsEndWithPackage' /\ PackagesOnlyLetView' /\ OnlyPackagesShare'
  BY <1>1, <1>7, <1>8
  DEF SharingInv, GrantsEndWithPackage, PackagesOnlyLetView, OnlyPackagesShare
<1>12. \A o \in Requests : request'[o].pc # "idle" => request'[o].pack = request[o].pack
  BY <1>5, Typed DEF SharingInv
<1>13. RequestsTakeTurns'
  <2>1. ASSUME "race" \notin env, NEW o \in Requests, Withdrawing(o)',
               NEW s \in request'[o].todo
        PROVE  /\ share'[<<s, pack[request[o].pack].to>>] # NotShared
               /\ share'[<<s, pack[request[o].pack].to>>].purpose = "reimbursement"
    <3>1. Withdrawing(o) /\ Working(o) /\ s \in request[o].todo
      BY <1>4, <1>5, <2>1, Typed DEF SharingInv, Withdrawing
    <3>2. PICK v \in Guests : v = pack[request[o].pack].to
      BY <3>1, Typed DEF SharingInv, RequestsWorkOnSent, Sent
    <3>3. s \in Shareable
      BY <3>1, Typed DEF SharingInv
    <3>4. ShareOf(s, v) # NotShared /\ ShareOf(s, v).purpose = "reimbursement"
      BY <2>1, <3>1, <3>2 DEF SharingInv, RequestsTakeTurns
    <3> QED
      BY <1>7, <3>2, <3>3, <3>4 DEF ShareOf
  <2>2. ASSUME "race" \notin env
        PROVE  /\ \A a, b \in Requests :
                    Working(a)' /\ Working(b)' /\ request'[a].pack = request'[b].pack
                      => a = b
               /\ \A o \in Requests : request'[o].pc = "revoking" =>
                    IsPaid(request[o].pack)
    BY <1>5, <2>2 DEF SharingInv, RequestsTakeTurns
  <2> QED
    BY <1>1, <1>12, <2>1, <2>2
    DEF RequestsTakeTurns, Serves, Withdrawing, IsPaid, ShareOf
<1>14. GrantingIsOpen'
  BY <1>1, <1>5, <1>12 DEF SharingInv, GrantingIsOpen, IsOpen, IsDeleted
<1>15. ASSUME NEW o \in Packages
       PROVE  /\ StandsOpen(o)' = StandsOpen(o)
              /\ \A a \in Requests : Serves(a, o)' = Serves(a, o)
  BY <1>1, <1>5 DEF StandsOpen, Serves, IsOpen, IsDeleted
<1>16. GrantsAccountedFor'
  <2> SUFFICES ASSUME env \cap {"race", "crash", "late_refund"} = {},
                      NEW s \in Shareable, NEW v \in Guests, InEffect(ShareOf(s, v))',
                      ShareOf(s, v)'.purpose = "reimbursement"
               PROVE  \E o \in Packages : AccountsFor(o, s, v)'
    BY DEF GrantsAccountedFor
  <2>1. /\ <<s, v>> # <<r, u>> /\ ShareOf(s, v)' = ShareOf(s, v)
        /\ InEffect(ShareOf(s, v))
    BY <1>1, <1>7, <1>8 DEF InEffect
  <2>2. PICK o \in Packages : AccountsFor(o, s, v)
    BY <2>1 DEF SharingInv, GrantsAccountedFor
  <2>3. AccountsFor(o, s, v)'
    BY <1>1, <1>2, <1>5, <1>15, <2>1, <2>2 DEF AccountsFor, Serves
  <2> QED
    BY <2>3
<1>17. AllShown' /\ PackagesDisjoint' /\ RefundUndoesSettlement'
  BY <1>1 DEF SharingInv, AllShown, PackagesDisjoint, RefundUndoesSettlement, IsPaid
<1>18. GrantsStand'
  <2> SUFFICES ASSUME env \cap {"race", "crash", "overlap", "owner", "archive"} = {},
                      NEW o \in Packages, StandsOpen(o), NEW s \in pack[o].records
               PROVE  \/ /\ share'[<<s, pack[o].to>>] # NotShared
                         /\ ~share'[<<s, pack[o].to>>].revoked
                      \/ \E a \in Requests : Serves(a, o)' /\ s \in request'[a].todo
    BY <1>1, <1>15 DEF GrantsStand, ShareOf
  <2>1. s \in Shareable /\ pack[o].to \in Guests /\ pack[o] # NoPackage
    BY Typed DEF SharingInv, StandsOpen, Sent
  \* The package that revokes is another one, with other records.
  <2>2. o # p
    BY <1>2, <1>3 DEF StandsOpen, Serves
  <2>3. s # r
    BY <1>6, <2>1, <2>2 DEF SharingInv, PackagesDisjoint
  <2>4. share'[<<s, pack[o].to>>] = ShareOf(s, pack[o].to)
    BY <1>4, <2>1, <2>3 DEF ShareOf
  <2>5. ASSUME NEW a \in Requests, Serves(a, o), s \in request[a].todo
        PROVE  Serves(a, o)' /\ s \in request'[a].todo
    BY <1>5, <1>15, <2>3, <2>5
  <2> QED
    BY <2>4, <2>5 DEF SharingInv, GrantsStand
<1> QED
  BY <1>9, <1>10, <1>11, <1>13, <1>14, <1>16, <1>17, <1>18 DEF SharingInv

\* A new package: its records are no other package's unless they may overlap.
LEMMA CreateKeeps ==
  ASSUME SharingInv, env' = env, NEW q \in Requests, NEW p \in Packages,
         NEW S \in SUBSET Shareable, NEW u \in Guests, CreatePackage(q, p, S, u)
  PROVE  SharingInv'
<1>1. /\ Begins(q, p, "granting", S) /\ MaySend(p, S)
      /\ pack' = [pack EXCEPT ![p] = NewPackage(S, u)]
      /\ UNCHANGED <<share, shown, expired, repaid, receipt>>
  BY DEF CreatePackage
<1>2. /\ ~Working(q) /\ \A o \in Requests \ {q} : request'[o] = request[o]
      /\ request'[q] = [pc |-> "granting", pack |-> p, todo |-> S]
      /\ Working(q)' /\ ~Withdrawing(q)'
      /\ \A o \in Requests \ {q} : /\ Working(o)' = Working(o)
                                   /\ Withdrawing(o)' = Withdrawing(o)
      /\ "race" \notin env => \A o \in Requests : Working(o) => request[o].pack # p
      /\ request' \in [Requests -> {Idle} \cup Work]
  BY <1>1, Beginning DEF SharingInv
<1>3. /\ NewPackage(S, u) \in Sent /\ NewPackage(S, u) # NoPackage
      /\ NewPackage(S, u).status = "open" /\ NewPackage(S, u).deleted = FALSE
      /\ NewPackage(S, u).records = S /\ NewPackage(S, u).to = u
  <2>1. S \in (SUBSET Shareable) \ {{}}
    BY <1>1 DEF MaySend
  <2>2. NewPackage(S, u) \in Sent
    BY <2>1 DEF NewPackage, Sent
  <2> QED
    BY <2>2, Absent DEF NewPackage
<1>4. /\ pack[p] = NoPackage /\ pack'[p] = NewPackage(S, u)
      /\ \A o \in Packages \ {p} : pack'[o] = pack[o]
      /\ "overlap" \in env \/
           \A o \in Packages : pack[o] # NoPackage => pack[o].records \cap S = {}
  BY <1>1 DEF MaySend, SharingInv, SharingTypeOK
<1>5. SharingTypeOK'
  BY <1>1, <1>2, <1>3 DEF SharingInv, SharingTypeOK
<1>6. \A o \in Requests : Working(o) =>
        request[o].pack \in Packages /\ request[o].pack # p
  BY <1>4, Typed DEF SharingInv, RequestsWorkOnSent
<1>7. RequestsWorkOnSent'
  BY <1>2, <1>3, <1>4, <1>6 DEF SharingInv, RequestsWorkOnSent
<1>8. GrantsEndWithPackage' /\ PackagesOnlyLetView' /\ OnlyPackagesShare'
  BY <1>1, <1>3, <1>4, RowsStay
<1>9. \A o \in Requests : request[o].pc # "idle" => Working(o)
  BY Typed DEF SharingInv
<1>10. RequestsTakeTurns'
  BY <1>1, <1>2, <1>4, <1>6, <1>9
  DEF SharingInv, RequestsTakeTurns, Withdrawing, IsPaid, ShareOf
<1>11. GrantingIsOpen'
  BY <1>2, <1>3, <1>4, <1>6, <1>9
  DEF SharingInv, GrantingIsOpen, IsOpen, IsDeleted
\* The other packages are as they were.
<1>12. ASSUME NEW o \in Packages \ {p}
       PROVE  /\ StandsOpen(o)' = StandsOpen(o)
              /\ \A a \in Requests : Serves(a, o)' = Serves(a, o)
  BY <1>2, <1>4 DEF StandsOpen, Serves, IsOpen, IsDeleted
<1>13. GrantsAccountedFor'
  <2>1. ASSUME NEW o \in Packages, NEW r \in Shareable, NEW v \in Guests,
               AccountsFor(o, r, v)
        PROVE  AccountsFor(o, r, v)'
    <3>1. o # p
      BY <1>4, <2>1 DEF AccountsFor
    <3> QED
      BY <1>2, <1>4, <1>12, <2>1, <3>1 DEF AccountsFor, Serves
  <2> QED
    BY <1>1, <2>1 DEF SharingInv, GrantsAccountedFor, InEffect, ShareOf
<1>14. AllShown'
  BY <1>1 DEF SharingInv, AllShown
<1>15. PackagesDisjoint'
  BY <1>3, <1>4 DEF SharingInv, PackagesDisjoint
<1>16. GrantsStand'
  <2> SUFFICES ASSUME env \cap {"race", "crash", "overlap", "owner", "archive"} = {},
                      NEW o \in Packages, StandsOpen(o)', NEW r \in pack'[o].records
               PROVE  \/ /\ share'[<<r, pack'[o].to>>] # NotShared
                         /\ ~share'[<<r, pack'[o].to>>].revoked
                      \/ \E a \in Requests : Serves(a, o)' /\ r \in request'[a].todo
    BY DEF GrantsStand, ShareOf
  <2>1. CASE o = p
    BY <1>2, <1>3, <1>4, <2>1 DEF Serves
  <2>2. CASE o # p
    BY <1>1, <1>2, <1>4, <1>12, <2>2 DEF SharingInv, GrantsStand, Serves, ShareOf
  <2> QED
    BY <2>1, <2>2
<1>17. RefundUndoesSettlement'
  <2>1. \A o \in Packages : IsPaid(o)' = IsPaid(o)
    BY <1>3, <1>4 DEF IsPaid, NoPackage
  <2>2. \A o \in Packages : IsPaid(o) => pack'[o] = pack[o]
    BY <1>4 DEF IsPaid, NoPackage
  <2>3. UNION {pack'[o].records : o \in {k \in Packages : IsPaid(k)'}}
          = UNION {pack[o].records : o \in {k \in Packages : IsPaid(k)}}
    BY <2>1, <2>2
  <2> QED
    BY <1>1, <2>1, <2>3 DEF SharingInv, RefundUndoesSettlement
<1> QED
  BY <1>5, <1>7, <1>8, <1>10, <1>11, <1>13, <1>14, <1>15, <1>16, <1>17 DEF SharingInv

\* What a package lists to withdraw are its own reimbursement grants.
LEMMA Listed ==
  ASSUME SharingTypeOK, NEW p \in Packages, pack[p] # NoPackage
  PROVE  /\ pack[p] \in Sent /\ pack[p].to \in Guests
         /\ PackageGrants(p) \in SUBSET Shareable /\ PackageGrants(p) \subseteq pack[p].records
         /\ \A r \in PackageGrants(p) :
              /\ ShareOf(r, pack[p].to) # NotShared
              /\ ShareOf(r, pack[p].to).purpose = "reimbursement"
BY Typed DEF PackageGrants, Sent, InEffect

\* A settlement or a deletion begins: nothing but the request and the flags of
\* the package changes, and all its grants are listed.
LEMMA WithdrawalKeeps ==
  ASSUME SharingInv, env' = env, NEW q \in Requests, NEW p \in Packages,
         NEW pc \in {"revoking", "deleting"}, pack[p] # NoPackage,
         Begins(q, p, pc, PackageGrants(p)),
         UNCHANGED <<share, shown, expired>>, SharingTypeOK',
         pack' \in [Packages -> Sent \cup {NoPackage}],
         \A o \in Packages \ {p} : pack'[o] = pack[o],
         pack'[p] # NoPackage, pack'[p].records = pack[p].records, pack'[p].to = pack[p].to,
         pc = "revoking" \/ IsPaid(p) => IsPaid(p)'
  PROVE  /\ RequestsWorkOnSent' /\ GrantsEndWithPackage' /\ PackagesOnlyLetView'
         /\ RequestsTakeTurns' /\ GrantingIsOpen' /\ GrantsAccountedFor'
         /\ AllShown' /\ PackagesDisjoint' /\ OnlyPackagesShare' /\ GrantsStand'
<1>1. /\ pack[p] \in Sent /\ pack[p].to \in Guests
      /\ PackageGrants(p) \in SUBSET Shareable /\ PackageGrants(p) \subseteq pack[p].records
      /\ \A r \in PackageGrants(p) :
           /\ ShareOf(r, pack[p].to) # NotShared
           /\ ShareOf(r, pack[p].to).purpose = "reimbursement"
  BY Listed DEF SharingInv
<1>2. /\ ~Working(q) /\ \A o \in Requests \ {q} : request'[o] = request[o]
      /\ request'[q] = [pc |-> pc, pack |-> p, todo |-> PackageGrants(p)]
      /\ Working(q)' /\ Withdrawing(q)' = (pc # "granting")
      /\ \A o \in Requests \ {q} : /\ Working(o)' = Working(o)
                                   /\ Withdrawing(o)' = Withdrawing(o)
      /\ "race" \notin env => \A o \in Requests : Working(o) => request[o].pack # p
  <2>1. pc \in {"granting", "revoking", "deleting"}
    OBVIOUS
  <2> QED
    BY <1>1, <2>1, Beginning DEF SharingInv
<1>3. Withdrawing(q)'
  BY <1>2
<1>4. \A o \in Requests : /\ request[o].pc # "idle" => Working(o)
                          /\ Working(o) => request[o].pack \in Packages
  BY Typed DEF SharingInv
<1>5. RequestsWorkOnSent'
  BY <1>1, <1>2, <1>4 DEF SharingInv, RequestsWorkOnSent
<1>6. GrantsEndWithPackage' /\ PackagesOnlyLetView' /\ OnlyPackagesShare'
  BY RowsStay
<1>7. AllShown' /\ PackagesDisjoint'
  BY DEF SharingInv, AllShown, PackagesDisjoint
<1>8. RequestsTakeTurns'
  <2> SUFFICES ASSUME "race" \notin env PROVE RequestsTakeTurns'
    BY DEF RequestsTakeTurns
  <2>1. \A a, b \in Requests :
          Working(a)' /\ Working(b)' /\ request'[a].pack = request'[b].pack => a = b
    BY <1>2 DEF SharingInv, RequestsTakeTurns
  <2>2. \A o \in Requests : request'[o].pc = "revoking" => pack'[request'[o].pack].status = "paid"
    BY <1>2, <1>4 DEF SharingInv, RequestsTakeTurns, IsPaid
  <2>3. ASSUME NEW o \in Requests, Withdrawing(o)', NEW r \in request'[o].todo
        PROVE  /\ share'[<<r, pack'[request'[o].pack].to>>] # NotShared
               /\ share'[<<r, pack'[request'[o].pack].to>>].purpose = "reimbursement"
    <3>1. CASE o = q
      BY <1>1, <1>2, <3>1 DEF ShareOf
    <3>2. CASE o # q
      BY <1>2, <1>4, <2>3, <3>2 DEF SharingInv, RequestsTakeTurns, ShareOf, Withdrawing
    <3> QED
      BY <3>1, <3>2
  <2> QED
    BY <2>1, <2>2, <2>3 DEF RequestsTakeTurns, ShareOf, IsPaid
<1>9. GrantingIsOpen'
  BY <1>2, <1>4 DEF SharingInv, GrantingIsOpen, IsOpen, IsDeleted
<1>10. ASSUME NEW o \in Packages \ {p}
       PROVE  /\ StandsOpen(o)' = StandsOpen(o)
              /\ \A a \in Requests : Serves(a, o)' = Serves(a, o)
  BY <1>2 DEF StandsOpen, Serves, IsOpen, IsDeleted
<1>11. ~StandsOpen(p)'
  BY <1>2, <1>3 DEF StandsOpen, Serves
<1>12. GrantsAccountedFor'
  <2>1. ASSUME env \cap {"race", "crash", "late_refund"} = {},
               NEW o \in Packages, NEW r \in Shareable, NEW v \in Guests,
               AccountsFor(o, r, v), InEffect(ShareOf(r, v)),
               ShareOf(r, v).purpose = "reimbursement"
        PROVE  AccountsFor(o, r, v)'
    <3>1. CASE o = p
      <4>1. r \in PackageGrants(p)
        BY <2>1, <3>1 DEF AccountsFor, PackageGrants
      <4> QED
        BY <1>2, <1>3, <2>1, <3>1, <4>1 DEF AccountsFor, Serves
    <3>2. CASE o # p
      BY <1>2, <1>10, <2>1, <3>2 DEF AccountsFor, Serves
    <3> QED
      BY <3>1, <3>2
  <2> QED
    BY <2>1 DEF SharingInv, GrantsAccountedFor, InEffect, ShareOf
<1>13. GrantsStand'
  BY <1>2, <1>10, <1>11 DEF SharingInv, GrantsStand, Serves, ShareOf
<1> QED
  BY <1>5, <1>6, <1>7, <1>8, <1>9, <1>12, <1>13

\* A settlement marks the package's records and writes the payer's receipt.
LEMMA SettleKeeps ==
  ASSUME SharingInv, env' = env, NEW q \in Requests, NEW p \in Packages,
         SettlePackage(q, p)
  PROVE  SharingInv'
<1>1. /\ Begins(q, p, "revoking", PackageGrants(p)) /\ IsOpen(p)
      /\ pack' = [pack EXCEPT ![p].status = "paid"]
      /\ repaid' = repaid \cup (pack[p].records \cap shown)
      /\ receipt' = [receipt EXCEPT ![p] = "good"]
      /\ UNCHANGED <<share, shown, expired>>
  BY DEF SettlePackage
<1>2. pack[p] # NoPackage /\ pack[p] \in Sent
  BY <1>1, Typed DEF SharingInv
<1>3. /\ \A o \in Packages \ {p} : pack'[o] = pack[o]
      /\ pack'[p] \in Sent /\ pack'[p] # NoPackage /\ pack'[p].status = "paid"
      /\ pack'[p].records = pack[p].records /\ pack'[p].to = pack[p].to
  BY <1>1, <1>2, Absent DEF SharingInv, SharingTypeOK, Sent
<1>4. PackageGrants(p) \in SUBSET Shareable
  BY <1>2, Listed DEF SharingInv
<1>5. /\ request' \in [Requests -> {Idle} \cup Work]
      /\ pack' \in [Packages -> Sent \cup {NoPackage}]
  <2>1. request' \in [Requests -> {Idle} \cup Work]
    BY <1>1, <1>4, Beginning DEF SharingInv
  <2>2. pack' \in [Packages -> Sent \cup {NoPackage}]
    BY <1>1, <1>3 DEF SharingInv, SharingTypeOK
  <2> QED
    BY <2>1, <2>2
<1>6. SharingTypeOK'
  BY <1>1, <1>5 DEF SharingInv, SharingTypeOK
<1>7. IsPaid(p)' /\ ~IsPaid(p) /\ \A o \in Packages \ {p} : IsPaid(o)' = IsPaid(o)
  BY <1>1, <1>3 DEF IsPaid, IsOpen
<1>8. RefundUndoesSettlement'
  <2> SUFFICES ASSUME env \cap {"overlap", "archive", "same_title"} = {}
               PROVE  RefundUndoesSettlement'
    BY DEF RefundUndoesSettlement
  <2>1. pack[p].records \cap shown = pack[p].records
    BY <1>2 DEF SharingInv, AllShown, Sent
  <2>2. ASSUME NEW r
        PROVE  r \in repaid' <=>
                 \E o \in {k \in Packages : IsPaid(k)'} : r \in pack'[o].records
    <3>1. r \in repaid <=> \E o \in {k \in Packages : IsPaid(k)} : r \in pack[o].records
      BY UnionOfRecords DEF SharingInv, RefundUndoesSettlement
    <3> QED
      BY <1>1, <1>3, <1>7, <2>1, <3>1
  <2>3. \A o \in Packages : IsPaid(o)' <=> receipt'[o] = "good"
    BY <1>1, <1>7 DEF SharingInv, SharingTypeOK, RefundUndoesSettlement
  <2>4. repaid' = UNION {pack'[o].records : o \in {k \in Packages : IsPaid(k)'}}
    BY <2>2, UnionOfRecords
  <2> QED
    BY <2>3, <2>4 DEF RefundUndoesSettlement
<1>9. /\ RequestsWorkOnSent' /\ GrantsEndWithPackage' /\ PackagesOnlyLetView'
      /\ RequestsTakeTurns' /\ GrantingIsOpen' /\ GrantsAccountedFor'
      /\ AllShown' /\ PackagesDisjoint' /\ OnlyPackagesShare' /\ GrantsStand'
  BY <1>1, <1>2, <1>3, <1>5, <1>6, <1>7, WithdrawalKeeps
<1> QED
  BY <1>6, <1>8, <1>9 DEF SharingInv

\* A deletion lists the grants before it marks the package.
LEMMA DeleteKeeps ==
  ASSUME SharingInv, env' = env, NEW q \in Requests, NEW p \in Packages,
         DeletePackage(q, p)
  PROVE  SharingInv'
<1>1. /\ Begins(q, p, "deleting", PackageGrants(p)) /\ pack[p] # NoPackage
      /\ UNCHANGED <<share, shown, pack, expired, repaid, receipt>>
  BY DEF DeletePackage
<1>2. PackageGrants(p) \in SUBSET Shareable
  BY <1>1, Listed DEF SharingInv
<1>3. request' \in [Requests -> {Idle} \cup Work]
  BY <1>1, <1>2, Beginning DEF SharingInv
<1>4. SharingTypeOK'
  BY <1>1, <1>3 DEF SharingInv, SharingTypeOK
<1>5. RefundUndoesSettlement'
  BY <1>1 DEF SharingInv, RefundUndoesSettlement, IsPaid
<1>6. pack \in [Packages -> Sent \cup {NoPackage}] /\ (IsPaid(p) => IsPaid(p)')
  BY <1>1 DEF SharingInv, SharingTypeOK, IsPaid
<1>7. /\ RequestsWorkOnSent' /\ GrantsEndWithPackage' /\ PackagesOnlyLetView'
      /\ RequestsTakeTurns' /\ GrantingIsOpen' /\ GrantsAccountedFor'
      /\ AllShown' /\ PackagesDisjoint' /\ OnlyPackagesShare' /\ GrantsStand'
  BY <1>1, <1>4, <1>6, WithdrawalKeeps
<1> QED
  BY <1>4, <1>5, <1>7 DEF SharingInv

\* A refund opens the package again, and grants its records anew.
LEMMA RefundKeeps ==
  ASSUME SharingInv, env' = env, NEW q \in Requests, NEW p \in Packages,
         RefundPackage(q, p)
  PROVE  SharingInv'
<1> DEFINE S == pack[p].records \cap shown
<1>1. /\ Begins(q, p, "granting", S) /\ IsPaid(p)
      /\ "late_refund" \in env \/ ~IsDeleted(p)
      /\ pack' = [pack EXCEPT ![p].status = "open"]
      /\ repaid' = repaid \ S
      /\ receipt' = [o \in Packages |-> IF o \in Struck(p) THEN "struck" ELSE receipt[o]]
      /\ UNCHANGED <<share, shown, expired>>
  BY DEF RefundPackage
<1>2. pack[p] # NoPackage /\ pack[p] \in Sent
  BY <1>1, Typed DEF SharingInv
<1>3. S \in SUBSET Shareable
  BY <1>2 DEF Sent
<1> HIDE DEF S
<1>4. /\ \A o \in Packages \ {p} : pack'[o] = pack[o]
      /\ pack'[p] \in Sent /\ pack'[p] # NoPackage /\ pack'[p].status = "open"
      /\ pack'[p].records = pack[p].records /\ pack'[p].to = pack[p].to
      /\ pack'[p].deleted = pack[p].deleted
  <2>1. /\ \A o \in Packages \ {p} : pack'[o] = pack[o]
        /\ pack'[p] = [pack[p] EXCEPT !.status = "open"]
    BY <1>1 DEF SharingInv, SharingTypeOK
  <2> QED
    BY <1>2, <2>1, Absent DEF Sent
<1>5. /\ ~Working(q) /\ \A o \in Requests \ {q} : request'[o] = request[o]
      /\ request'[q] = [pc |-> "granting", pack |-> p, todo |-> S]
      /\ Working(q)' /\ ~Withdrawing(q)'
      /\ \A o \in Requests \ {q} : /\ Working(o)' = Working(o)
                                   /\ Withdrawing(o)' = Withdrawing(o)
      /\ "race" \notin env => \A o \in Requests : Working(o) => request[o].pack # p
      /\ request' \in [Requests -> {Idle} \cup Work]
  BY <1>1, <1>3, Beginning DEF SharingInv
<1>6. SharingTypeOK'
  <2>1. pack' \in [Packages -> Sent \cup {NoPackage}]
    BY <1>1, <1>4 DEF SharingInv, SharingTypeOK
  <2> QED
    BY <1>1, <1>5, <2>1 DEF SharingInv, SharingTypeOK
<1>7. \A o \in Requests : /\ request[o].pc # "idle" => Working(o)
                          /\ Working(o) => request[o].pack \in Packages
  BY Typed DEF SharingInv
<1>8. RequestsWorkOnSent'
  BY <1>4, <1>5, <1>7 DEF SharingInv, RequestsWorkOnSent, S
<1>9. GrantsEndWithPackage' /\ PackagesOnlyLetView' /\ OnlyPackagesShare'
  BY <1>1, <1>4, RowsStay
<1>10. AllShown' /\ PackagesDisjoint'
  BY <1>1, <1>2, <1>4 DEF SharingInv, AllShown, PackagesDisjoint
<1>11. RequestsTakeTurns'
  <2>1. ASSUME "race" \notin env
        PROVE  /\ \A a, b \in Requests :
                    Working(a)' /\ Working(b)' /\ request'[a].pack = request'[b].pack
                      => a = b
               /\ \A o \in Requests : request'[o].pc = "revoking" =>
                    pack'[request'[o].pack].status = "paid"
    BY <1>4, <1>5, <1>7, <2>1 DEF SharingInv, RequestsTakeTurns, IsPaid
  <2>2. ASSUME "race" \notin env, NEW o \in Requests, Withdrawing(o)',
               NEW r \in request'[o].todo
        PROVE  /\ share'[<<r, pack'[request'[o].pack].to>>] # NotShared
               /\ share'[<<r, pack'[request'[o].pack].to>>].purpose = "reimbursement"
    BY <1>1, <1>4, <1>5, <1>7, <2>2
    DEF SharingInv, RequestsTakeTurns, ShareOf, Withdrawing
  <2> QED
    BY <2>1, <2>2 DEF RequestsTakeTurns, ShareOf, IsPaid
<1>12. GrantingIsOpen'
  <2>1. ~IsDeleted(p) => ~pack'[p].deleted
    BY <1>2, <1>4 DEF IsDeleted
  <2> QED
    BY <1>1, <1>4, <1>5, <1>7, <2>1
    DEF SharingInv, GrantingIsOpen, IsOpen, IsDeleted
<1>13. ASSUME NEW o \in Packages \ {p}
       PROVE  /\ StandsOpen(o)' = StandsOpen(o)
              /\ \A a \in Requests : Serves(a, o)' = Serves(a, o)
  BY <1>4, <1>5 DEF StandsOpen, Serves, IsOpen, IsDeleted
<1>14. GrantsAccountedFor'
  <2>1. ASSUME "race" \notin env,
               NEW o \in Packages, NEW r \in Shareable, NEW v \in Guests,
               AccountsFor(o, r, v)
        PROVE  AccountsFor(o, r, v)'
    <3>1. o # p
      <4>1. ~StandsOpen(p)
        BY <1>1 DEF StandsOpen, IsOpen, IsPaid
      <4> QED
        BY <1>5, <2>1, <4>1 DEF AccountsFor, Serves
    <3> QED
      BY <1>4, <1>5, <1>13, <2>1, <3>1 DEF AccountsFor, Serves
  <2> QED
    BY <1>1, <2>1 DEF SharingInv, GrantsAccountedFor, InEffect, ShareOf
<1>15. GrantsStand'
  <2> SUFFICES ASSUME env \cap {"race", "crash", "overlap", "owner", "archive"} = {},
                      NEW o \in Packages, StandsOpen(o)', NEW r \in pack'[o].records
               PROVE  \/ /\ share'[<<r, pack'[o].to>>] # NotShared
                         /\ ~share'[<<r, pack'[o].to>>].revoked
                      \/ \E a \in Requests : Serves(a, o)' /\ r \in request'[a].todo
    BY DEF GrantsStand, ShareOf
  <2>1. CASE o = p
    <3>1. S = pack[p].records
      BY <1>2 DEF SharingInv, AllShown, Sent, S
    <3> QED
      BY <1>4, <1>5, <2>1, <3>1 DEF Serves
  <2>2. CASE o # p
    BY <1>1, <1>4, <1>5, <1>13, <2>2 DEF SharingInv, GrantsStand, Serves, ShareOf
  <2> QED
    BY <2>1, <2>2
<1>16. RefundUndoesSettlement'
  <2> SUFFICES ASSUME env \cap {"overlap", "archive", "same_title"} = {}
               PROVE  RefundUndoesSettlement'
    BY DEF RefundUndoesSettlement
  <2>1. S = pack[p].records
    BY <1>2 DEF SharingInv, AllShown, Sent, S
  <2>2. ~IsPaid(p)' /\ \A o \in Packages \ {p} : IsPaid(o)' = IsPaid(o)
    BY <1>4 DEF IsPaid
  <2>3. ASSUME NEW r
        PROVE  r \in repaid' <=>
                 \E o \in {k \in Packages : IsPaid(k)'} : r \in pack'[o].records
    <3>1. r \in repaid <=> \E o \in {k \in Packages : IsPaid(k)} : r \in pack[o].records
      BY UnionOfRecords DEF SharingInv, RefundUndoesSettlement
    <3>2. ASSUME NEW o \in Packages \ {p}, IsPaid(o), r \in pack[o].records
          PROVE  r \notin S
      BY <1>2, <2>1, <3>2, Typed DEF SharingInv, PackagesDisjoint
    <3> QED
      BY <1>1, <1>4, <2>1, <2>2, <3>1, <3>2
  <2>4. repaid' = UNION {pack'[o].records : o \in {k \in Packages : IsPaid(k)'}}
    BY <2>3, UnionOfRecords
  <2>5. Struck(p) = {p}
    BY <1>1 DEF SharingInv, RefundUndoesSettlement, Struck
  <2>6. \A o \in Packages : IsPaid(o)' <=> receipt'[o] = "good"
    BY <1>1, <2>2, <2>5 DEF SharingInv, RefundUndoesSettlement
  <2> QED
    BY <2>4, <2>6 DEF RefundUndoesSettlement
<1> QED
  BY <1>6, <1>8, <1>9, <1>10, <1>11, <1>12, <1>14, <1>15, <1>16 DEF SharingInv

\* A request ends, its work done or abandoned.
LEMMA EndKeeps ==
  ASSUME SharingInv, env' = env, NEW q \in Requests,
         EndRequest(q) \/ AbortRequest(q)
  PROVE  SharingInv'
<1>1. /\ Working(q) /\ Now(q, Idle)
      /\ "crash" \in env \/ request[q].todo = {}
      /\ UNCHANGED <<share, shown, expired, repaid, receipt>>
  BY DEF EndRequest, AbortRequest, Working
<1>2. PICK p \in Packages : p = request[q].pack
  BY <1>1, Typed DEF SharingInv
<1>3. pack[p] # NoPackage /\ pack[p] \in Sent
  BY <1>1, <1>2, Typed DEF SharingInv, RequestsWorkOnSent
\* Only a deletion that is done writes, and then just the mark.
<1>4. /\ \A o \in Packages \ {p} : pack'[o] = pack[o]
      /\ pack'[p] \in Sent /\ pack'[p] # NoPackage /\ pack'[p].status = pack[p].status
      /\ pack'[p].records = pack[p].records /\ pack'[p].to = pack[p].to
      /\ request[q].pc = "deleting" \/ pack'[p] = pack[p]
      /\ pack[p].deleted => pack'[p].deleted
      /\ "crash" \in env \/ request[q].pc # "deleting" \/ pack'[p].deleted
      /\ pack' \in [Packages -> Sent \cup {NoPackage}]
  <2>1. CASE pack' = pack /\ ("crash" \in env \/ request[q].pc # "deleting")
    BY <1>3, <2>1 DEF SharingInv, SharingTypeOK
  <2>2. CASE request[q].pc = "deleting" /\ pack' = [pack EXCEPT ![p].deleted = TRUE]
    <3>1. /\ pack'[p] = [pack[p] EXCEPT !.deleted = TRUE]
          /\ \A o \in Packages \ {p} : pack'[o] = pack[o]
      BY <2>2 DEF SharingInv, SharingTypeOK
    <3>2. pack'[p] \in Sent
      BY <1>3, <3>1 DEF Sent
    <3>3. pack'[p].deleted
      BY <1>3, <3>1 DEF Sent
    <3>4. /\ pack'[p].status = pack[p].status
          /\ pack'[p].records = pack[p].records /\ pack'[p].to = pack[p].to
      BY <1>3, <3>1 DEF Sent
    <3>5. pack' \in [Packages -> Sent \cup {NoPackage}]
      BY <2>2, <3>1, <3>2 DEF SharingInv, SharingTypeOK
    <3> QED
      BY <2>2, <3>1, <3>2, <3>3, <3>4, <3>5, Absent
  <2> QED
    BY <1>2, <2>1, <2>2 DEF EndRequest, AbortRequest
<1>5. /\ \A o \in Requests \ {q} : request'[o] = request[o]
      /\ request'[q].pc = "idle" /\ ~Working(q)' /\ ~Withdrawing(q)'
      /\ \A o \in Requests \ {q} : /\ Working(o)' = Working(o)
                                   /\ Withdrawing(o)' = Withdrawing(o)
      /\ request' \in [Requests -> {Idle} \cup Work]
  BY <1>1, Ending DEF SharingInv
<1>6. SharingTypeOK'
  BY <1>1, <1>4, <1>5 DEF SharingInv, SharingTypeOK
<1>7. \A o \in Requests : /\ request[o].pc # "idle" => Working(o)
                          /\ Working(o) => request[o].pack \in Packages
  BY Typed DEF SharingInv
<1>8. RequestsWorkOnSent'
  BY <1>4, <1>5, <1>7 DEF SharingInv, RequestsWorkOnSent
<1>9. GrantsEndWithPackage' /\ PackagesOnlyLetView' /\ OnlyPackagesShare'
  BY <1>1, <1>4, RowsStay
<1>10. AllShown' /\ PackagesDisjoint'
  BY <1>1, <1>3, <1>4 DEF SharingInv, AllShown, PackagesDisjoint
<1>11. RequestsTakeTurns'
  <2>1. ASSUME "race" \notin env
        PROVE  /\ \A a, b \in Requests :
                    Working(a)' /\ Working(b)' /\ request'[a].pack = request'[b].pack
                      => a = b
               /\ \A o \in Requests : request'[o].pc = "revoking" =>
                    pack'[request'[o].pack].status = "paid"
    BY <1>4, <1>5, <1>7, <2>1 DEF SharingInv, RequestsTakeTurns, IsPaid
  <2>2. ASSUME "race" \notin env, NEW o \in Requests, Withdrawing(o)',
               NEW r \in request'[o].todo
        PROVE  /\ share'[<<r, pack'[request'[o].pack].to>>] # NotShared
               /\ share'[<<r, pack'[request'[o].pack].to>>].purpose = "reimbursement"
    BY <1>1, <1>4, <1>5, <1>7, <2>2
    DEF SharingInv, RequestsTakeTurns, ShareOf, Withdrawing
  <2> QED
    BY <2>1, <2>2 DEF RequestsTakeTurns, ShareOf, IsPaid
\* Nobody grants a package that somebody deletes.
<1>12. GrantingIsOpen'
  <2> SUFFICES ASSUME env \cap {"race", "late_refund"} = {}, NEW o \in Requests,
                      request'[o].pc = "granting"
               PROVE  /\ pack'[request'[o].pack].status = "open"
                      /\ ~(pack'[request'[o].pack] # NoPackage
                           /\ pack'[request'[o].pack].deleted)
    BY DEF GrantingIsOpen, IsOpen, IsDeleted
  <2>1. o # q /\ request'[o] = request[o] /\ request[o].pc = "granting" /\ Working(o)
    BY <1>5, <1>7
  <2>2. request[o].pack # p
    BY <1>1, <1>2, <2>1 DEF SharingInv, RequestsTakeTurns
  <2> QED
    BY <1>4, <1>7, <2>1, <2>2 DEF SharingInv, GrantingIsOpen, IsOpen, IsDeleted
<1>13. ASSUME NEW o \in Packages \ {p}
       PROVE  /\ StandsOpen(o)' = StandsOpen(o)
              /\ \A a \in Requests : Serves(a, o)' = Serves(a, o)
  BY <1>2, <1>4, <1>5 DEF StandsOpen, Serves, IsOpen, IsDeleted
<1>14. ASSUME StandsOpen(p)', env \cap {"race", "crash"} = {}
       PROVE  StandsOpen(p)
  <2>1. request[q].pc # "deleting"
    BY <1>4, <1>14 DEF StandsOpen, IsDeleted
  <2>2. request[q].pc # "revoking"
    BY <1>2, <1>4, <1>14 DEF SharingInv, RequestsTakeTurns, StandsOpen, IsOpen, IsPaid
  <2> QED
    BY <1>2, <1>4, <1>5, <1>14, <2>1, <2>2
    DEF StandsOpen, IsOpen, IsDeleted, Serves, Withdrawing
<1>15. ASSUME StandsOpen(p), env \cap {"race", "crash"} = {}
       PROVE  StandsOpen(p)'
  <2>1. request[q].pc # "deleting"
    BY <1>1, <1>2, <1>15 DEF StandsOpen, Serves, Withdrawing
  <2> QED
    BY <1>4, <1>5, <1>15, <2>1 DEF StandsOpen, IsOpen, IsDeleted, Serves
<1>16. GrantsAccountedFor'
  <2>1. ASSUME env \cap {"race", "crash"} = {},
               NEW o \in Packages, NEW r \in Shareable, NEW v \in Guests,
               AccountsFor(o, r, v)
        PROVE  AccountsFor(o, r, v)'
    <3>1. /\ pack'[o] # NoPackage /\ pack'[o].records = pack[o].records
          /\ pack'[o].to = pack[o].to
      BY <1>4, <2>1 DEF AccountsFor
    <3>2. CASE StandsOpen(o)
      BY <1>13, <1>15, <2>1, <3>1, <3>2 DEF AccountsFor
    <3>3. ASSUME NEW a \in Requests, Serves(a, o), Withdrawing(a), r \in request[a].todo
          PROVE  Serves(a, o)' /\ Withdrawing(a)' /\ r \in request'[a].todo
      BY <1>1, <1>5, <2>1, <3>3 DEF Serves
    <3> QED
      BY <2>1, <3>1, <3>2, <3>3 DEF AccountsFor
  <2> QED
    BY <1>1, <2>1 DEF SharingInv, GrantsAccountedFor, InEffect, ShareOf
<1>17. GrantsStand'
  <2> SUFFICES ASSUME env \cap {"race", "crash", "overlap", "owner", "archive"} = {},
                      NEW o \in Packages, StandsOpen(o)', NEW r \in pack'[o].records
               PROVE  \/ /\ share'[<<r, pack'[o].to>>] # NotShared
                         /\ ~share'[<<r, pack'[o].to>>].revoked
                      \/ \E a \in Requests : Serves(a, o)' /\ r \in request'[a].todo
    BY DEF GrantsStand, ShareOf
  <2>1. StandsOpen(o)
    BY <1>13, <1>14
  <2>2. pack'[o].records = pack[o].records /\ pack'[o].to = pack[o].to
    BY <1>4
  <2>3. ASSUME NEW a \in Requests, Serves(a, o), r \in request[a].todo
        PROVE  Serves(a, o)' /\ r \in request'[a].todo
    BY <1>1, <1>5, <2>3 DEF Serves
  <2> QED
    BY <1>1, <2>1, <2>2, <2>3 DEF SharingInv, GrantsStand, ShareOf
<1>18. RefundUndoesSettlement'
  <2>1. /\ \A o \in Packages : IsPaid(o)' = IsPaid(o)
        /\ \A o \in Packages : pack'[o].records = pack[o].records
    BY <1>4 DEF IsPaid
  <2> QED
    BY <1>1, <2>1 DEF SharingInv, RefundUndoesSettlement
<1> QED
  BY <1>6, <1>8, <1>9, <1>10, <1>11, <1>12, <1>16, <1>17, <1>18 DEF SharingInv

\* A package passes its expiry date, or the owner archives or restores a record.
LEMMA RestKeeps ==
  ASSUME SharingInv, env' = env,
         (\E p \in Packages : PackageExpires(p)) \/ \E r \in Shareable : ToggleRecord(r)
  PROVE  SharingInv'
<1>1. /\ UNCHANGED <<share, pack, repaid, receipt, request>>
      /\ expired' \subseteq Packages /\ expired \subseteq expired'
      /\ shown' \subseteq Shareable /\ (shown' = shown \/ "archive" \in env)
  BY DEF PackageExpires, ToggleRecord, SharingInv, SharingTypeOK
<1>2. SharingTypeOK'
  BY <1>1 DEF SharingInv, SharingTypeOK
<1>3. \A s \in Shareable, v \in Guests :
        /\ ShareOf(s, v)' = ShareOf(s, v)
        /\ InEffect(ShareOf(s, v))' => InEffect(ShareOf(s, v))
  BY <1>1 DEF ShareOf, InEffect
<1>4. /\ RequestsWorkOnSent' /\ GrantingIsOpen' /\ PackagesDisjoint'
      /\ RefundUndoesSettlement' /\ AllShown' /\ RequestsTakeTurns'
  BY <1>1 DEF SharingInv, RequestsWorkOnSent, GrantingIsOpen, PackagesDisjoint, AllShown,
     RefundUndoesSettlement, RequestsTakeTurns, Working, Withdrawing, IsOpen, IsPaid,
     IsDeleted, ShareOf
<1>5. GrantsEndWithPackage' /\ PackagesOnlyLetView' /\ OnlyPackagesShare'
  BY <1>1, RowsStay
<1>6. GrantsAccountedFor'
  BY <1>1, <1>3 DEF SharingInv, GrantsAccountedFor, AccountsFor, StandsOpen, Serves,
     Working, Withdrawing, IsOpen, IsDeleted
<1>7. GrantsStand'
  BY <1>1 DEF SharingInv, GrantsStand, StandsOpen, Serves, Working, Withdrawing, IsOpen,
     IsDeleted, ShareOf
<1> QED
  BY <1>2, <1>4, <1>5, <1>6, <1>7 DEF SharingInv

\* No step breaks the invariant.
LEMMA SharingNext_Inv ==
  ASSUME SharingInv, [SharingNext /\ UNCHANGED env]_<<env, shareVars>>
  PROVE  SharingInv'
<1>1. CASE UNCHANGED <<env, shareVars>>
  BY <1>1 DEF shareVars, SharingInv, SharingTypeOK, RequestsWorkOnSent,
     GrantsEndWithPackage, PackagesOnlyLetView, RequestsTakeTurns, GrantingIsOpen,
     GrantsAccountedFor, AllShown, PackagesDisjoint, OnlyPackagesShare, GrantsStand,
     RefundUndoesSettlement, AccountsFor, StandsOpen, Serves, Working, Withdrawing,
     IsOpen, IsPaid, IsDeleted, InEffect, ShareOf
<1>2. CASE SharingNext /\ env' = env
  <2>1. ASSUME NEW q \in Requests, RequestStep(q) \/ AbortRequest(q)
        PROVE  SharingInv'
    BY <1>2, <2>1, GrantKeeps, RevokeKeeps, EndKeeps DEF RequestStep
  <2>2. ASSUME NEW q \in Requests, NEW p \in Packages,
               SettlePackage(q, p) \/ RefundPackage(q, p) \/ DeletePackage(q, p)
        PROVE  SharingInv'
    BY <1>2, <2>2, SettleKeeps, RefundKeeps, DeleteKeeps
  <2>3. ASSUME NEW S \in SUBSET Shareable, NEW u \in Guests, NEW q \in Requests,
               NEW p \in Packages, CreatePackage(q, p, S, u)
        PROVE  SharingInv'
    BY <1>2, <2>3, CreateKeeps
  <2>4. ASSUME NEW S \in SUBSET Shareable, NEW u \in Guests, BulkShare(S, u)
        PROVE  SharingInv'
    BY <1>2, <2>4, OwnerKeeps
  <2>5. ASSUME NEW r \in Shareable, NEW u \in Guests, ShareRecord(r, u) \/ RevokeShare(r, u)
        PROVE  SharingInv'
    BY <1>2, <2>5, OwnerKeeps
  <2>6. ASSUME NEW r \in Shareable, ToggleRecord(r) PROVE SharingInv'
    BY <1>2, <2>6, RestKeeps
  <2>7. ASSUME NEW p \in Packages, PackageExpires(p) PROVE SharingInv'
    BY <1>2, <2>7, RestKeeps
  <2> QED
    BY <1>2, <2>1, <2>2, <2>3, <2>4, <2>5, <2>6, <2>7 DEF SharingNext
<1> QED
  BY <1>1, <1>2

-----------------------------------------------------------------------------
(* The theorems.                                                           *)

\* The invariant holds in every state, for any records, users, packages and
\* any number of requests.
THEOREM SharingInvariant == SharingSpec => []SharingInv
<1>1. SharingInit => SharingInv
  BY InitSharing
<1>2. SharingInv /\ [SharingNext /\ UNCHANGED env]_<<env, shareVars>> => SharingInv'
  BY SharingNext_Inv
<1> QED
  BY <1>1, <1>2, PTL DEF SharingSpec

\* share_record_with_users, _grant_package_access, revoke_share, mark_as_paid,
\* mark_as_refunded and delete_package write rows of the types the models give.
THEOREM SharingTyped == SharingSpec => []SharingTypeOK
<1>1. SharingInv => SharingTypeOK
  BY DEF SharingInv
<1> QED
  BY <1>1, SharingInvariant, PTL

\* Whatever requests race or crash, a package grants its recipient no more than
\* to look at its own records, and no longer than it lasts.
THEOREM PackagesOnlyLetViewAlways == SharingSpec => []PackagesOnlyLetView
<1>1. SharingInv => PackagesOnlyLetView
  BY DEF SharingInv
<1> QED
  BY <1>1, SharingInvariant, PTL

\* Where requests on one package take turns and end, a grant in effect belongs
\* to an open package or to one whose request is at work.
THEOREM GrantHasReasonAlways == SharingSpec => []GrantHasReason
<1>1. SharingInv => GrantHasReason
  <2>1. ASSUME NEW p \in Packages, NEW r \in Shareable, NEW u \in Guests,
               AccountsFor(p, r, u)
        PROVE  /\ pack[p] # NoPackage /\ r \in pack[p].records /\ u = pack[p].to
               /\ (IsOpen(p) /\ ~IsDeleted(p)) \/ InHand(p)
    BY <2>1 DEF AccountsFor, StandsOpen, Serves, Working, InHand
  <2> QED
    BY <2>1 DEF SharingInv, GrantsAccountedFor, GrantHasReason
<1> QED
  BY <1>1, SharingInvariant, PTL

\* The recipient of an open package sees its records with their documents, how
\* often it was settled and refunded before.
THEOREM OpenShowsDocumentsAlways == SharingSpec => []OpenShowsDocuments
<1>1. SharingInv => OpenShowsDocuments
  <2> SUFFICES ASSUME SharingInv,
                      env \cap {"race", "crash", "overlap", "owner", "archive"} = {},
                      NEW p \in Packages \ expired, IsOpen(p), ~IsDeleted(p), ~InHand(p),
                      NEW r \in pack[p].records
               PROVE  r \in SharedWithMe(pack[p].to) \cap DocumentVisible(pack[p].to)
    BY DEF OpenShowsDocuments
  <2>1. /\ pack[p] # NoPackage /\ r \in Shareable /\ pack[p].to \in Guests
    BY Typed DEF SharingInv, Sent
  <2>2. \A q \in Requests : ~Serves(q, p)
    BY DEF InHand, Serves, Working
  <2>3. ShareOf(r, pack[p].to) # NotShared /\ ~ShareOf(r, pack[p].to).revoked
    BY <2>2 DEF SharingInv, GrantsStand, StandsOpen
  <2>4. /\ ShareOf(r, pack[p].to).purpose = "reimbursement"
        /\ ShareOf(r, pack[p].to).documents
    BY <2>1, <2>3 DEF SharingInv, OnlyPackagesShare
  <2>5. ShareOf(r, pack[p].to).expires = p
    BY <2>1, <2>3, <2>4
    DEF SharingInv, GrantsEndWithPackage, PackagesOnlyLetView, PackagesDisjoint
  <2>6. r \in shown
    BY <2>1 DEF SharingInv, AllShown
  <2> QED
    BY <2>3, <2>4, <2>5, <2>6 DEF SharedWithMe, DocumentVisible, InEffect
<1> QED
  BY <1>1, SharingInvariant, PTL

\* A refund takes back the flags and the receipt its settlement wrote, and
\* nothing of another package.
THEOREM RefundUndoesSettlementAlways == SharingSpec => []RefundUndoesSettlement
<1>1. SharingInv => RefundUndoesSettlement
  BY DEF SharingInv
<1> QED
  BY <1>1, SharingInvariant, PTL

\* A package never touches what the owner shared and did not revoke.
THEOREM OwnerShareSurvivesAlways == SharingSpec => OwnerShareSurvives
<1> DEFINE Kept ==
      \A r \in Shareable, u \in Guests :
        InEffect(ShareOf(r, u)) /\ ShareOf(r, u).purpose = "" /\ "race" \notin env
          => ShareOf(r, u)' = ShareOf(r, u) \/ RevokeShare(r, u)
<1>1. ASSUME SharingInv, [SharingNext /\ UNCHANGED env]_<<env, shareVars>>
      PROVE  [Kept]_shareVars
  <2> SUFFICES ASSUME SharingNext, NEW r \in Shareable, NEW u \in Guests,
                      InEffect(ShareOf(r, u)), ShareOf(r, u).purpose = "",
                      "race" \notin env
               PROVE  ShareOf(r, u)' = ShareOf(r, u) \/ RevokeShare(r, u)
    BY <1>1 DEF shareVars
  <2> HIDE DEF Kept
  <2>1. ASSUME NEW S \in SUBSET Shareable, NEW s, NEW v \in Guests,
               (s \in Shareable /\ (ShareRecord(s, v) \/ RevokeShare(s, v))) \/ BulkShare(S, v)
        PROVE  ShareOf(r, u)' = ShareOf(r, u) \/ RevokeShare(r, u)
    <3>1. CASE RevokeShare(s, v) /\ s = r /\ v = u
      BY <3>1 DEF RevokeShare, Revoke
    <3>2. CASE s \in Shareable /\ RevokeShare(s, v) /\ ~(s = r /\ v = u)
      BY <1>1, <3>2 DEF RevokeShare, Revoke, ShareOf, SharingInv, SharingTypeOK
    <3>3. CASE ShareRecord(s, v)
      BY <3>3 DEF ShareRecord, ShareWithUsers, ShareOf
    <3>4. CASE BulkShare(S, v)
      BY <3>4 DEF BulkShare, ShareWithUsers, ShareOf
    <3> QED
      BY <2>1, <3>1, <3>2, <3>3, <3>4
  <2>2. ASSUME NEW q \in Requests, GrantNext(q)
        PROVE  ShareOf(r, u)' = ShareOf(r, u)
    BY <1>1, <2>2, GrantRows DEF SharingInv, ShareOf
  <2>3. ASSUME NEW q \in Requests, RevokeNext(q)
        PROVE  ShareOf(r, u)' = ShareOf(r, u)
    <3>1. PICK s \in request[q].todo : \A v \in Guests :
            <<r, v>> # <<s, pack[request[q].pack].to>> => ShareOf(r, v)' = ShareOf(r, v)
      BY <1>1, <2>3, RevokeRows DEF SharingInv
    <3>2. ShareOf(s, pack[request[q].pack].to).purpose = "reimbursement"
      BY <1>1, <2>3, <3>1, RevokeRows DEF SharingInv, RequestsTakeTurns
    <3> QED
      BY <3>1, <3>2
  <2>4. ASSUME NEW q \in Requests, RequestStep(q) \/ AbortRequest(q)
        PROVE  ShareOf(r, u)' = ShareOf(r, u)
    BY <2>2, <2>3, <2>4 DEF RequestStep, EndRequest, AbortRequest, ShareOf
  <2>5. ASSUME NEW p \in Packages,
               \/ PackageExpires(p)
               \/ \E q \in Requests : \/ SettlePackage(q, p) \/ RefundPackage(q, p)
                                      \/ DeletePackage(q, p)
        PROVE  ShareOf(r, u)' = ShareOf(r, u)
    BY <2>5 DEF PackageExpires, SettlePackage, RefundPackage, DeletePackage, ShareOf
  <2>6. ASSUME NEW S \in SUBSET Shareable, NEW v \in Guests,
               \E q \in Requests, p \in Packages : CreatePackage(q, p, S, v)
        PROVE  ShareOf(r, u)' = ShareOf(r, u)
    BY <2>6 DEF CreatePackage, ShareOf
  <2>7. ASSUME NEW s \in Shareable, ToggleRecord(s)
        PROVE  ShareOf(r, u)' = ShareOf(r, u)
    BY <2>7 DEF ToggleRecord, ShareOf
  <2> QED
    BY <2>1, <2>4, <2>5, <2>6, <2>7 DEF SharingNext
<1>2. SharingSpec => [][Kept]_shareVars
  BY <1>1, SharingInvariant, PTL DEF SharingSpec
<1> QED
  BY <1>2 DEF OwnerShareSurvives

=============================================================================
