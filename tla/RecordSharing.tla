---------------------------- MODULE RecordSharing ----------------------------
(***************************************************************************)
(* Who may see a record of another user: the one RecordShare row per record*)
(* and user, written by the owner and by reimbursement packages, and what  *)
(* a package's life does to the grants, to the reimbursed flags and to the *)
(* payer's receipts.  A package grants and revokes record by record, each  *)
(* in a transaction of its own.                                            *)
(***************************************************************************)
EXTENDS Naturals, FiniteSets, Scenarios

CONSTANTS
  Shareable,     \* records of one owner
  Guests,        \* registered users other than the owner
  Packages,
  Requests       \* requests and workers

\* The words of a scenario: owner, package, refund, delete, overlap, archive,
\* same_title, late_refund, crash, race.

VARIABLES
  share,      \* RecordShare by record and user
  shown,      \* records with is_active
  pack,       \* ReimbursementPackage
  expired,    \* packages past expires_at
  repaid,     \* records with reimbursed
  receipt,    \* the payer's record of each package
  request     \* what each request still has to do

shareVars == <<share, shown, pack, expired, repaid, receipt, request>>

NotShared == [permission |-> "none"]
Never == "never"
ASSUME NeverOK == Never \notin Packages
Grants == [permission : {"view", "edit"}, purpose : {"", "reimbursement"},
           documents : BOOLEAN, expires : Packages \cup {Never},
           revoked : BOOLEAN]
NoPackage == [status |-> "absent"]
Sent == [status : {"open", "paid"}, records : (SUBSET Shareable) \ {{}},
         to : Guests, deleted : BOOLEAN]
Idle == [pc |-> "idle"]
Work == [pc : {"granting", "revoking", "deleting"}, pack : Packages,
         todo : SUBSET Shareable]

SharingTypeOK ==
  /\ share \in [Shareable \X Guests -> Grants \cup {NotShared}]
  /\ shown \subseteq Shareable /\ repaid \subseteq Shareable
  /\ pack \in [Packages -> Sent \cup {NoPackage}]
  /\ expired \subseteq Packages
  /\ receipt \in [Packages -> {"none", "good", "struck"}]
  /\ request \in [Requests -> {Idle} \cup Work]

SharingInit ==
  /\ share = [x \in Shareable \X Guests |-> NotShared]
  /\ shown = Shareable /\ expired = {} /\ repaid = {}
  /\ pack = [p \in Packages |-> NoPackage]
  /\ receipt = [p \in Packages |-> "none"]
  /\ request = [q \in Requests |-> Idle]

-----------------------------------------------------------------------------
(* What a share row allows.                                                *)

ShareOf(r, u) == share[<<r, u>>]

\* RecordShare.is_active, active_for and visible_to: not revoked, not expired
InEffect(s) ==
  s # NotShared /\ ~s.revoked /\ (s.expires = Never \/ s.expires \notin expired)

\* shared_with_me, which the record list goes by
SharedWithMe(u) == {r \in shown : InEffect(ShareOf(r, u))}

\* document_visible_records, which the document page goes by
DocumentVisible(u) ==
  {r \in shown : InEffect(ShareOf(r, u)) /\ ShareOf(r, u).documents}

-----------------------------------------------------------------------------
(* grant_access and revoke_share                                           *)

Config(permission, purpose, documents, expires) ==
  [permission |-> permission, purpose |-> purpose, documents |-> documents,
   expires |-> expires, revoked |-> FALSE]

\* Mutant: a row that is granted again keeps the permission it had.
ReactivatedMutant(s, config) ==
  IF s = NotShared THEN config ELSE [config EXCEPT !.permission = s.permission]

\* _reactivate_share writes every field.
Reactivated(s, config) == config

\* A grant in effect is left as it is.
Grant(r, u, config) ==
  share' = [share EXCEPT ![<<r, u>>] =
              IF InEffect(@) THEN @ ELSE Reactivated(@, config)]

Revoke(r, u) ==
  share' = [share EXCEPT ![<<r, u>>] = IF @ = NotShared THEN @
                                   ELSE [@ EXCEPT !.revoked = TRUE]]

OwnerActs ==
  "owner" \in env /\ ("race" \in env \/ \A q \in Requests : request[q] = Idle)

\* share_record_with_users: a transaction for each record and user
ShareWithUsers(S, u, config) ==
  share' = [x \in Shareable \X Guests |->
    IF x \in S \X {u} /\ ~InEffect(share[x]) THEN Reactivated(share[x], config)
                                            ELSE share[x]]

\* ShareRecordView; BulkShareView does it for several records, to edit and
\* with their documents.
ShareRecord(r, u) ==
  /\ OwnerActs
  /\ \E permission \in {"view", "edit"}, documents \in BOOLEAN :
       ShareWithUsers({r}, u, Config(permission, "", documents, Never))
  /\ UNCHANGED <<shown, pack, expired, repaid, receipt, request>>

BulkShare(S, u) ==
  /\ OwnerActs
  /\ ShareWithUsers(S, u, Config("edit", "", TRUE, Never))
  /\ UNCHANGED <<shown, pack, expired, repaid, receipt, request>>

RevokeShare(r, u) ==
  /\ OwnerActs
  /\ ShareOf(r, u) # NotShared /\ Revoke(r, u)
  /\ UNCHANGED <<shown, pack, expired, repaid, receipt, request>>

-----------------------------------------------------------------------------
(* Packages.                                                               *)

IsOpen(p) == pack[p].status = "open"
IsPaid(p) == pack[p].status = "paid"
IsDeleted(p) == pack[p] # NoPackage /\ pack[p].deleted
Now(q, w) == request' = [request EXCEPT ![q] = w]
InHand(p) == \E q \in Requests : request[q] # Idle /\ request[q].pack = p
Begins(q, p, pc, todo) ==
  /\ request[q] = Idle /\ ("race" \in env \/ ~InHand(p))
  /\ Now(q, [pc |-> pc, pack |-> p, todo |-> todo])

\* PackageDraft and create_for
NewPackage(S, u) == [status |-> "open", records |-> S, to |-> u, deleted |-> FALSE]

\* create_reimbursement_package, of the records that are the creator's own and
\* shown
MaySend(p, S) ==
  /\ pack[p] = NoPackage /\ S # {} /\ S \subseteq shown
  /\ "overlap" \in env \/
       \A o \in Packages : pack[o] # NoPackage => pack[o].records \cap S = {}

\* CreatePackageFromRecordsView: the package
\* and its records commit, then the grants follow.
CreatePackage(q, p, S, u) ==
  /\ "package" \in env /\ Begins(q, p, "granting", S)
  /\ MaySend(p, S)
  /\ pack' = [pack EXCEPT ![p] = NewPackage(S, u)]
  /\ UNCHANGED <<share, shown, expired, repaid, receipt>>

\* Mutant: the grant leaves the documents out.
PackageConfigBare(p) == Config("view", "reimbursement", FALSE, p)
PackageConfig(p) == Config("view", "reimbursement", TRUE, p)

\* _grant_package_access
GrantNext(q) ==
  /\ request[q].pc = "granting"
  /\ LET p == request[q].pack IN
     \E r \in request[q].todo :
       /\ Grant(r, pack[p].to, PackageConfig(p))
       /\ Now(q, [request[q] EXCEPT !.todo = @ \ {r}])
  /\ UNCHANGED <<shown, pack, expired, repaid, receipt>>

\* Mutant: every grant of the recipient on these records is revoked.
PackageGrantsAny(p) ==
  {r \in pack[p].records : InEffect(ShareOf(r, pack[p].to))}

\* Mutant: the grants of archived records are left alone.
PackageGrantsShown(p) ==
  {r \in pack[p].records \cap shown :
     /\ InEffect(ShareOf(r, pack[p].to))
     /\ ShareOf(r, pack[p].to).purpose = "reimbursement"}

\* revoke_package_access lists the recipient's reimbursement grants.
PackageGrants(p) ==
  {r \in pack[p].records :
     /\ InEffect(ShareOf(r, pack[p].to))
     /\ ShareOf(r, pack[p].to).purpose = "reimbursement"}

RevokeNext(q) ==
  /\ request[q].pc \in {"revoking", "deleting"}
  /\ \E r \in request[q].todo :
       /\ Revoke(r, pack[request[q].pack].to)
       /\ Now(q, [request[q] EXCEPT !.todo = @ \ {r}])
  /\ UNCHANGED <<shown, pack, expired, repaid, receipt>>

\* mark_as_paid
SettlePackage(q, p) ==
  /\ IsOpen(p) /\ ~IsDeleted(p) /\ Begins(q, p, "revoking", PackageGrants(p))
  /\ pack' = [pack EXCEPT ![p].status = "paid"]
  /\ repaid' = repaid \cup (pack[p].records \cap shown)
  /\ receipt' = [receipt EXCEPT ![p] = "good"]
  /\ UNCHANGED <<share, shown, expired>>

\* Mutant: the receipt of a refunded payment stays as it is.
StruckNone(p) == {}

\* The payer's receipts with this package's uuid, or with its title from its
\* creator.
Struck(p) ==
  {o \in Packages : receipt[o] # "none" /\ pack[o].to = pack[p].to
                    /\ (o = p \/ "same_title" \in env)}

\* mark_as_refunded, which does not ask whether the package was deleted
RefundPackage(q, p) ==
  /\ "refund" \in env /\ IsPaid(p)
  /\ Begins(q, p, "granting", pack[p].records \cap shown)
  /\ "late_refund" \in env \/ ~IsDeleted(p)
  /\ pack' = [pack EXCEPT ![p].status = "open"]
  /\ repaid' = repaid \ (pack[p].records \cap shown)
  /\ receipt' = [o \in Packages |-> IF o \in Struck(p) THEN "struck" ELSE receipt[o]]
  /\ UNCHANGED <<share, shown, expired>>

\* delete_package: revoke, then save; the creator may always, the recipient
\* once it is paid.
DeletePackage(q, p) ==
  /\ "delete" \in env /\ pack[p] # NoPackage /\ ~IsDeleted(p)
  /\ Begins(q, p, "deleting", PackageGrants(p))
  /\ UNCHANGED <<share, shown, pack, expired, repaid, receipt>>

EndRequest(q) ==
  /\ request[q] # Idle /\ request[q].todo = {}
  /\ pack' = IF request[q].pc = "deleting"
             THEN [pack EXCEPT ![request[q].pack].deleted = TRUE] ELSE pack
  /\ Now(q, Idle)
  /\ UNCHANGED <<share, shown, expired, repaid, receipt>>

\* A crash, or an exception, which mark_as_paid and mark_as_refunded log and
\* delete_package answers with "try again".
AbortRequest(q) ==
  /\ "crash" \in env /\ request[q] # Idle
  /\ Now(q, Idle)
  /\ UNCHANGED <<share, shown, pack, expired, repaid, receipt>>

PackageExpires(p) ==
  /\ pack[p] # NoPackage /\ p \notin expired
  /\ expired' = expired \cup {p}
  /\ UNCHANGED <<share, shown, pack, repaid, receipt, request>>

\* The owner archives or restores a record.
ToggleRecord(r) ==
  /\ "archive" \in env
  /\ shown' = IF r \in shown THEN shown \ {r} ELSE shown \cup {r}
  /\ UNCHANGED <<share, pack, expired, repaid, receipt, request>>

-----------------------------------------------------------------------------
RequestStep(q) == GrantNext(q) \/ RevokeNext(q) \/ EndRequest(q)

SharingNext ==
  \/ \E r \in Shareable : \/ ToggleRecord(r)
                          \/ \E u \in Guests : ShareRecord(r, u) \/ RevokeShare(r, u)
  \/ \E S \in SUBSET Shareable, u \in Guests :
       \/ BulkShare(S, u)
       \/ \E q \in Requests, p \in Packages : CreatePackage(q, p, S, u)
  \/ \E p \in Packages :
       \/ PackageExpires(p)
       \/ \E q \in Requests : \/ SettlePackage(q, p) \/ RefundPackage(q, p)
                              \/ DeletePackage(q, p)
  \/ \E q \in Requests : RequestStep(q) \/ AbortRequest(q)

SharingSpec == SharingInit /\ [][SharingNext /\ UNCHANGED env]_<<env, shareVars>>

-----------------------------------------------------------------------------
(* Properties.                                                             *)

\* Whatever a row was before, and however requests overlap, a package grants
\* no more than to look, no longer than the package, on its own records.
PackagesOnlyLetView ==
  \A r \in Shareable, u \in Guests :
    LET s == ShareOf(r, u) IN
    s # NotShared /\ s.purpose = "reimbursement" =>
      /\ s.permission = "view" /\ s.expires # Never
      /\ r \in pack[s.expires].records /\ u = pack[s.expires].to

\* A package's life neither ends, narrows nor widens what the owner shared.
OwnerShareSurvives ==
  [][\A r \in Shareable, u \in Guests :
       InEffect(ShareOf(r, u)) /\ ShareOf(r, u).purpose = "" /\ "race" \notin env
         => ShareOf(r, u)' = ShareOf(r, u) \/ RevokeShare(r, u)]_shareVars

\* Once packages are paid or deleted their grants are gone, although packages
\* share records and the recipient, and the loops of different packages
\* interleave (services.py: "Access is revoked automatically").
GrantHasReason ==
  env \cap {"race", "crash", "late_refund"} = {} =>
    \A r \in Shareable, u \in Guests :
      InEffect(ShareOf(r, u)) /\ ShareOf(r, u).purpose = "reimbursement" =>
        \E p \in Packages :
          /\ pack[p] # NoPackage /\ r \in pack[p].records /\ u = pack[p].to
          /\ (IsOpen(p) /\ ~IsDeleted(p)) \/ InHand(p)

\* Through settlements and refunds, the recipient of an open package sees its
\* records with their documents.  Another package on the same record, the
\* owner, or an interrupted request can take that away.
OpenShowsDocuments ==
  env \cap {"race", "crash", "overlap", "owner", "archive"} = {} =>
    \A p \in Packages \ expired :
      IsOpen(p) /\ ~IsDeleted(p) /\ ~InHand(p) =>
        pack[p].records \subseteq
          SharedWithMe(pack[p].to) \cap DocumentVisible(pack[p].to)

\* A refund takes back exactly what its settlement wrote: flags and receipt.
RefundUndoesSettlement ==
  env \cap {"overlap", "archive", "same_title"} = {} =>
    /\ repaid = UNION {pack[p].records : p \in {o \in Packages : IsPaid(o)}}
    /\ \A p \in Packages : IsPaid(p) <=> receipt[p] = "good"

=============================================================================
