---------------------------- MODULE CheckoutOffer ----------------------------
(***************************************************************************)
(* What the checkout of a package promises to its payers and its creator,  *)
(* as long as no money flows back: one payment offer is open at a time, a  *)
(* payment is recorded only for an offer that was taken, and the package   *)
(* is settled for good once some payment is recorded, and never without.   *)
(***************************************************************************)
CONSTANT Attempts          \* the checkout attempts there can be

VARIABLES
  offer,       \* what each attempt's URL is worth to the payer who holds it
  recorded,    \* the attempts whose payment is recorded as completed
  settled      \* whether the package is settled

Init ==
  /\ offer = [a \in Attempts |-> "none"]
  /\ recorded = {}
  /\ settled = FALSE

NothingOpen == \A a \in Attempts : offer[a] # "open"

\* A payer is given the URL of a new session, which may have expired already.
MakeOffer(a) ==
  /\ offer[a] = "none" /\ NothingOpen
  /\ \E o \in {"open", "lapsed"} : offer' = [offer EXCEPT ![a] = o]
  /\ UNCHANGED <<recorded, settled>>

\* The payer pays, or the session expires.
EndOffer(a) ==
  /\ offer[a] = "open"
  /\ \E o \in {"taken", "lapsed"} : offer' = [offer EXCEPT ![a] = o]
  /\ UNCHANGED <<recorded, settled>>

\* A captured payment is recorded, with or without settling the package in
\* the same step.
Record(a) ==
  /\ offer[a] = "taken"
  /\ recorded' = recorded \cup {a}
  /\ settled' \in {settled, TRUE}
  /\ UNCHANGED offer

Settle ==
  /\ recorded # {}
  /\ settled' = TRUE
  /\ UNCHANGED <<offer, recorded>>

\* A duplicate is struck out, never the payment that backs the package.
StrikeDuplicate(a) ==
  /\ settled /\ recorded \ {a} # {}
  /\ recorded' = recorded \ {a}
  /\ UNCHANGED <<offer, settled>>

Next ==
  \/ \E a \in Attempts :
       MakeOffer(a) \/ EndOffer(a) \/ Record(a) \/ StrikeDuplicate(a)
  \/ Settle

Spec == Init /\ [][Next]_<<offer, recorded, settled>>
=============================================================================
