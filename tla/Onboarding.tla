------------------------------ MODULE Onboarding ------------------------------
(***************************************************************************)
(* Connecting a user's Stripe account, to which packages pay out: the one  *)
(* StripeAccount row, the accounts that were opened at Stripe for it, and  *)
(* the flags copied by the onboarding page and by account.updated events,  *)
(* which arrive late, in any order or never.                               *)
(***************************************************************************)
EXTENDS Naturals, FiniteSets, Scenarios

CONSTANTS
  Accounts,     \* bound: accounts opened at Stripe
  Clicks        \* requests of StripeOnboardView running at once

\* The words of a scenario: stripe_failure, crash, withdrawn (Stripe disables
\* an account again).

VARIABLES
  opened,     \* accounts at Stripe: not opened, incomplete, enabled
  onceReady,  \* accounts that were enabled at some time
  accountId,  \* the row's stripe_account_id
  ready,      \* its three flags, which are always copied together
  reports,    \* account.updated events under way
  click       \* the requests

onboardVars == <<opened, onceReady, accountId, ready, reports, click>>

NoAccount == "none"
ASSUME NoAccountIsNone == NoAccount \notin Accounts

NoClick == [pc |-> "out"]
Standing == {"incomplete", "enabled"}

OnboardTypeOK ==
  /\ opened \in [Accounts -> Standing \cup {"unopened"}]
  /\ onceReady \subseteq Accounts
  /\ accountId \in Accounts \cup {NoAccount} /\ ready \in BOOLEAN
  /\ reports \subseteq Accounts \X BOOLEAN
  /\ click \in [Clicks ->
       {NoClick} \cup [pc : {"looking", "opening", "linking"},
                       id : Accounts \cup {NoAccount}]
                 \cup [pc : {"copying"}, id : Accounts, seen : BOOLEAN]
                 \cup [pc : {"saving"}, id : Accounts]]

OnboardInit ==
  /\ opened = [a \in Accounts |-> "unopened"] /\ onceReady = {}
  /\ accountId = NoAccount /\ ready = FALSE /\ reports = {}
  /\ click = [q \in Clicks |-> NoClick]

\* StripeAccount.is_active, which payout_account_id goes by
PaysOut == accountId # NoAccount /\ ready
Clicking(q, pc) == click[q].pc = pc
Becomes(q, r) == click' = [click EXCEPT ![q] = r]

-----------------------------------------------------------------------------
(* StripeOnboardView                                                       *)

\* The row is read once.
OpenOnboarding(q) ==
  /\ Clicking(q, "out") /\ ~PaysOut
  /\ Becomes(q, [pc |-> IF accountId = NoAccount THEN "opening" ELSE "looking",
                 id |-> accountId])
  /\ UNCHANGED <<opened, onceReady, accountId, ready, reports>>

\* sync_from_stripe: a failing call is passed over.
LookUp(q) ==
  /\ Clicking(q, "looking")
  /\ \/ Becomes(q, [pc |-> "copying", id |-> click[q].id,
                    seen |-> opened[click[q].id] = "enabled"])
     \/ "stripe_failure" \in env /\ Becomes(q, [click[q] EXCEPT !.pc = "linking"])
  /\ UNCHANGED <<opened, onceReady, accountId, ready, reports>>

CopyFlags(q) ==
  /\ Clicking(q, "copying")
  /\ ready' = click[q].seen
  /\ Becomes(q, IF click[q].seen THEN NoClick
                ELSE [pc |-> "linking", id |-> click[q].id])
  /\ UNCHANGED <<opened, onceReady, accountId, reports>>

\* create_stripe_account has no idempotency key.
OpenAccount(q) ==
  /\ Clicking(q, "opening")
  /\ \/ \E a \in Accounts :
          /\ opened[a] = "unopened"
          /\ opened' = [opened EXCEPT ![a] = "incomplete"]
          /\ Becomes(q, [pc |-> "saving", id |-> a])
     \/ /\ "stripe_failure" \in env \/ \A a \in Accounts : opened[a] # "unopened"
        /\ Becomes(q, NoClick) /\ UNCHANGED opened
  /\ UNCHANGED <<onceReady, accountId, ready, reports>>

SaveAccount(q) ==
  /\ Clicking(q, "saving")
  /\ accountId' = click[q].id
  /\ Becomes(q, [pc |-> "linking", id |-> click[q].id])
  /\ UNCHANGED <<opened, onceReady, ready, reports>>

\* The user is sent on to the account the request holds.
SendToStripe(q) ==
  /\ Clicking(q, "linking")
  /\ Becomes(q, NoClick)
  /\ UNCHANGED <<opened, onceReady, accountId, ready, reports>>

StopClick(q) ==
  /\ "crash" \in env /\ click[q] # NoClick
  /\ Becomes(q, NoClick)
  /\ UNCHANGED <<opened, onceReady, accountId, ready, reports>>

-----------------------------------------------------------------------------
(* Stripe, and account.updated                                             *)

\* The user fills in a form of several pages: requests are faster than that.
FinishForm(a) ==
  /\ opened[a] = "incomplete" /\ \A q \in Clicks : click[q] = NoClick
  /\ opened' = [opened EXCEPT ![a] = "enabled"]
  /\ onceReady' = onceReady \cup {a}
  /\ reports' = reports \cup {<<a, TRUE>>}
  /\ UNCHANGED <<accountId, ready, click>>

Withdraw(a) ==
  /\ "withdrawn" \in env /\ opened[a] = "enabled"
  /\ opened' = [opened EXCEPT ![a] = "incomplete"]
  /\ reports' = reports \cup {<<a, FALSE>>}
  /\ UNCHANGED <<onceReady, accountId, ready, click>>

\* Mutant: the event of any account is copied to the row.
ConcernsAny(a) == accountId # NoAccount
Concerns(a) == accountId = a

\* _handle_account_updated, at once, late, or again
AccountUpdated ==
  \E n \in reports :
    /\ ready' = IF Concerns(n[1]) THEN n[2] ELSE ready
    /\ reports' \in {reports, reports \ {n}}
    /\ UNCHANGED <<opened, onceReady, accountId, click>>

OnboardNext ==
  \/ AccountUpdated
  \/ \E a \in Accounts : FinishForm(a) \/ Withdraw(a)
  \/ \E q \in Clicks : \/ OpenOnboarding(q) \/ LookUp(q) \/ CopyFlags(q)
                       \/ OpenAccount(q) \/ SaveAccount(q) \/ SendToStripe(q)
                       \/ StopClick(q)

OnboardSpec == OnboardInit /\ [][OnboardNext]_onboardVars

-----------------------------------------------------------------------------
(* Properties.                                                             *)

\* Two clicks, a lost answer or a crash can open several accounts for one user;
\* money is only ever paid out to one the user has completed, never to another
\* on the strength of its flags (models.py, is_active).
PaysOutToCompleted == PaysOut => accountId \in onceReady
=============================================================================
