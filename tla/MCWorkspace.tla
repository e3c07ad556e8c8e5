----------------------------- MODULE MCWorkspace -----------------------------
(* The components around the payments, side by side on their own tables: a   *)
(* scenario names one of them and what may happen to it, and its own actions *)
(* run while the others rest.                                                *)
EXTENDS Documents, Reminders, PlaidSync, Subscriptions, RecordMerge,
        RecordSharing, PageCaches, Money, Onboarding

\* What runs in queues and on a schedule, and what requests do to shared rows
workVars == <<docVars, reminderVars, plaidVars, subVars>>
dataVars == <<mergeVars, shareVars, cacheVars, moneyVars, onboardVars>>

\* Where nothing is bought and nobody is reminded, these do not matter.
Unused ==
  /\ "reminders" \notin env => channels = [r \in Expiring |-> {"email"}]
  /\ "money" \notin env => /\ balance = [i \in Items |-> 0] /\ payer = "usd"
                           /\ currency = [i \in Items |-> "usd"]

Init ==
  /\ ChooseScenario
  /\ DocInit /\ ReminderInit /\ PlaidInit /\ SubscriptionInit /\ MergeInit
  /\ SharingInit /\ CacheInit /\ MoneyInit /\ OnboardInit
  /\ Unused

DocumentsStep ==
  /\ "documents" \in env /\ DocNext
  /\ UNCHANGED <<env, reminderVars, plaidVars, subVars, dataVars>>
RemindersStep ==
  /\ "reminders" \in env /\ ReminderNext
  /\ UNCHANGED <<env, docVars, plaidVars, subVars, dataVars>>
PlaidStep ==
  /\ "plaid" \in env /\ PlaidNext
  /\ UNCHANGED <<env, docVars, reminderVars, subVars, dataVars>>
PlansStep ==
  /\ "plans" \in env /\ SubscriptionNext
  /\ UNCHANGED <<env, docVars, reminderVars, plaidVars, dataVars>>
MergeStep ==
  /\ "merge" \in env /\ MergeNextStep
  /\ UNCHANGED <<env, workVars, shareVars, cacheVars, moneyVars, onboardVars>>
SharingStep ==
  /\ "sharing" \in env /\ SharingNext
  /\ UNCHANGED <<env, workVars, mergeVars, cacheVars, moneyVars, onboardVars>>
CachesStep ==
  /\ "caches" \in env /\ CacheNext
  /\ UNCHANGED <<env, workVars, mergeVars, shareVars, moneyVars, onboardVars>>
MoneyStep ==
  /\ "money" \in env /\ MoneyNext
  /\ UNCHANGED <<env, workVars, mergeVars, shareVars, cacheVars, onboardVars>>
OnboardingStep ==
  /\ "onboarding" \in env /\ OnboardNext
  /\ UNCHANGED <<env, workVars, mergeVars, shareVars, cacheVars, moneyVars>>

Next ==
  \/ DocumentsStep \/ RemindersStep \/ PlaidStep \/ PlansStep
  \/ MergeStep \/ SharingStep \/ CachesStep \/ MoneyStep \/ OnboardingStep

vars == <<env, workVars, dataVars>>
Spec == Init /\ [][Next]_vars

FairSpec ==
  /\ Spec
  /\ DocFairness("documents") /\ ReminderFairness("reminders")
  /\ PlaidFairness("plaid") /\ SubscriptionFairness("plans")

\* Every row, cache entry, message and request has the shape its code gives it.
WorkspaceTypeOK ==
  /\ DocTypeOK /\ ReminderTypeOK /\ PlaidTypeOK /\ SubscriptionTypeOK
  /\ MergeTypeOK /\ SharingTypeOK /\ CacheTypeOK /\ MoneyTypeOK /\ OnboardTypeOK
=============================================================================
