------------------------------- MODULE Reminders -------------------------------
(***************************************************************************)
(* The hourly reminders of records that are about to expire, and the mail  *)
(* and web-push messages they queue.  Each statement of the task commits   *)
(* by itself, so a run can be cut off between any two of them, and a slow  *)
(* run meets the next.                                                     *)
(***************************************************************************)
EXTENDS Naturals, FiniteSets, Scenarios

CONSTANTS
  Expiring,     \* records with an expiry date, each of another user
  Runs,         \* runs of send_expiry_notifications at once
  MailRetries,  \* max_retries of send_background_email
  MaxStops      \* bound: runs cut off

ASSUME ReminderConstantsOK ==
  MailRetries \in Nat /\ MaxStops \in Nat /\ IsFiniteSet(Runs)

\* The words of a scenario: overlap (of two runs), crash, mail_trouble,
\* settings (the user switches channels), edits (of the record).

VARIABLES
  due,       \* records whose expiry date is within the advance time
  listed,    \* records with is_active
  reminded,  \* records with expiry_notification_sent
  notices,   \* Notification rows about each record
  channels,  \* the channels each user has switched on
  mails,     \* queued send_background_email messages
  pushes,    \* queued fire_single_webpush messages
  answered,  \* records whose mail was delivered or given up
  run,       \* the runs
  stops      \* runs cut off so far

messageVars == <<mails, pushes, answered>>
reminderVars == <<due, listed, reminded, notices, channels, messageVars, run, stops>>

Channels == SUBSET {"push", "email"}
Waiting == [pc |-> "waiting"]
MaxNotices == 2 * (Cardinality(Runs) + MaxStops)

ReminderTypeOK ==
  /\ due \subseteq Expiring /\ listed \subseteq Expiring
  /\ reminded \subseteq Expiring /\ answered \subseteq Expiring
  /\ notices \in [Expiring -> 0..MaxNotices]
  /\ channels \in [Expiring -> Channels]
  /\ mails \subseteq [about : Expiring, from : Runs, tries : 0..MailRetries]
  /\ pushes \subseteq Expiring
  /\ run \in [Runs -> {Waiting} \cup
       [pc : {"creating", "marking", "telling"}, about : SUBSET Expiring,
        push : SUBSET Expiring]]
  /\ stops \in 0..MaxStops

ReminderInit ==
  /\ due = {} /\ listed = Expiring /\ reminded = {}
  /\ notices = [r \in Expiring |-> 0]
  /\ channels \in [Expiring -> {{"email"}, {"push", "email"}}]
  /\ mails = {} /\ pushes = {} /\ answered = {}
  /\ run = [n \in Runs |-> Waiting] /\ stops = 0

-----------------------------------------------------------------------------
(* What goes on around the task                                            *)

\* The date comes near, or the user chooses an earlier date or a longer
\* advance time.
ComeDue(r) ==
  /\ r \notin due /\ due' = due \cup {r}
  /\ UNCHANGED <<listed, reminded, notices, channels, messageVars, run, stops>>

\* The user edits the date, or archives and restores the record: nothing
\* resets expiry_notification_sent.
EditRecordDate(r) ==
  /\ "edits" \in env
  /\ \/ due' = due \ {r} /\ UNCHANGED listed
     \/ /\ listed' = IF r \in listed THEN listed \ {r} ELSE listed \cup {r}
        /\ UNCHANGED due
  /\ UNCHANGED <<reminded, notices, channels, messageVars, run, stops>>

SwitchChannel(r) ==
  /\ "settings" \in env
  /\ \E c \in Channels : channels' = [channels EXCEPT ![r] = c]
  /\ UNCHANGED <<due, listed, reminded, notices, messageVars, run, stops>>

-----------------------------------------------------------------------------
(* send_expiry_notifications                                               *)

During(n, pc) == run[n].pc = pc
Goes(n, pc) == run' = [run EXCEPT ![n].pc = pc]

ToRemind == (due \cap listed) \ reminded

\* The query also loads the users' settings.
ListExpiring(n) ==
  /\ During(n, "waiting") /\ ToRemind # {}
  /\ "overlap" \in env \/ \A o \in Runs : During(o, "waiting")
  /\ run' = [run EXCEPT ![n] =
       [pc |-> "creating", about |-> ToRemind,
        push |-> {r \in ToRemind : "push" \in channels[r]}]]
  /\ UNCHANGED <<due, listed, reminded, notices, channels, messageVars, stops>>

CreateNotices(n) ==
  /\ During(n, "creating") /\ Goes(n, "marking")
  /\ notices' = [r \in Expiring |->
                   notices[r] + IF r \in run[n].about THEN 1 ELSE 0]
  /\ UNCHANGED <<due, listed, reminded, channels, messageVars, stops>>

\* Mutant: the update runs the filter again and not over the listed ids.
MarkedMutant(n) == due \cap listed
Marked(n) == run[n].about

MarkReminded(n) ==
  /\ During(n, "marking") /\ Goes(n, "telling")
  /\ reminded' = reminded \cup Marked(n)
  /\ UNCHANGED <<due, listed, notices, channels, messageVars, stops>>

\* send_multi_channel_notification: the mail setting is read again, the push
\* setting is the one that came with the query.
SendMultiChannel(n, r) ==
  /\ pushes' = pushes \cup ({r} \cap run[n].push)
  /\ mails' = IF "email" \in channels[r]
              THEN mails \cup {[about |-> r, from |-> n, tries |-> 0]} ELSE mails
  /\ notices' = [notices EXCEPT ![r] = @ + 1]

\* One user after the other, once every record is marked
Tell(n, r) ==
  /\ During(n, "telling") /\ r \in run[n].about
  /\ run' = [run EXCEPT ![n] =
       IF run[n].about = {r} THEN Waiting ELSE [run[n] EXCEPT !.about = @ \ {r}]]
  /\ SendMultiChannel(n, r)
  /\ UNCHANGED <<due, listed, reminded, channels, answered, stops>>

\* The worker stops or the database fails: the run, or its retry, starts anew.
StopRun(n) ==
  /\ "crash" \in env /\ stops < MaxStops /\ ~During(n, "waiting")
  /\ run' = [run EXCEPT ![n] = Waiting] /\ stops' = stops + 1
  /\ UNCHANGED <<due, listed, reminded, notices, channels, messageVars>>

-----------------------------------------------------------------------------
(* The queued messages                                                     *)

\* Delivered, or rejected for good (4xx): either way the message is done.
SendMail(m) ==
  /\ mails' = mails \ {m} /\ answered' = answered \cup {m.about}
  /\ UNCHANGED <<due, listed, reminded, notices, channels, pushes, run, stops>>

\* A network error, 429 or 5xx raises and is retried.
MailFails(m) ==
  /\ "mail_trouble" \in env
  /\ IF m.tries < MailRetries
     THEN /\ mails' = (mails \ {m}) \cup {[m EXCEPT !.tries = @ + 1]}
          /\ UNCHANGED answered
     ELSE mails' = mails \ {m} /\ answered' = answered \cup {m.about}
  /\ UNCHANGED <<due, listed, reminded, notices, channels, pushes, run, stops>>

\* fire_single_webpush never raises.
FirePush(r) ==
  /\ r \in pushes /\ pushes' = pushes \ {r}
  /\ UNCHANGED <<due, listed, reminded, notices, channels, mails, answered, run, stops>>

ReminderNext ==
  \/ \E r \in Expiring : \/ ComeDue(r) \/ EditRecordDate(r) \/ SwitchChannel(r)
                         \/ FirePush(r)
  \/ \E n \in Runs : \/ ListExpiring(n) \/ CreateNotices(n) \/ MarkReminded(n)
                     \/ StopRun(n) \/ \E r \in Expiring : Tell(n, r)
  \/ \E m \in mails : SendMail(m) \/ MailFails(m)

ReminderSpec ==
  ReminderInit /\ [][ReminderNext /\ UNCHANGED env]_<<env, reminderVars>>

\* The task runs every hour, and a worker finishes what it has begun.
ReminderFairness(w) ==
  /\ WF_reminderVars(w \in env /\ \E n \in Runs : ListExpiring(n))
  /\ \A n \in Runs :
       WF_reminderVars(w \in env /\ (CreateNotices(n) \/ MarkReminded(n)
                                     \/ \E r \in Expiring : Tell(n, r)))
  /\ WF_reminderVars(w \in env /\ \E m \in mails : SendMail(m) \/ MailFails(m))

-----------------------------------------------------------------------------
(* Properties.                                                             *)

\* A record that is about to expire is announced, whenever runs are cut off or
\* overlap: no record is marked as reminded without a notice, neither by the run
\* that stops after marking nor by one that never listed it (records/tasks.py).
ExpiryIsAnnounced ==
  \A r \in Expiring : r \in ToRemind ~> notices[r] > 0 \/ r \notin due \cap listed

=============================================================================
