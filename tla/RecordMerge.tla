----------------------------- MODULE RecordMerge -----------------------------
(***************************************************************************)
(* Bank transactions and uploaded receipts that describe one purchase: the *)
(* automatic and the manual matching, the merge of a receipt ("paper") into*)
(* a bank record with its snapshot, the undo, and the record's life around *)
(* them: archive, restore, edit and the purge after seven years.           *)
(* A matcher finds its pair in one query and merges it in a later          *)
(* transaction, which locks both rows.                                     *)
(***************************************************************************)
EXTENDS Naturals, Sequences, FiniteSets, Scenarios

CONSTANTS
  Bank,        \* records with a plaid_transaction_id
  Papers,      \* records made from a document; each is named like its document
  Matchers,    \* workers and requests that merge
  MaxMerges    \* bound: MergeLog rows

Recs == Bank \cup Papers
Deleted == "deleted"

ASSUME MergeConstantsOK ==
  /\ MaxMerges \in Nat
  /\ Bank \cap Papers = {}
  /\ Deleted \notin Recs

\* The words of a scenario: score, manual, one_bank, unarchive, archive, edit,
\* any_order, purge.

VARIABLES
  state,    \* Record.is_active and whether the row exists
  text,     \* where a bank record's PLAID_RESTORE_FIELDS come from
  home,     \* DocumentData.associated_record of each paper's document
  logs,     \* the MergeLog rows
  like,     \* how a pair compares in amount, date, merchant and title
  matcher

mergeVars == <<state, text, home, logs, like, matcher>>

Resting == [pc |-> "resting"]

\* How a pair compares: the amounts' difference in tolerances, the days between
\* the dates, and how similar merchant and title are, in tenths.
Same == [gap |-> 0, days |-> 0, merchant |-> 10, title |-> 9]
Close == [gap |-> 1, days |-> 1, merchant |-> 4, title |-> 0]
Chance == [gap |-> 0, days |-> 9, merchant |-> 0, title |-> 5]
Likenesses == {Same, Close, Chance}

Logs == [bank : Bank, paper : Papers, snap : {"own", "edited"} \cup Papers,
         docs : SUBSET Papers, undone : BOOLEAN, auto : BOOLEAN]

MergeTypeOK ==
  /\ state \in [Recs -> {"absent", "active", "archived", "purged"}]
  /\ text \in [Bank -> {"own", "edited"} \cup Papers]
  /\ home \in [Papers -> Recs \cup {Deleted}]
  /\ logs \in Seq(Logs) /\ Len(logs) <= MaxMerges
  /\ matcher \in [Matchers ->
       {Resting}
       \cup [pc : {"matching"}, bank : Bank, todo : SUBSET Papers, auto : BOOLEAN]
       \cup [pc : {"purging"}, spared : SUBSET Papers]
       \cup [pc : {"deleting"}, doomed : SUBSET Recs]]

MergeInit ==
  /\ state = [r \in Recs |-> "absent"]
  /\ text = [b \in Bank |-> "own"]
  /\ home = [p \in Papers |-> p]
  /\ logs = <<>>
  /\ like \in [Bank \X Papers ->
               IF "score" \in env THEN Likenesses ELSE {Same}]
  /\ matcher = [m \in Matchers |-> Resting]

-----------------------------------------------------------------------------
Active(r) == state[r] = "active"
There(r) == state[r] \in {"active", "archived"}
InForce == {i \in DOMAIN logs : ~logs[i].undone}
InForceInto(b) == {i \in InForce : logs[i].bank = b}
InForceOf(p) == {i \in InForce : logs[i].paper = p}

\* calculate_match_score: the best grade of each comparison, added up
Grade(grades, Reached(_)) ==
  LET got == {g[2] : g \in {h \in grades : Reached(h[1])}} IN
  IF got = {} THEN 0 ELSE CHOOSE g \in got : \A h \in got : h <= g

Score(c) ==
  LET near(limit) == c.gap <= limit    soon(limit) == c.days <= limit
      sold(least) == c.merchant >= least  named(least) == c.title >= least
  IN Grade({<<0, 40>>, <<1, 30>>, <<3, 15>>}, near)
     + Grade({<<0, 30>>, <<1, 20>>, <<3, 10>>}, soon)
     + Grade({<<9, 30>>, <<7, 20>>, <<5, 10>>, <<3, 5>>}, sold)
     + Grade({<<9, 20>>, <<7, 15>>, <<5, 8>>, <<3, 3>>}, named)

Scores == [c \in Likenesses |-> Score(c)]

Threshold == 55

\* find_best_plaid_match stops early at a near-certain candidate.
BestMatch(b, p) ==
  LET score(c) == Scores[like[<<c, p>>]] IN
  /\ Active(b) /\ score(b) >= Threshold
  /\ score(b) >= 95 \/ \A c \in Bank : Active(c) => score(c) <= score(b)

\* find_document_matches_for_plaid
MatchesFor(b) == {p \in Papers : Active(p) /\ Scores[like[<<b, p>>]] >= Threshold}

Rest(m) == matcher' = [matcher EXCEPT ![m] = Resting]
Found(m, b, todo, auto) ==
  /\ matcher[m] = Resting
  /\ matcher' = [matcher EXCEPT ![m] = [pc |-> "matching", bank |-> b,
                                        todo |-> todo, auto |-> auto]]
  /\ UNCHANGED <<state, text, home, logs, like>>

-----------------------------------------------------------------------------
(* Records appear.                                                         *)

\* The Plaid sync adds a transaction; OCR or the form makes a record.
AddRecord(r) ==
  /\ state[r] = "absent"
  /\ "one_bank" \in env => r \in Papers \/ \A b \in Bank : state[b] = "absent"
  /\ state' = [state EXCEPT ![r] = "active"]
  /\ UNCHANGED <<text, home, logs, like, matcher>>

\* try_match_document_record, after a record was made from a document or a
\* paper record was saved while it was active.
MatchPaper(m, p) ==
  /\ There(p)
  /\ \E b \in Bank : BestMatch(b, p) /\ Found(m, b, {p}, TRUE)

\* try_match_plaid_record lists every match and merges one after the other.
MatchBank(m, b) ==
  /\ There(b) /\ MatchesFor(b) # {}
  /\ Found(m, b, MatchesFor(b), TRUE)

\* ManualMergeView asks for two active records of the user's own.
MatchManually(m, b, p) ==
  /\ "manual" \in env /\ Active(b) /\ Active(p)
  /\ Found(m, b, {p}, FALSE)

-----------------------------------------------------------------------------
(* merge_document_into_plaid                                               *)

\* Mutant: the receipt is not read again under its lock.
MergeableUnchecked(p) == There(p)

\* Only the receipt is looked at again under the row locks.
Mergeable(p) == Active(p)

DocsOf(r) == {d \in Papers : home[d] = r}

\* Mutant: the snapshot is taken after the fields were copied.
SnapshotLate(b, p) == p
Snapshot(b, p) == text[b]

\* Mutant: the documents are listed after they were moved.
MovedDocsLate(b, p) == {}
MovedDocs(b, p) == DocsOf(p)

\* _apply_doc_fields_to_plaid: a receipt has something for every field.
Merge(b, p, auto) ==
  /\ Len(logs) < MaxMerges
  /\ logs' = Append(logs, [bank |-> b, paper |-> p, snap |-> Snapshot(b, p),
                           docs |-> MovedDocs(b, p), undone |-> FALSE,
                           auto |-> auto])
  /\ home' = [d \in Papers |-> IF d \in DocsOf(p) THEN b ELSE home[d]]
  /\ text' = [text EXCEPT ![b] = p]
  /\ state' = [state EXCEPT ![p] = "archived"]

\* unique_active_merge: the insert fails and the transaction with it.
AlreadyMerged(b, p) == \E i \in InForceInto(b) : logs[i].paper = p

\* A pair that is gone or already merged ends the whole task.
MergeNext(m) ==
  /\ matcher[m].pc = "matching"
  /\ LET b == matcher[m].bank  rest(p) == matcher[m].todo \ {p} IN
     \E p \in matcher[m].todo :
       \/ /\ There(b) /\ Mergeable(p) /\ ~AlreadyMerged(b, p)
          /\ Merge(b, p, matcher[m].auto)
          /\ matcher' = [matcher EXCEPT ![m].todo = rest(p)]
       \/ /\ There(b) /\ There(p) /\ ~Mergeable(p)
          /\ matcher' = [matcher EXCEPT ![m].todo = rest(p)]
          /\ UNCHANGED <<state, text, home, logs>>
       \/ /\ ~There(b) \/ ~There(p) \/ (Mergeable(p) /\ AlreadyMerged(b, p))
          /\ Rest(m) /\ UNCHANGED <<state, text, home, logs>>
  /\ UNCHANGED like

MatchingEnds(m) ==
  /\ matcher[m].pc = "matching" /\ matcher[m].todo = {}
  /\ Rest(m) /\ UNCHANGED <<state, text, home, logs, like>>

-----------------------------------------------------------------------------
(* undo_merge                                                              *)

Newest(i) == \A j \in InForceInto(logs[i].bank) : j <= i

\* _restore_plaid_from_snapshot, skipped while the bank record is archived
RestoredText(log) ==
  IF Active(log.bank) THEN [text EXCEPT ![log.bank] = log.snap] ELSE text

\* Whatever was listed goes back, wherever it is by now.
RestoredHome(log) ==
  [d \in Papers |-> IF d \in log.docs /\ home[d] # Deleted THEN log.paper
                                                           ELSE home[d]]

\* UndoMergeView finds the merge through its bank record; a merge that was
\* undone before only gets a message.
Undoable(i) == ~logs[i].undone /\ There(logs[i].bank)

Undo(i) ==
  LET log == logs[i] IN
  /\ Undoable(i)
  /\ "any_order" \in env \/ Newest(i)
  /\ logs' = [logs EXCEPT ![i].undone = TRUE]
  /\ text' = RestoredText(log)
  /\ IF There(log.paper)
     THEN /\ state' = [state EXCEPT ![log.paper] = "active"]
          /\ home' = RestoredHome(log)
     ELSE UNCHANGED <<state, home>>
  /\ UNCHANGED <<like, matcher>>

-----------------------------------------------------------------------------
(* The record's own life.                                                  *)

Become(S, from, to) ==
  /\ S # {} /\ \A r \in S : state[r] \in from
  /\ state' = [r \in Recs |-> IF r \in S THEN to ELSE state[r]]
  /\ UNCHANGED <<text, home, logs, like, matcher>>

ArchiveRecord(r) == "archive" \in env /\ Become({r}, {"active"}, "archived")
BulkArchive(S) == "archive" \in env /\ Become(S, {"active"}, "archived")
ExpireRecords(S) == "archive" \in env /\ Become(S, {"active"}, "archived")
DeleteRecord(r) ==
  "archive" \in env /\ Become({r}, {"active", "archived"}, "archived")

\* Nothing tells a merged receipt from an archived one.
UnarchiveRecord(r) == "unarchive" \in env /\ Become({r}, {"archived"}, "active")
BulkUnarchive(S) == "unarchive" \in env /\ Become(S, {"archived"}, "active")

EditRecord(b) ==
  /\ "edit" \in env /\ Active(b)
  /\ text' = [text EXCEPT ![b] = "edited"]
  /\ UNCHANGED <<state, home, logs, like, matcher>>

\* The row goes, its documents with it (CASCADE), and the merge logs keep a
\* NULL for it.
Remove(S) ==
  /\ state' = [r \in Recs |-> IF r \in S /\ There(r) THEN "purged" ELSE state[r]]
  /\ home' = [d \in Papers |-> IF home[d] \in S /\ There(home[d]) THEN Deleted
                                                               ELSE home[d]]

HardDelete(r) ==
  /\ "purge" \in env /\ There(r)
  /\ Remove({r})
  /\ UNCHANGED <<text, logs, like, matcher>>

\* delete_7year_archived_records: the merged receipts, then the archived
\* records other than those, then the deletion by primary key.
ReadMerged(m) ==
  /\ "purge" \in env /\ matcher[m] = Resting
  /\ matcher' = [matcher EXCEPT ![m] =
       [pc |-> "purging", spared |-> {logs[i].paper : i \in InForce}]]
  /\ UNCHANGED <<state, text, home, logs, like>>

ListExpired(m) ==
  /\ matcher[m].pc = "purging"
  /\ \E S \in SUBSET {r \in Recs : state[r] = "archived"} :
       matcher' = [matcher EXCEPT ![m] =
         [pc |-> "deleting", doomed |-> S \ matcher[m].spared]]
  /\ UNCHANGED <<state, text, home, logs, like>>

DeleteExpired(m) ==
  /\ matcher[m].pc = "deleting"
  /\ Remove(matcher[m].doomed)
  /\ Rest(m)
  /\ UNCHANGED <<text, logs, like>>

-----------------------------------------------------------------------------
MergeNextStep ==
  \/ \E r \in Recs : \/ AddRecord(r) \/ ArchiveRecord(r) \/ DeleteRecord(r)
                     \/ UnarchiveRecord(r) \/ HardDelete(r)
  \/ \E S \in SUBSET Recs : BulkArchive(S) \/ BulkUnarchive(S) \/ ExpireRecords(S)
  \/ \E b \in Bank : EditRecord(b)
  \/ \E i \in DOMAIN logs : Undo(i)
  \/ \E m \in Matchers :
       \/ \E p \in Papers : MatchPaper(m, p)
       \/ \E b \in Bank : \/ MatchBank(m, b)
                          \/ \E p \in Papers : MatchManually(m, b, p)
       \/ MergeNext(m) \/ MatchingEnds(m)
       \/ ReadMerged(m) \/ ListExpired(m) \/ DeleteExpired(m)

MergeSpec == MergeInit /\ [][MergeNextStep /\ UNCHANGED env]_<<env, mergeVars>>

-----------------------------------------------------------------------------
(* Properties.                                                             *)

\* Two matchers, a user and an undo never leave one receipt merged twice, and
\* a merged receipt is not shown (and counted) beside its bank record.  Only
\* restoring it from the archive can do that.
MergedOnce ==
  "unarchive" \notin env =>
    \A i \in InForce : LET p == logs[i].paper IN
      state[p] # "active" /\ InForceOf(p) = {i}

\* A document is where its merges say: with its receipt, or with the bank
\* record of the one merge in force that moved it, whatever was archived,
\* purged or undone around it.
DocumentFollowsMerges ==
  \A d \in Papers :
    home[d] # Deleted =>
      LET movers == {i \in InForce : d \in logs[i].docs} IN
      IF movers = {} THEN home[d] = d \/ state[d] = "purged"
                     ELSE \A i \in movers : home[d] = logs[i].bank

\* Merges undone last in, first out leave a bank record as it was before them.
UndoRestores ==
  env \cap {"any_order", "edit", "archive"} = {} =>
    \A b \in Bank : InForceInto(b) = {} => text[b] = "own"

=============================================================================
