--------------------------- MODULE RecordMergeProofs ---------------------------
(***************************************************************************)
(* What the merges, their undos and the records' own lives leave in force, *)
(* for any number of transactions, receipts, matchers and merges.          *)
(***************************************************************************)
EXTENDS RecordMerge, SequenceTheorems, TLAPS

-----------------------------------------------------------------------------
(* The inductive invariant, part by part.                                  *)

\* A merged receipt existed, and only its own document moved with it.
LoggedOnceThere ==
  \A i \in DOMAIN logs : /\ state[logs[i].paper] # "absent"
                         /\ logs[i].docs \subseteq {logs[i].paper}

\* A document is with its receipt, with a bank record, or gone.
HomesAreBanks == \A d \in Papers : home[d] \in Bank \cup {d, Deleted}

\* One merge in force moved a document.
Movers(d) == {i \in InForce : d \in logs[i].docs}
OneMover == \A d \in Papers, i, j \in InForce :
  home[d] # Deleted /\ d \in logs[i].docs /\ d \in logs[j].docs => i = j

MergedAway ==
  "unarchive" \notin env =>
    \A i \in InForce : state[logs[i].paper] \in {"archived", "purged"}

\* Nobody archives a bank record.
BanksStay == "archive" \notin env => \A b \in Bank : state[b] # "archived"

\* The merges in force of a bank record each start from what the one before
\* left, and the last one left what the record shows.
SnapshotsChain ==
  env \cap {"any_order", "edit", "archive"} = {} =>
    \A b \in Bank :
      /\ InForceInto(b) = {} => text[b] = "own"
      /\ \A i \in InForceInto(b) :
           (\A j \in InForceInto(b) : j <= i) => text[b] = logs[i].paper
      /\ \A i \in InForceInto(b) :
           (\A j \in InForceInto(b) : i <= j) => logs[i].snap = "own"
      /\ \A i, j \in InForceInto(b) :
           j < i /\ (\A k \in InForceInto(b) : k <= j \/ i <= k)
             => logs[i].snap = logs[j].paper

-----------------------------------------------------------------------------
(* Steps, as the proofs see them.                                          *)

LEMMA MatcherTyped ==
  ASSUME MergeTypeOK, NEW m \in Matchers
  PROVE  /\ matcher[m].pc = "matching" =>
              /\ matcher[m].bank \in Bank /\ matcher[m].todo \subseteq Papers
              /\ matcher[m].auto \in BOOLEAN
              /\ matcher[m] \in [pc : {"matching"}, bank : Bank, todo : SUBSET Papers,
                                 auto : BOOLEAN]
         /\ matcher[m].pc = "purging" =>
              matcher[m] \in [pc : {"purging"}, spared : SUBSET Papers]
         /\ matcher[m].pc = "deleting" => matcher[m].doomed \subseteq Recs
BY DEF MergeTypeOK, Resting

\* The logs when a row is appended, and when one is marked undone.
LEMMA Appended ==
  ASSUME MergeTypeOK, NEW x \in Logs, logs' = Append(logs, x)
  PROVE  /\ DOMAIN logs' = DOMAIN logs \cup {Len(logs) + 1}
         /\ Len(logs) + 1 \notin DOMAIN logs
         /\ \A i \in DOMAIN logs : logs'[i] = logs[i] /\ i < Len(logs) + 1
         /\ logs'[Len(logs) + 1] = x
         /\ logs' \in Seq(Logs) /\ Len(logs') = Len(logs) + 1
BY DEF MergeTypeOK

LEMMA LogTyped ==
  ASSUME MergeTypeOK, NEW i \in DOMAIN logs
  PROVE  /\ logs[i] \in Logs /\ i \in Nat
         /\ logs[i].bank \in Bank /\ logs[i].paper \in Papers
         /\ logs[i].docs \subseteq Papers
<1>1. logs \in Seq(Logs)
  BY DEF MergeTypeOK
<1>2. i \in Nat /\ logs[i] \in Logs
  BY <1>1
<1> QED
  BY <1>2 DEF Logs

LEMMA Undone ==
  ASSUME MergeTypeOK, NEW i \in DOMAIN logs, logs' = [logs EXCEPT ![i].undone = TRUE]
  PROVE  /\ DOMAIN logs' = DOMAIN logs /\ Len(logs') = Len(logs)
         /\ logs' \in Seq(Logs)
         /\ logs'[i].undone = TRUE
         /\ \A j \in DOMAIN logs :
              /\ logs'[j].bank = logs[j].bank /\ logs'[j].paper = logs[j].paper
              /\ logs'[j].snap = logs[j].snap /\ logs'[j].docs = logs[j].docs
              /\ j # i => logs'[j] = logs[j]
<1>1. logs[i] \in Logs
  BY LogTyped
<1>2. logs' = [logs EXCEPT ![i] = [logs[i] EXCEPT !.undone = TRUE]]
  OBVIOUS
<1> DEFINE x == [logs[i] EXCEPT !.undone = TRUE]
<1>3. /\ x \in Logs /\ x.undone = TRUE
      /\ x.bank = logs[i].bank /\ x.paper = logs[i].paper
      /\ x.snap = logs[i].snap /\ x.docs = logs[i].docs
  BY <1>1 DEF Logs
<1>4. logs' = [logs EXCEPT ![i] = x]
  BY <1>2
<1> HIDE DEF x
<1>5. /\ DOMAIN logs' = DOMAIN logs /\ logs'[i] = x
      /\ \A j \in DOMAIN logs : j # i => logs'[j] = logs[j]
  BY <1>4 DEF MergeTypeOK
<1>6. logs' \in Seq(Logs) /\ Len(logs') = Len(logs)
  <2>1. logs \in Seq(Logs) /\ i \in 1..Len(logs)
    BY DEF MergeTypeOK
  <2>2. /\ [logs EXCEPT ![i] = x] \in Seq(Logs)
        /\ Len([logs EXCEPT ![i] = x]) = Len(logs)
    BY <1>3, <2>1, ExceptSeq, Zenon
  <2> QED
    BY <1>4, <2>2
<1> QED
  BY <1>3, <1>5, <1>6

\* A merge of p into b, by matcher m.
Merges(m, b, p) ==
  /\ matcher[m].pc = "matching" /\ b = matcher[m].bank /\ p \in matcher[m].todo
  /\ There(b) /\ Mergeable(p) /\ ~AlreadyMerged(b, p)
  /\ Merge(b, p, matcher[m].auto)

\* What the other steps leave alone.
Waits == UNCHANGED <<state, text, home, logs>>
Living == UNCHANGED <<text, home, logs>>
Removes(S) == Remove(S) /\ UNCHANGED <<text, logs>>

LEMMA StepCases ==
  ASSUME MergeTypeOK, MergeNextStep
  PROVE  \/ \E m \in Matchers, b \in Bank, p \in Papers : Merges(m, b, p)
         \/ \E i \in DOMAIN logs : Undo(i)
         \/ Waits
         \/ \E r \in Recs : AddRecord(r)
         \/ \E S \in SUBSET Recs : /\ "archive" \in env
                                   /\ Become(S, {"active", "archived"}, "archived")
         \/ \E S \in SUBSET Recs : /\ "unarchive" \in env
                                   /\ Become(S, {"archived"}, "active")
         \/ \E b \in Bank : EditRecord(b)
         \/ \E S \in SUBSET Recs : Removes(S)
<1>1. ASSUME NEW r \in Recs, AddRecord(r) \/ ArchiveRecord(r) \/ DeleteRecord(r)
                             \/ UnarchiveRecord(r) \/ HardDelete(r)
      PROVE  \/ AddRecord(r)
             \/ /\ "archive" \in env
                /\ Become({r}, {"active", "archived"}, "archived")
             \/ "unarchive" \in env /\ Become({r}, {"archived"}, "active")
             \/ Removes({r})
  BY <1>1 DEF ArchiveRecord, DeleteRecord, UnarchiveRecord, HardDelete, Removes, Become
<1>2. ASSUME NEW S \in SUBSET Recs, BulkArchive(S) \/ BulkUnarchive(S) \/ ExpireRecords(S)
      PROVE  \/ /\ "archive" \in env
                /\ Become(S, {"active", "archived"}, "archived")
             \/ "unarchive" \in env /\ Become(S, {"archived"}, "active")
  BY <1>2 DEF BulkArchive, BulkUnarchive, ExpireRecords, Become
<1>3. ASSUME NEW m \in Matchers, MergeNext(m)
      PROVE  Waits \/ \E b \in Bank, p \in Papers : Merges(m, b, p)
  <2>1. matcher[m].bank \in Bank /\ matcher[m].todo \subseteq Papers
    BY <1>3, MatcherTyped DEF MergeNext
  <2> QED
    BY <1>3, <2>1 DEF MergeNext, Merges, Waits
<1>4. ASSUME NEW m \in Matchers,
             \/ \E p \in Papers : MatchPaper(m, p)
             \/ \E b \in Bank : MatchBank(m, b) \/ \E p \in Papers : MatchManually(m, b, p)
             \/ MatchingEnds(m) \/ ReadMerged(m) \/ ListExpired(m)
      PROVE  Waits
  BY <1>4 DEF MatchPaper, MatchBank, MatchManually, Found, MatchingEnds, ReadMerged,
     ListExpired, Waits
<1>5. ASSUME NEW m \in Matchers, DeleteExpired(m)
      PROVE  \E S \in SUBSET Recs : Removes(S)
  BY <1>5, MatcherTyped DEF DeleteExpired, Removes
<1> QED
  BY <1>1, <1>2, <1>3, <1>4, <1>5 DEF MergeNextStep

\* The log row a merge appends.
Fresh == Len(logs) + 1

\* What a merge writes.
LEMMA MergedRows ==
  ASSUME MergeTypeOK, NEW m \in Matchers, NEW b \in Bank, NEW p \in Papers, Merges(m, b, p)
  PROVE  /\ state[p] = "active" /\ There(b) /\ p \in Recs
         /\ \A d \in Papers : home'[d] = IF home[d] = p THEN b ELSE home[d]
         /\ \A c \in Bank : text'[c] = IF c = b THEN p ELSE text[c]
         /\ \A r \in Recs : state'[r] = IF r = p THEN "archived" ELSE state[r]
         /\ home' \in [Papers -> Recs \cup {Deleted}]
         /\ text' \in [Bank -> {"own", "edited"} \cup Papers]
         /\ state' \in [Recs -> {"absent", "active", "archived", "purged"}]
<1>1. /\ home' = [d \in Papers |-> IF d \in DocsOf(p) THEN b ELSE home[d]]
      /\ text' = [text EXCEPT ![b] = p]
      /\ state' = [state EXCEPT ![p] = "archived"]
      /\ state[p] = "active" /\ There(b)
  BY DEF Merges, Merge, Mergeable, Active
<1>2. /\ home' \in [Papers -> Recs \cup {Deleted}]
      /\ \A d \in Papers : home'[d] = IF home[d] = p THEN b ELSE home[d]
  BY <1>1 DEF MergeTypeOK, DocsOf, Recs
<1>3. /\ text' \in [Bank -> {"own", "edited"} \cup Papers]
      /\ \A c \in Bank : text'[c] = IF c = b THEN p ELSE text[c]
  BY <1>1 DEF MergeTypeOK
<1>4. /\ state' \in [Recs -> {"absent", "active", "archived", "purged"}]
      /\ \A r \in Recs : state'[r] = IF r = p THEN "archived" ELSE state[r]
  BY <1>1 DEF MergeTypeOK, Recs
<1> QED
  BY <1>1, <1>2, <1>3, <1>4 DEF Recs

LEMMA MergedLogs ==
  ASSUME MergeTypeOK, NEW m \in Matchers, NEW b \in Bank, NEW p \in Papers, Merges(m, b, p)
  PROVE  /\ DOMAIN logs' = DOMAIN logs \cup {Fresh} /\ Fresh \notin DOMAIN logs
         /\ \A i \in DOMAIN logs : logs'[i] = logs[i] /\ i < Fresh
         /\ logs'[Fresh].bank = b /\ logs'[Fresh].paper = p /\ logs'[Fresh].snap = text[b]
         /\ logs'[Fresh].undone = FALSE
         /\ logs'[Fresh].docs = DocsOf(p)
         /\ logs' \in Seq(Logs) /\ Len(logs') = Fresh /\ Fresh <= MaxMerges
<1> DEFINE x == [bank |-> b, paper |-> p, snap |-> text[b], docs |-> DocsOf(p),
                 undone |-> FALSE, auto |-> matcher[m].auto]
<1>1. x \in Logs
  BY MatcherTyped DEF Merges, MergeTypeOK, Logs, DocsOf
<1>2. logs' = Append(logs, x) /\ Len(logs) < MaxMerges
  BY DEF Merges, Merge, Snapshot, MovedDocs
<1>3. /\ x.bank = b /\ x.paper = p /\ x.snap = text[b] /\ x.docs = DocsOf(p)
      /\ x.undone = FALSE
  OBVIOUS
<1> HIDE DEF x
<1>4. Len(logs) + 1 <= MaxMerges
  BY <1>2, MergeConstantsOK DEF MergeTypeOK
<1>5. /\ DOMAIN logs' = DOMAIN logs \cup {Fresh} /\ Fresh \notin DOMAIN logs
      /\ \A i \in DOMAIN logs : logs'[i] = logs[i] /\ i < Fresh
      /\ logs' \in Seq(Logs) /\ Len(logs') = Fresh /\ logs'[Fresh] = x
  BY <1>1, <1>2, Appended DEF Fresh
<1> QED
  BY <1>3, <1>4, <1>5 DEF Fresh

\* What a matcher may be doing.
Tasks ==
  {Resting}
  \cup [pc : {"matching"}, bank : Bank, todo : SUBSET Papers, auto : BOOLEAN]
  \cup [pc : {"purging"}, spared : SUBSET Papers]
  \cup [pc : {"deleting"}, doomed : SUBSET Recs]

LEMMA MatcherStep ==
  ASSUME MergeTypeOK, MergeNextStep
  PROVE  matcher' \in [Matchers -> Tasks]
<1>0. matcher \in [Matchers -> Tasks]
  BY DEF MergeTypeOK, Tasks
<1>1. ASSUME NEW m \in Matchers, NEW t \in Tasks, matcher' = [matcher EXCEPT ![m] = t]
      PROVE  matcher' \in [Matchers -> Tasks]
  BY <1>0, <1>1
<1>2. ASSUME NEW m \in Matchers, Rest(m) PROVE matcher' \in [Matchers -> Tasks]
  BY <1>1, <1>2 DEF Rest, Tasks
<1>3. ASSUME NEW m \in Matchers, NEW b \in Bank, NEW T \in SUBSET Papers,
             NEW a \in BOOLEAN, Found(m, b, T, a)
      PROVE  matcher' \in [Matchers -> Tasks]
  BY <1>1, <1>3 DEF Found, Tasks
<1>4. ASSUME NEW m \in Matchers, MergeNext(m) PROVE matcher' \in [Matchers -> Tasks]
  <2>1. CASE Rest(m)
    BY <1>2, <2>1
  <2>2. ASSUME NEW p, matcher' = [matcher EXCEPT ![m].todo = matcher[m].todo \ {p}]
        PROVE  matcher' \in [Matchers -> Tasks]
    <3> DEFINE t == [matcher[m] EXCEPT !.todo = matcher[m].todo \ {p}]
    <3>1. t \in Tasks
      BY <1>4, MatcherTyped DEF MergeNext, Tasks
    <3>2. matcher' = [matcher EXCEPT ![m] = t]
      BY <2>2
    <3> HIDE DEF t
    <3> QED
      BY <1>1, <3>1, <3>2
  <2> QED
    BY <1>4, <2>1, <2>2 DEF MergeNext
<1>5. ASSUME NEW m \in Matchers, MatchingEnds(m) \/ DeleteExpired(m)
      PROVE  matcher' \in [Matchers -> Tasks]
  BY <1>2, <1>5 DEF MatchingEnds, DeleteExpired
<1>6. ASSUME NEW m \in Matchers, ReadMerged(m) \/ ListExpired(m)
      PROVE  matcher' \in [Matchers -> Tasks]
  <2>1. {logs[i].paper : i \in InForce} \subseteq Papers
    BY LogTyped DEF InForce
  <2>2. [pc |-> "purging", spared |-> {logs[i].paper : i \in InForce}] \in Tasks
    BY <2>1 DEF Tasks
  <2>3. \A S \in SUBSET {r \in Recs : state[r] = "archived"} :
          [pc |-> "deleting", doomed |-> S \ matcher[m].spared] \in Tasks
    BY DEF Tasks
  <2> QED
    BY <1>1, <1>6, <2>2, <2>3 DEF ReadMerged, ListExpired
<1>7. ASSUME NEW m \in Matchers, \/ \E p \in Papers : MatchPaper(m, p)
                                 \/ \E b \in Bank : MatchBank(m, b)
                                 \/ \E b \in Bank, p \in Papers : MatchManually(m, b, p)
      PROVE  matcher' \in [Matchers -> Tasks]
  <2>1. \A b : MatchesFor(b) \in SUBSET Papers
    BY DEF MatchesFor
  <2> QED
    BY <1>3, <1>7, <2>1 DEF MatchPaper, MatchBank, MatchManually
<1>8. ASSUME UNCHANGED matcher PROVE matcher' \in [Matchers -> Tasks]
  BY <1>0, <1>8
<1>9. ASSUME \/ \E r \in Recs : \/ AddRecord(r) \/ ArchiveRecord(r) \/ DeleteRecord(r)
                                \/ UnarchiveRecord(r) \/ HardDelete(r)
             \/ \E S \in SUBSET Recs : BulkArchive(S) \/ BulkUnarchive(S)
                                       \/ ExpireRecords(S)
             \/ \E b \in Bank : EditRecord(b)
             \/ \E i \in DOMAIN logs : Undo(i)
      PROVE  UNCHANGED matcher
  BY <1>9 DEF AddRecord, ArchiveRecord, DeleteRecord, UnarchiveRecord, HardDelete,
     BulkArchive, BulkUnarchive, ExpireRecords, EditRecord, Undo, Become
<1> QED
  BY <1>4, <1>5, <1>6, <1>7, <1>8, <1>9 DEF MergeNextStep

LEMMA MergeTypeStep == ASSUME MergeTypeOK, MergeNextStep PROVE MergeTypeOK'
<1> DEFINE States == {"absent", "active", "archived", "purged"}
<1> DEFINE Rows ==
      /\ state' \in [Recs -> States]
      /\ text' \in [Bank -> {"own", "edited"} \cup Papers]
      /\ home' \in [Papers -> Recs \cup {Deleted}]
      /\ logs' \in Seq(Logs) /\ Len(logs') <= MaxMerges
<1>1. /\ state \in [Recs -> States]
      /\ text \in [Bank -> {"own", "edited"} \cup Papers]
      /\ home \in [Papers -> Recs \cup {Deleted}]
      /\ logs \in Seq(Logs) /\ Len(logs) <= MaxMerges
  BY DEF MergeTypeOK
<1>2. ASSUME NEW m \in Matchers, NEW b \in Bank, NEW p \in Papers, Merges(m, b, p)
      PROVE  Rows
  BY <1>2, MergedRows, MergedLogs
<1>3. ASSUME NEW i \in DOMAIN logs, Undo(i) PROVE Rows
  <2>1. logs' \in Seq(Logs) /\ Len(logs') <= MaxMerges
    BY <1>1, <1>3, Undone DEF Undo
  <2>2. logs[i].snap \in {"own", "edited"} \cup Papers /\ logs[i].paper \in Papers
    BY LogTyped DEF Logs
  <2>3. text' \in [Bank -> {"own", "edited"} \cup Papers]
    BY <1>1, <1>3, <2>2 DEF Undo, RestoredText
  <2>4. state' \in [Recs -> States] /\ home' \in [Papers -> Recs \cup {Deleted}]
    BY <1>1, <1>3, <2>2 DEF Undo, RestoredHome, Recs
  <2> QED
    BY <2>1, <2>3, <2>4
<1>4. ASSUME Waits PROVE Rows
  BY <1>1, <1>4 DEF Waits
<1>5. ASSUME \/ \E r \in Recs : AddRecord(r)
             \/ \E b \in Bank : EditRecord(b)
      PROVE  Rows
  BY <1>1, <1>5 DEF AddRecord, EditRecord
<1>6. ASSUME NEW S \in SUBSET Recs, NEW from, NEW to \in States, Become(S, from, to)
      PROVE  Rows
  BY <1>1, <1>6 DEF Become
<1>7. ASSUME NEW S \in SUBSET Recs, Removes(S) PROVE Rows
  BY <1>1, <1>7 DEF Removes, Remove
<1>8. Rows
  <2> HIDE DEF Rows
  <2> QED
    BY <1>2, <1>3, <1>4, <1>5, <1>6, <1>7, StepCases
<1> QED
  BY <1>8, MatcherStep DEF MergeTypeOK, Tasks

\* What a merge and its undo do to the merges in force.
LEMMA MergedForce ==
  ASSUME MergeTypeOK, NEW m \in Matchers, NEW b \in Bank, NEW p \in Papers, Merges(m, b, p)
  PROVE  /\ InForce' = InForce \cup {Fresh}
         /\ \A i \in InForce : i \in DOMAIN logs /\ logs'[i] = logs[i] /\ i < Fresh
<1>1. /\ DOMAIN logs' = DOMAIN logs \cup {Fresh}
      /\ \A i \in DOMAIN logs : logs'[i] = logs[i] /\ i < Fresh
      /\ logs'[Fresh].undone = FALSE
  BY MergedLogs
<1>2. \A i : i \in InForce' <=> i \in InForce \cup {Fresh}
  BY <1>1 DEF InForce
<1>3. InForce' = InForce \cup {Fresh}
  BY <1>2, Zenon
<1>4. \A i \in InForce : i \in DOMAIN logs
  BY DEF InForce
<1> QED
  BY <1>1, <1>3, <1>4

LEMMA Undid ==
  ASSUME MergeTypeOK, NEW i \in DOMAIN logs, Undo(i)
  PROVE  /\ i \in InForce /\ InForce' = InForce \ {i} /\ DOMAIN logs' = DOMAIN logs
         /\ \A j \in DOMAIN logs :
              /\ logs'[j].bank = logs[j].bank /\ logs'[j].paper = logs[j].paper
              /\ logs'[j].snap = logs[j].snap /\ logs'[j].docs = logs[j].docs
         /\ There(logs[i].bank) /\ ("any_order" \notin env => Newest(i))
         /\ \A c \in Bank : text'[c] = IF c = logs[i].bank /\ Active(c) THEN logs[i].snap
                                                                      ELSE text[c]
         /\ \A r \in Recs : state'[r] = IF r = logs[i].paper /\ There(r) THEN "active"
                                                                        ELSE state[r]
         /\ \A d \in Papers :
              home'[d] = IF There(logs[i].paper) /\ d \in logs[i].docs /\ home[d] # Deleted
                         THEN logs[i].paper ELSE home[d]
<1>1. /\ logs[i].paper \in Recs /\ logs[i].bank \in Bank
  BY LogTyped DEF Recs
<1>2. /\ ~logs[i].undone /\ There(logs[i].bank) /\ ("any_order" \notin env => Newest(i))
      /\ logs' = [logs EXCEPT ![i].undone = TRUE]
      /\ text' = RestoredText(logs[i])
      /\ IF There(logs[i].paper)
         THEN /\ state' = [state EXCEPT ![logs[i].paper] = "active"]
              /\ home' = RestoredHome(logs[i])
         ELSE UNCHANGED <<state, home>>
  BY DEF Undo, Undoable
<1>3. /\ DOMAIN logs' = DOMAIN logs /\ logs'[i].undone
      /\ \A j \in DOMAIN logs :
           /\ logs'[j].bank = logs[j].bank /\ logs'[j].paper = logs[j].paper
           /\ logs'[j].snap = logs[j].snap /\ logs'[j].docs = logs[j].docs
           /\ j # i => logs'[j] = logs[j]
  BY <1>2, Undone
<1>4. i \in InForce /\ InForce' = InForce \ {i}
  BY <1>2, <1>3 DEF InForce
<1>5. \A c \in Bank : text'[c] = IF c = logs[i].bank /\ Active(c) THEN logs[i].snap
                                                               ELSE text[c]
  BY <1>1, <1>2 DEF RestoredText, MergeTypeOK
<1>6. \A r \in Recs : state'[r] = IF r = logs[i].paper /\ There(r) THEN "active"
                                                                 ELSE state[r]
  BY <1>1, <1>2 DEF MergeTypeOK
<1>7. \A d \in Papers :
        home'[d] = IF There(logs[i].paper) /\ d \in logs[i].docs /\ home[d] # Deleted
                   THEN logs[i].paper ELSE home[d]
  BY <1>2 DEF RestoredHome
<1> QED
  BY <1>2, <1>3, <1>4, <1>5, <1>6, <1>7

\* Whatever else happens to records leaves the merges alone, and moves a
\* document only by deleting it.
LEMMA LifeGoesOn ==
  ASSUME MergeTypeOK, MergeNextStep,
         ~ \E m \in Matchers, b \in Bank, p \in Papers : Merges(m, b, p),
         ~ \E i \in DOMAIN logs : Undo(i)
  PROVE  /\ UNCHANGED logs
         /\ "edit" \notin env => UNCHANGED text
         /\ \A d \in Papers : home'[d] \in {home[d], Deleted}
         /\ \A r \in Recs :
              /\ state'[r] = "absent" => state[r] = "absent"
              /\ state[r] = "purged" => state'[r] = "purged"
              /\ "unarchive" \notin env /\ state[r] = "archived"
                   => state'[r] \in {"archived", "purged"}
              /\ "archive" \notin env /\ state'[r] = "archived" => state[r] = "archived"
<1>1. CASE Waits
  BY <1>1 DEF Waits
<1>2. CASE \E r \in Recs : AddRecord(r)
  BY <1>2 DEF AddRecord, MergeTypeOK
<1>3. CASE \E S \in SUBSET Recs : /\ "archive" \in env
                                  /\ Become(S, {"active", "archived"}, "archived")
  BY <1>3 DEF Become
<1>4. CASE \E S \in SUBSET Recs : /\ "unarchive" \in env
                                  /\ Become(S, {"archived"}, "active")
  BY <1>4 DEF Become
<1>5. CASE \E b \in Bank : EditRecord(b)
  BY <1>5 DEF EditRecord
<1>6. CASE \E S \in SUBSET Recs : Removes(S)
  BY <1>6 DEF Removes, Remove, There
<1> QED
  BY <1>1, <1>2, <1>3, <1>4, <1>5, <1>6, StepCases

-----------------------------------------------------------------------------
(* Each part is preserved.                                                 *)

LEMMA LoggedStep ==
  ASSUME MergeTypeOK, LoggedOnceThere, HomesAreBanks, MergeNextStep
  PROVE  LoggedOnceThere' /\ HomesAreBanks'
<1> USE DEF LoggedOnceThere, HomesAreBanks
<1>1. ASSUME NEW m \in Matchers, NEW b \in Bank, NEW p \in Papers, Merges(m, b, p)
      PROVE  LoggedOnceThere' /\ HomesAreBanks'
  <2>1. \A d \in Papers : home[d] = p => d = p
    BY MergeConstantsOK DEF Recs
  <2>2. \A d \in Papers : home'[d] \in Bank \cup {d, Deleted}
    BY <1>1, MergedRows
  <2>3. state[p] = "active" /\ p \in Recs
    BY <1>1, MergedRows
  <2>4. ASSUME NEW i \in DOMAIN logs'
        PROVE  state'[logs'[i].paper] # "absent" /\ logs'[i].docs \subseteq {logs'[i].paper}
    <3>1. CASE i = Fresh
      <4>1. logs'[i].paper = p /\ logs'[i].docs = DocsOf(p)
        BY <1>1, <3>1, MergedLogs
      <4>2. state'[p] = "archived"
        BY <1>1, <2>3, MergedRows
      <4> QED
        BY <2>1, <4>1, <4>2 DEF DocsOf
    <3>2. CASE i \in DOMAIN logs
      <4>1. logs'[i] = logs[i] /\ logs[i].paper \in Recs
        BY <1>1, <3>2, MergedLogs, LogTyped DEF Recs
      <4>2. \A r \in Recs : state[r] # "absent" => state'[r] # "absent"
        BY <1>1, MergedRows
      <4> QED
        BY <3>2, <4>1, <4>2
    <3>3. DOMAIN logs' = DOMAIN logs \cup {Fresh}
      BY <1>1, MergedLogs
    <3> QED
      BY <2>4, <3>1, <3>2, <3>3
  <2> QED
    BY <2>2, <2>4
<1>2. ASSUME NEW i \in DOMAIN logs, Undo(i) PROVE LoggedOnceThere' /\ HomesAreBanks'
  <2>1. \A j \in DOMAIN logs : logs[j].paper \in Recs
    BY LogTyped DEF Recs
  <2>2. LoggedOnceThere'
    BY <1>2, <2>1, Undid
  <2>3. logs[i].docs \subseteq {logs[i].paper}
    OBVIOUS
  <2>4. HomesAreBanks'
    BY <1>2, <2>3, Undid
  <2> QED
    BY <2>2, <2>4
<1>3. ASSUME ~ \E m \in Matchers, b \in Bank, p \in Papers : Merges(m, b, p),
             ~ \E i \in DOMAIN logs : Undo(i)
      PROVE  LoggedOnceThere' /\ HomesAreBanks'
  <2>1. \A j \in DOMAIN logs : logs[j].paper \in Recs
    BY LogTyped DEF Recs
  <2> QED
    BY <1>3, <2>1, LifeGoesOn
<1> QED
  BY <1>1, <1>2, <1>3

\* MergedOnce, with the receipts' states.
LEMMA MergedOnceStep ==
  ASSUME MergeTypeOK, MergedAway, MergedOnce, MergeNextStep, UNCHANGED env
  PROVE  MergedAway' /\ MergedOnce'
<1> SUFFICES ASSUME "unarchive" \notin env PROVE MergedAway' /\ MergedOnce'
  BY DEF MergedAway, MergedOnce
<1> DEFINE Away == \A i \in InForce : state[logs[i].paper] \in {"archived", "purged"}
           Once == \A i, j \in InForce : logs[i].paper = logs[j].paper => i = j
<1>1. Away /\ Once
  BY DEF MergedAway, MergedOnce, InForceOf
<1>2. SUFFICES Away' /\ Once'
  BY <1>2 DEF MergedAway, MergedOnce, InForceOf
<1>3. \A j \in InForce : logs[j].paper \in Recs /\ j \in DOMAIN logs
  BY LogTyped DEF Recs, InForce
<1>4. ASSUME NEW m \in Matchers, NEW b \in Bank, NEW p \in Papers, Merges(m, b, p)
      PROVE  Away' /\ Once'
  <2>1. \A j \in InForce : logs[j].paper # p
    BY <1>1, <1>4, MergedRows
  <2>2. /\ \A i \in InForce : logs'[i] = logs[i]
        /\ InForce' = InForce \cup {Fresh} /\ logs'[Fresh].paper = p
    BY <1>4, MergedForce, MergedLogs
  <2>3. \A r \in Recs : state'[r] = IF r = p THEN "archived" ELSE state[r]
    BY <1>4, MergedRows
  <2>4. p \in Recs
    BY DEF Recs
  <2> QED
    BY <1>1, <1>3, <2>1, <2>2, <2>3, <2>4
<1>5. ASSUME NEW i \in DOMAIN logs, Undo(i) PROVE Away' /\ Once'
  <2>1. \A j \in InForce \ {i} : logs[j].paper # logs[i].paper
    BY <1>1, <1>5, Undid
  <2> QED
    BY <1>1, <1>3, <1>5, <2>1, Undid
<1>6. ASSUME ~ \E m \in Matchers, b \in Bank, p \in Papers : Merges(m, b, p),
             ~ \E i \in DOMAIN logs : Undo(i)
      PROVE  Away' /\ Once'
  BY <1>1, <1>3, <1>6, LifeGoesOn DEF InForce
<1> QED
  BY <1>4, <1>5, <1>6

\* DocumentFollowsMerges, with the uniqueness of the mover.
LEMMA MoversStep ==
  ASSUME MergeTypeOK, LoggedOnceThere, HomesAreBanks, OneMover, DocumentFollowsMerges,
         MergeNextStep
  PROVE  OneMover' /\ DocumentFollowsMerges'
<1> DEFINE Follows == \A d \in Papers : home[d] # Deleted =>
      /\ \A i \in InForce : d \in logs[i].docs => home[d] = logs[i].bank
      /\ (\A i \in InForce : d \notin logs[i].docs) => home[d] = d \/ state[d] = "purged"
<1>1. Follows
  BY DEF DocumentFollowsMerges
<1>2. SUFFICES OneMover' /\ Follows'
  BY <1>2 DEF DocumentFollowsMerges
<1>3. \A j \in InForce : logs[j].bank \in Bank /\ j \in DOMAIN logs
                         /\ logs[j].docs \subseteq {logs[j].paper}
  BY LogTyped DEF InForce, LoggedOnceThere
<1>4. ASSUME NEW m \in Matchers, NEW b \in Bank, NEW p \in Papers, Merges(m, b, p)
      PROVE  OneMover' /\ Follows'
  <2>1. \A d \in Papers : home[d] = p => d = p /\ \A j \in InForce : d \notin logs[j].docs
    <3>1. p \notin Bank /\ p # Deleted
      BY MergeConstantsOK DEF Recs
    <3> QED
      BY <1>1, <1>3, <3>1 DEF HomesAreBanks
  <2>2. ASSUME NEW d \in Papers, home'[d] # Deleted
        PROVE  /\ \A i \in InForce' : d \in logs'[i].docs => home'[d] = logs'[i].bank
               /\ (\A i \in InForce' : d \notin logs'[i].docs)
                    => home'[d] = d \/ state'[d] = "purged"
               /\ \A i, j \in InForce' :
                    d \in logs'[i].docs /\ d \in logs'[j].docs => i = j
    <3>0. /\ InForce' = InForce \cup {Fresh}
          /\ \A i \in InForce : logs'[i] = logs[i]
          /\ d \in logs'[Fresh].docs <=> home[d] = p
          /\ logs'[Fresh].bank = b
          /\ home'[d] = IF home[d] = p THEN b ELSE home[d]
      <4>1. /\ InForce' = InForce \cup {Fresh}
            /\ \A i \in InForce : logs'[i] = logs[i]
        BY <1>4, MergedForce
      <4>2. logs'[Fresh].docs = DocsOf(p) /\ logs'[Fresh].bank = b
        BY <1>4, MergedLogs
      <4>3. home'[d] = IF home[d] = p THEN b ELSE home[d]
        BY <1>4, MergedRows
      <4> QED
        BY <4>1, <4>2, <4>3 DEF DocsOf
    <3>1. CASE home[d] = p
      BY <2>1, <3>0, <3>1
    <3>2. CASE home[d] # p
      <4>1. home'[d] = home[d] /\ d \notin logs'[Fresh].docs
        BY <3>0, <3>2
      <4>2. state[d] = "purged" => state'[d] = "purged"
        BY <1>4, MergedRows DEF Recs
      <4> QED
        BY <1>1, <2>2, <3>0, <4>1, <4>2 DEF OneMover
    <3> QED
      BY <3>1, <3>2
  <2> QED
    BY <2>2 DEF OneMover
<1>5. ASSUME NEW i \in DOMAIN logs, Undo(i) PROVE OneMover' /\ Follows'
  <2>1. ASSUME NEW d \in Papers, home'[d] # Deleted
        PROVE  /\ \A j \in InForce' : d \in logs'[j].docs => home'[d] = logs'[j].bank
               /\ (\A j \in InForce' : d \notin logs'[j].docs)
                    => home'[d] = d \/ state'[d] = "purged"
               /\ \A j, k \in InForce' :
                    d \in logs'[j].docs /\ d \in logs'[k].docs => j = k
    <3>0. /\ home[d] # Deleted /\ d \in Recs /\ i \in InForce
          /\ \A j \in InForce' : j \in InForce /\ j # i /\ logs'[j].docs = logs[j].docs
                                 /\ logs'[j].bank = logs[j].bank
      BY <1>3, <1>5, <2>1, Undid DEF Recs
    <3>1. CASE d \in logs[i].docs
      <4>1. d = logs[i].paper /\ \A j \in InForce' : d \notin logs'[j].docs
        BY <1>3, <3>0, <3>1 DEF OneMover
      <4>2. home'[d] = d \/ state'[d] = "purged"
        <5>1. CASE There(d)
          BY <1>5, <3>0, <3>1, <4>1, <5>1, Undid
        <5>2. CASE ~There(d)
          <6>1. state[d] = "purged"
            BY <3>0, <4>1, <5>2 DEF There, MergeTypeOK, LoggedOnceThere
          <6> QED
            BY <1>5, <3>0, <5>2, <6>1, Undid DEF There
        <5> QED
          BY <5>1, <5>2
      <4> QED
        BY <4>1, <4>2
    <3>2. CASE d \notin logs[i].docs
      <4>1. home'[d] = home[d] /\ (state[d] = "purged" => state'[d] = "purged")
        BY <1>5, <3>0, <3>2, Undid DEF There
      <4>2. InForce = InForce' \cup {i}
        BY <1>5, Undid
      <4> QED
        BY <1>1, <3>0, <3>2, <4>1, <4>2 DEF OneMover
    <3> QED
      BY <3>1, <3>2
  <2> QED
    BY <2>1 DEF OneMover
<1>6. ASSUME ~ \E m \in Matchers, b \in Bank, p \in Papers : Merges(m, b, p),
             ~ \E i \in DOMAIN logs : Undo(i)
      PROVE  OneMover' /\ Follows'
  <2>1. /\ UNCHANGED logs /\ \A d \in Papers : home'[d] \in {home[d], Deleted}
        /\ \A d \in Papers : state[d] = "purged" => state'[d] = "purged"
    BY <1>6, LifeGoesOn DEF Recs
  <2>2. InForce' = InForce
    BY <2>1 DEF InForce
  <2> QED
    BY <1>1, <2>1, <2>2 DEF OneMover
<1> QED
  BY <1>4, <1>5, <1>6

LEMMA BanksStep ==
  ASSUME MergeTypeOK, BanksStay, MergeNextStep, UNCHANGED env
  PROVE  BanksStay'
<1> SUFFICES ASSUME "archive" \notin env, NEW b \in Bank PROVE state'[b] # "archived"
  BY DEF BanksStay
<1>1. state[b] # "archived" /\ b \in Recs /\ b \notin Papers
  BY MergeConstantsOK DEF BanksStay, Recs
<1>2. CASE \E m \in Matchers, c \in Bank, p \in Papers : Merges(m, c, p)
  BY <1>1, <1>2, MergedRows
<1>3. CASE \E i \in DOMAIN logs : Undo(i)
  BY <1>1, <1>3, Undid
<1> QED
  BY <1>1, <1>2, <1>3, LifeGoesOn

\* The chain of one bank record.
ChainOf(b) ==
  /\ InForceInto(b) = {} => text[b] = "own"
  /\ \A i \in InForceInto(b) :
       (\A j \in InForceInto(b) : j <= i) => text[b] = logs[i].paper
  /\ \A i \in InForceInto(b) :
       (\A j \in InForceInto(b) : i <= j) => logs[i].snap = "own"
  /\ \A i, j \in InForceInto(b) :
       j < i /\ (\A k \in InForceInto(b) : k <= j \/ i <= k)
         => logs[i].snap = logs[j].paper

LEMMA ChainMerged ==
  ASSUME MergeTypeOK, NEW m \in Matchers, NEW b \in Bank, NEW p \in Papers,
         Merges(m, b, p), NEW c \in Bank, ChainOf(c)
  PROVE  ChainOf(c)'
<1> DEFINE Old == InForceInto(c)
<1>1. /\ InForce' = InForce \cup {Fresh}
      /\ \A i \in InForce : i \in DOMAIN logs /\ logs'[i] = logs[i] /\ i < Fresh
  BY MergedForce
<1>2. logs'[Fresh].bank = b /\ logs'[Fresh].paper = p /\ logs'[Fresh].snap = text[b]
  BY MergedLogs
<1>3. text'[c] = IF c = b THEN p ELSE text[c]
  BY MergedRows
<1>4. /\ Old \subseteq InForce /\ Fresh \in Nat
      /\ \A i \in Old : i \in Nat /\ i < Fresh
  <2>1. \A i \in Old : i \in InForce /\ i \in DOMAIN logs
    BY DEF InForceInto, InForce
  <2>2. Len(logs) \in Nat
    BY DEF MergeTypeOK
  <2> QED
    BY <1>1, <2>1, <2>2, LogTyped DEF Fresh
<1>5. CASE c # b
  <2>1. InForceInto(c)' = Old
    BY <1>1, <1>2, <1>5 DEF InForceInto
  <2> QED
    BY <1>1, <1>3, <1>4, <1>5, <2>1 DEF ChainOf
<1>6. CASE c = b
  <2>1. InForceInto(c)' = Old \cup {Fresh}
    BY <1>1, <1>2, <1>6 DEF InForceInto
  <2> HIDE DEF Old
  <2>2. /\ Old = {} => text[c] = "own"
        /\ \A i \in Old : (\A j \in Old : j <= i) => text[c] = logs[i].paper
        /\ \A i \in Old : (\A j \in Old : i <= j) => logs[i].snap = "own"
        /\ \A i, j \in Old : j < i /\ (\A k \in Old : k <= j \/ i <= k)
                               => logs[i].snap = logs[j].paper
    BY DEF ChainOf, Old
  <2>3. \A i \in Old : logs'[i] = logs[i]
    BY <1>1, <1>4
  <2>4. ASSUME NEW i \in Old \cup {Fresh}, \A j \in Old \cup {Fresh} : j <= i
        PROVE  text'[c] = logs'[i].paper
    <3>1. i = Fresh
      BY <1>4, <2>4
    <3> QED
      BY <1>2, <1>3, <1>6, <3>1
  <2>5. ASSUME NEW i \in Old \cup {Fresh}, \A j \in Old \cup {Fresh} : i <= j
        PROVE  logs'[i].snap = "own"
    <3>1. CASE i = Fresh
      <4>1. Old = {}
        BY <1>4, <2>5, <3>1
      <4> QED
        BY <1>2, <1>6, <2>2, <3>1, <4>1
    <3>2. CASE i \in Old
      BY <2>2, <2>3, <2>5, <3>2
    <3> QED
      BY <3>1, <3>2
  <2>6. ASSUME NEW i \in Old \cup {Fresh}, NEW j \in Old \cup {Fresh}, j < i,
               \A k \in Old \cup {Fresh} : k <= j \/ i <= k
        PROVE  logs'[i].snap = logs'[j].paper
    <3>1. j \in Old
      BY <1>4, <2>6
    <3>2. CASE i = Fresh
      <4>1. \A k \in Old : k <= j
        BY <1>4, <2>6, <3>1, <3>2
      <4> QED
        BY <1>2, <1>6, <2>2, <2>3, <3>1, <3>2, <4>1
    <3>3. CASE i \in Old
      BY <2>2, <2>3, <2>6, <3>1, <3>3
    <3> QED
      BY <3>2, <3>3
  <2> QED
    BY <2>1, <2>4, <2>5, <2>6 DEF ChainOf
<1> QED
  BY <1>5, <1>6

LEMMA ChainUndone ==
  ASSUME MergeTypeOK, NEW i \in DOMAIN logs, Undo(i), "any_order" \notin env,
         \A b \in Bank : state[b] # "archived", NEW c \in Bank, ChainOf(c)
  PROVE  ChainOf(c)'
<1> DEFINE Old == InForceInto(c)
           New == InForceInto(c)'
<1>1. /\ InForce' = InForce \ {i} /\ i \in InForce
      /\ \A j \in DOMAIN logs :
           /\ logs'[j].bank = logs[j].bank /\ logs'[j].paper = logs[j].paper
           /\ logs'[j].snap = logs[j].snap
      /\ There(logs[i].bank) /\ Newest(i)
      /\ text'[c] = IF c = logs[i].bank /\ Active(c) THEN logs[i].snap ELSE text[c]
  BY Undid
<1>2. InForce \subseteq DOMAIN logs
  BY DEF InForce
<1>3. New = Old \ {i}
  BY <1>1, <1>2 DEF InForceInto
<1>4. Old \subseteq DOMAIN logs /\ \A j \in Old : j \in Nat
  BY <1>2, LogTyped DEF InForceInto
<1>5. /\ Old = {} => text[c] = "own"
      /\ \A j \in Old : (\A k \in Old : k <= j) => text[c] = logs[j].paper
      /\ \A j \in Old : (\A k \in Old : j <= k) => logs[j].snap = "own"
      /\ \A j, k \in Old : k < j /\ (\A l \in Old : l <= k \/ j <= l)
                             => logs[j].snap = logs[k].paper
  BY DEF ChainOf
<1>6. CASE c # logs[i].bank
  <2>1. New = Old
    BY <1>3, <1>6 DEF InForceInto
  <2> QED
    BY <1>1, <1>4, <1>6, <2>1 DEF ChainOf
<1>7. CASE c = logs[i].bank
  <2>1. i \in Old /\ text'[c] = logs[i].snap /\ \A k \in Old : k <= i
    BY <1>1, <1>7 DEF InForceInto, There, Active, Newest
  <2> HIDE DEF Old, New
  <2>2. New = {} => text'[c] = "own"
    <3> SUFFICES ASSUME New = {} PROVE text'[c] = "own"
      OBVIOUS
    <3>1. \A k \in Old : k = i
      BY <1>3
    <3> QED
      BY <1>4, <1>5, <2>1, <3>1
  <2>3. ASSUME NEW j \in New, \A k \in New : k <= j
        PROVE  text'[c] = logs'[j].paper
    <3>1. j \in Old /\ j # i /\ j < i
      BY <1>3, <1>4, <2>1
    <3>2. \A l \in Old : l <= j \/ i <= l
      BY <1>3, <1>4, <2>1, <2>3
    <3>3. logs[i].snap = logs[j].paper
      BY <1>5, <2>1, <3>1, <3>2
    <3>4. logs'[j].paper = logs[j].paper
      BY <1>1, <1>4, <3>1
    <3> QED
      BY <2>1, <3>3, <3>4
  <2>4. ASSUME NEW j \in New, \A k \in New : j <= k
        PROVE  logs'[j].snap = "own"
    <3>1. j \in Old /\ \A k \in Old : j <= k
      BY <1>3, <1>4, <2>1, <2>4
    <3> QED
      BY <1>1, <1>4, <1>5, <3>1
  <2>5. ASSUME NEW j \in New, NEW k \in New, k < j, \A l \in New : l <= k \/ j <= l
        PROVE  logs'[j].snap = logs'[k].paper
    <3>1. j \in Old /\ k \in Old /\ \A l \in Old : l <= k \/ j <= l
      BY <1>3, <1>4, <2>1, <2>5
    <3> QED
      BY <1>1, <1>4, <1>5, <2>5, <3>1
  <2> QED
    BY <2>2, <2>3, <2>4, <2>5 DEF ChainOf, New
<1> QED
  BY <1>6, <1>7

LEMMA ChainStep ==
  ASSUME MergeTypeOK, BanksStay, SnapshotsChain, MergeNextStep, UNCHANGED env
  PROVE  SnapshotsChain'
<1> SUFFICES ASSUME env \cap {"any_order", "edit", "archive"} = {}, NEW c \in Bank
             PROVE  ChainOf(c)'
  BY DEF SnapshotsChain, ChainOf
<1>1. ChainOf(c)
  BY DEF SnapshotsChain, ChainOf
<1>2. CASE \E m \in Matchers, b \in Bank, p \in Papers : Merges(m, b, p)
  BY <1>1, <1>2, ChainMerged
<1>3. CASE \E i \in DOMAIN logs : Undo(i)
  BY <1>1, <1>3, ChainUndone DEF BanksStay
<1>4. ASSUME UNCHANGED <<logs, text>> PROVE ChainOf(c)'
  BY <1>1, <1>4 DEF ChainOf, InForceInto, InForce
<1> QED
  BY <1>2, <1>3, <1>4, LifeGoesOn

-----------------------------------------------------------------------------
(* The theorems.                                                           *)

MergeInv ==
  /\ MergeTypeOK /\ LoggedOnceThere /\ HomesAreBanks /\ OneMover /\ MergedAway
  /\ BanksStay /\ SnapshotsChain /\ MergedOnce /\ DocumentFollowsMerges

LEMMA MergeStarts == MergeInit => MergeInv
<1> SUFFICES ASSUME MergeInit PROVE MergeInv
  OBVIOUS
<1>1. logs = <<>> /\ DOMAIN logs = {} /\ InForce = {}
  BY DEF MergeInit, InForce
<1>2. MergeTypeOK
  BY <1>1, MergeConstantsOK DEF MergeInit, MergeTypeOK, Recs
<1>3. /\ LoggedOnceThere /\ HomesAreBanks /\ OneMover /\ MergedAway /\ BanksStay
      /\ MergedOnce
  BY <1>1, MergeConstantsOK DEF MergeInit, LoggedOnceThere, HomesAreBanks, OneMover,
     MergedAway, BanksStay, MergedOnce, Recs
<1>4. SnapshotsChain /\ DocumentFollowsMerges
  BY <1>1 DEF MergeInit, SnapshotsChain, DocumentFollowsMerges, InForceInto
<1> QED
  BY <1>2, <1>3, <1>4 DEF MergeInv

LEMMA MergeSteps ==
  MergeInv /\ [MergeNextStep /\ UNCHANGED env]_<<env, mergeVars>> => MergeInv'
<1> SUFFICES ASSUME MergeInv, [MergeNextStep /\ UNCHANGED env]_<<env, mergeVars>>
             PROVE  MergeInv'
  OBVIOUS
<1>1. CASE MergeNextStep /\ UNCHANGED env
  BY <1>1, MergeTypeStep, LoggedStep, MergedOnceStep, MoversStep, BanksStep, ChainStep
  DEF MergeInv
<1>2. CASE UNCHANGED <<env, mergeVars>>
  BY <1>2 DEF mergeVars, MergeInv, MergeTypeOK, LoggedOnceThere, HomesAreBanks, OneMover,
     MergedAway, BanksStay, SnapshotsChain, MergedOnce, DocumentFollowsMerges,
     InForceInto, InForceOf, InForce
<1> QED
  BY <1>1, <1>2

\* matching.py and services.py: the rows of records, documents and merge logs
\* keep the shape their models give them, and the rest of the invariant.
THEOREM MergeInvariant == MergeSpec => []MergeInv
<1> QED
  BY MergeStarts, MergeSteps, PTL DEF MergeSpec

\* unique_active_merge and the check under the row locks: however matchers,
\* users, undos, archiving and purges interleave, a receipt has one merge in
\* force and is not shown beside its bank record, unless someone restores it
\* from the archive.
THEOREM MergedOnceAlways == MergeSpec => []MergedOnce
<1>1. MergeInv => MergedOnce
  BY DEF MergeInv
<1> QED
  BY <1>1, MergeInvariant, PTL

\* merge_document_into_plaid and undo_merge: in every scenario a document is
\* where the one merge in force that moved it says, or with its own receipt.
THEOREM DocumentFollowsMergesAlways == MergeSpec => []DocumentFollowsMerges
<1>1. MergeInv => DocumentFollowsMerges
  BY DEF MergeInv
<1> QED
  BY <1>1, MergeInvariant, PTL

\* _restore_plaid_from_snapshot: any number of merges into a bank record,
\* undone last in, first out, leave it as it was before the first of them.
THEOREM UndoRestoresAlways == MergeSpec => []UndoRestores
<1>1. MergeInv => UndoRestores
  BY DEF MergeInv, SnapshotsChain, UndoRestores
<1> QED
  BY <1>1, MergeInvariant, PTL
==============================================================================
