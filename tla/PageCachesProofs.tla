---------------------------- MODULE PageCachesProofs ----------------------------
(***************************************************************************)
(* What the cached counts and the dashboard may show, for any number of    *)
(* requests that fill them and of writers that signal.                     *)
(***************************************************************************)
EXTENDS PageCaches, FiniteSetTheorems, TLAPS

-----------------------------------------------------------------------------
(* The inductive invariant, part by part.                                  *)

Saved == {w \in Writers : writer[w] = "saved"}
Signalled == {w \in Writers : writer[w] = "signalled"}

\* Each raise of the version stands for a change that is made or will be.
VersionIsEarned ==
  /\ rows + Cardinality(Signalled) <= MaxWrites
  /\ version + Cardinality(Saved) <= rows + Cardinality(Signalled)

\* Nothing is kept under a version that is yet to come.
NoFutureCounts ==
  /\ \A v \in Versions : v > version => counts[v] = {}
  /\ \A p \in Pages :
       page[p].pc \in {"asking", "counting", "counted"} => page[p].key <= version

AllOut == \A w \in Writers : writer[w] = "none"

\* With every change autocommitted and every signal sent, what is counted or
\* stored under the current version is what the table holds.
CountsAreCurrent ==
  env \cap {"transaction", "silent"} = {} =>
    /\ \A w \in Writers : writer[w] # "signalled"
    /\ AllOut =>
         /\ counts[version] \subseteq {rows}
         /\ \A p \in Pages :
              page[p].pc = "counted" /\ page[p].key = version => page[p].value = rows

DashboardIsCurrent ==
  env \cap {"transaction", "silent"} = {} /\ AllOut /\ ~missed =>
    /\ dashboard \subseteq {rows}
    /\ \A p \in Pages : page[p].pc = "gathered" => page[p].value = rows

-----------------------------------------------------------------------------
(* The parts, step by step.                                                *)

LEMMA WritersCounted ==
  /\ IsFiniteSet(Saved) /\ Cardinality(Saved) \in Nat
  /\ IsFiniteSet(Signalled) /\ Cardinality(Signalled) \in Nat
<1>1. Saved \subseteq Writers /\ Signalled \subseteq Writers
  BY DEF Saved, Signalled
<1> QED BY <1>1, CacheConstantsOK, FS_Subset, FS_CardinalityType

\* A save comes before its signal; a signal inside a transaction, before its commit.
LEMMA EarnedStep ==
  ASSUME CacheTypeOK, VersionIsEarned, CacheNext
  PROVE  VersionIsEarned'
<1> USE DEF VersionIsEarned
<1>0. /\ rows \in Nat /\ version \in Nat /\ MaxWrites \in Nat
      /\ Cardinality(Saved) \in Nat /\ Cardinality(Signalled) \in Nat
  BY WritersCounted, CacheConstantsOK DEF CacheTypeOK, Versions
<1>1. ASSUME NEW w \in Writers, SaveRow(w) PROVE VersionIsEarned'
  <2>1. /\ Saved' = Saved \cup {w} /\ w \notin Saved
        /\ Signalled' = Signalled
    BY <1>1 DEF SaveRow, CacheTypeOK, Saved, Signalled
  <2>2. /\ Cardinality(Saved') = Cardinality(Saved) + 1
        /\ Cardinality(Signalled') = Cardinality(Signalled)
    BY <2>1, WritersCounted, FS_AddElement, FS_RemoveElement
  <2>3. rows + Cardinality(Signalled) < MaxWrites /\ rows' = rows + 1 /\ version' = version
    BY <1>1 DEF SaveRow, CanWrite, Pending, Signalled, Bump
  <2> QED BY <1>0, <2>2, <2>3
<1>2. ASSUME NEW w \in Writers, SignalSaved(w) PROVE VersionIsEarned'
  <2>1. /\ Saved' = Saved \ {w} /\ w \in Saved
        /\ Signalled' = Signalled
    BY <1>2 DEF SignalSaved, CacheTypeOK, Saved, Signalled
  <2>2. /\ Cardinality(Saved') = Cardinality(Saved) - 1
        /\ Cardinality(Signalled') = Cardinality(Signalled)
    BY <2>1, WritersCounted, FS_AddElement, FS_RemoveElement
  <2>3. rows' = rows /\ version' = version + 1
    BY <1>2 DEF SignalSaved, CanWrite, Pending, Signalled, Bump
  <2> QED BY <1>0, <2>2, <2>3
<1>3. ASSUME NEW w \in Writers, SignalEarly(w) PROVE VersionIsEarned'
  <2>1. /\ Signalled' = Signalled \cup {w} /\ w \notin Signalled
        /\ Saved' = Saved
    BY <1>3 DEF SignalEarly, CacheTypeOK, Saved, Signalled
  <2>2. /\ Cardinality(Signalled') = Cardinality(Signalled) + 1
        /\ Cardinality(Saved') = Cardinality(Saved)
    BY <2>1, WritersCounted, FS_AddElement, FS_RemoveElement
  <2>3. rows + Cardinality(Signalled) < MaxWrites /\ rows' = rows /\ version' = version + 1
    BY <1>3 DEF SignalEarly, CanWrite, Pending, Signalled, Bump
  <2> QED BY <1>0, <2>2, <2>3
<1>4. ASSUME NEW w \in Writers, Commit(w) PROVE VersionIsEarned'
  <2>1. /\ Signalled' = Signalled \ {w} /\ w \in Signalled
        /\ Saved' = Saved
    BY <1>4 DEF Commit, CacheTypeOK, Saved, Signalled
  <2>2. /\ Cardinality(Signalled') = Cardinality(Signalled) - 1
        /\ Cardinality(Saved') = Cardinality(Saved)
    BY <2>1, WritersCounted, FS_AddElement, FS_RemoveElement
  <2>3. rows' = rows + 1 /\ version' = version
    BY <1>4 DEF Commit, CanWrite, Pending, Signalled, Bump
  <2> QED BY <1>0, <2>2, <2>3
<1>5. CASE WriteSilently
  <2>1. Saved' = Saved /\ Signalled' = Signalled
    BY <1>5 DEF WriteSilently, Saved, Signalled
  <2>2. rows + Cardinality(Signalled) < MaxWrites /\ rows' = rows + 1 /\ version' = version
    BY <1>5 DEF WriteSilently, CanWrite, Pending, Signalled
  <2> QED BY <1>0, <2>1, <2>2
<1>6. CASE EntryExpires
  <2>1. Saved' = Saved /\ Signalled' = Signalled /\ rows' = rows /\ version' = version
    BY <1>6 DEF EntryExpires, Saved, Signalled
  <2> QED BY <1>0, <2>1
<1>7. CASE VersionExpires
  <2>1. Saved' = Saved /\ Signalled' = Signalled /\ rows' = rows /\ version' \in {version, 0}
    BY <1>7 DEF VersionExpires, Saved, Signalled
  <2> QED BY <1>0, <2>1
<1>8. ASSUME NEW p \in Pages, OpenList(p) PROVE VersionIsEarned'
  <2>1. Saved' = Saved /\ Signalled' = Signalled /\ rows' = rows /\ version' = version
    BY <1>8 DEF OpenList, Saved, Signalled
  <2> QED BY <1>0, <2>1
<1>9. ASSUME NEW p \in Pages, FindCount(p) PROVE VersionIsEarned'
  <2>1. Saved' = Saved /\ Signalled' = Signalled /\ rows' = rows /\ version' = version
    BY <1>9 DEF FindCount, Saved, Signalled
  <2> QED BY <1>0, <2>1
<1>10. ASSUME NEW p \in Pages, CountRows(p) PROVE VersionIsEarned'
  <2>1. Saved' = Saved /\ Signalled' = Signalled /\ rows' = rows /\ version' = version
    BY <1>10 DEF CountRows, Saved, Signalled
  <2> QED BY <1>0, <2>1
<1>11. ASSUME NEW p \in Pages, StoreCount(p) PROVE VersionIsEarned'
  <2>1. Saved' = Saved /\ Signalled' = Signalled /\ rows' = rows /\ version' = version
    BY <1>11 DEF StoreCount, Saved, Signalled
  <2> QED BY <1>0, <2>1
<1>12. ASSUME NEW p \in Pages, OpenDashboard(p) PROVE VersionIsEarned'
  <2>1. Saved' = Saved /\ Signalled' = Signalled /\ rows' = rows /\ version' = version
    BY <1>12 DEF OpenDashboard, Saved, Signalled
  <2> QED BY <1>0, <2>1
<1>13. ASSUME NEW p \in Pages, GatherDashboard(p) PROVE VersionIsEarned'
  <2>1. Saved' = Saved /\ Signalled' = Signalled /\ rows' = rows /\ version' = version
    BY <1>13 DEF GatherDashboard, Saved, Signalled
  <2> QED BY <1>0, <2>1
<1>14. ASSUME NEW p \in Pages, StoreDashboard(p) PROVE VersionIsEarned'
  <2>1. Saved' = Saved /\ Signalled' = Signalled /\ rows' = rows /\ version' = version
    BY <1>14 DEF StoreDashboard, Saved, Signalled
  <2> QED BY <1>0, <2>1
<1>15. ASSUME NEW p \in Pages, OpenMetrics(p) PROVE VersionIsEarned'
  <2>1. Saved' = Saved /\ Signalled' = Signalled /\ rows' = rows /\ version' = version
    BY <1>15 DEF OpenMetrics, Saved, Signalled
  <2> QED BY <1>0, <2>1
<1>16. ASSUME NEW p \in Pages, BuildMetrics(p) PROVE VersionIsEarned'
  <2>1. Saved' = Saved /\ Signalled' = Signalled /\ rows' = rows /\ version' = version
    BY <1>16 DEF BuildMetrics, Saved, Signalled
  <2> QED BY <1>0, <2>1
<1>17. ASSUME NEW p \in Pages, StoreMetrics(p) PROVE VersionIsEarned'
  <2>1. Saved' = Saved /\ Signalled' = Signalled /\ rows' = rows /\ version' = version
    BY <1>17 DEF StoreMetrics, Saved, Signalled
  <2> QED BY <1>0, <2>1
<1> QED BY <1>1, <1>2, <1>3, <1>4, <1>5, <1>6, <1>7, <1>8, <1>9, <1>10, <1>11, <1>12,
           <1>13, <1>14, <1>15, <1>16, <1>17 DEF CacheNext

LEMMA PageTyped ==
  ASSUME CacheTypeOK, NEW p \in Pages
  PROVE  /\ page[p].pc \in {"asking", "counting", "counted"} => page[p].key \in Versions
         /\ page[p].pc \in {"counted", "gathered", "measured"} => page[p].value \in Versions
BY DEF CacheTypeOK, NoPage

\* The version never passes the number of changes.
LEMMA CacheTypeStep ==
  ASSUME CacheTypeOK, VersionIsEarned, VersionIsEarned', CacheNext
  PROVE  CacheTypeOK'
<1> USE DEF CacheTypeOK, Cached, Shows, IsAt
<1>0. /\ rows \in Nat /\ version \in Nat /\ MaxWrites \in Nat
      /\ Cardinality(Saved) \in Nat /\ Cardinality(Signalled) \in Nat
  BY WritersCounted, CacheConstantsOK DEF Versions
<1>1. ASSUME NEW w \in Writers, SaveRow(w) PROVE CacheTypeOK'
  <2>1. rows' \in Versions
    BY <1>1, <1>0 DEF SaveRow, CanWrite, Pending, Signalled, Versions
  <2> QED BY <1>1, <2>1 DEF SaveRow
<1>2. ASSUME NEW w \in Writers, SignalSaved(w) PROVE CacheTypeOK'
  <2>1. Saved' = Saved \ {w} /\ Signalled' = Signalled
    BY <1>2 DEF SignalSaved, Saved, Signalled
  <2>2. Cardinality(Saved') \in Nat
    BY <2>1, WritersCounted, FS_RemoveElement, FS_CardinalityType
  <2>3. version' \in Versions
    BY <1>2, <1>0, <2>1, <2>2 DEF SignalSaved, Bump, Versions, VersionIsEarned
  <2> QED BY <1>2, <2>3 DEF SignalSaved, DropDashboard
<1>3. ASSUME NEW w \in Writers, SignalEarly(w) PROVE CacheTypeOK'
  <2>1. Saved' = Saved /\ Signalled' = Signalled \cup {w}
    BY <1>3 DEF SignalEarly, Saved, Signalled
  <2>2. Cardinality(Signalled') \in Nat
    BY <2>1, WritersCounted, FS_AddElement, FS_CardinalityType
  <2>3. version' \in Versions
    BY <1>3, <1>0, <2>1, <2>2 DEF SignalEarly, Bump, Versions, VersionIsEarned
  <2> QED BY <1>3, <2>3 DEF SignalEarly, DropDashboard
<1>4. ASSUME NEW w \in Writers, Commit(w) PROVE CacheTypeOK'
  <2>1. Signalled' = Signalled \ {w}
    BY <1>4 DEF Commit, Signalled
  <2>2. Cardinality(Signalled') \in Nat
    BY <2>1, WritersCounted, FS_RemoveElement, FS_CardinalityType
  <2>3. rows' \in Versions
    BY <1>4, <1>0, <2>1, <2>2 DEF Commit, Versions, VersionIsEarned
  <2> QED BY <1>4, <2>3 DEF Commit
<1>5. CASE WriteSilently
  <2>1. rows' \in Versions
    BY <1>5, <1>0 DEF WriteSilently, CanWrite, Pending, Signalled, Versions
  <2> QED BY <1>5, <2>1 DEF WriteSilently, DropDashboard
<1>6. CASE EntryExpires
  BY <1>6 DEF EntryExpires
<1>7. CASE VersionExpires
  BY <1>7, <1>0 DEF VersionExpires, Versions
<1>8. ASSUME NEW p \in Pages, OpenList(p) PROVE CacheTypeOK'
  BY <1>8 DEF OpenList
<1>9. ASSUME NEW p \in Pages, FindCount(p) PROVE CacheTypeOK'
  <2>1. page[p].key \in Versions
    BY <1>9, PageTyped DEF FindCount
  <2> QED BY <1>9, <2>1 DEF FindCount, NoPage
<1>10. ASSUME NEW p \in Pages, CountRows(p) PROVE CacheTypeOK'
  <2>1. page[p].key \in Versions
    BY <1>10, PageTyped DEF CountRows
  <2> QED BY <1>10, <2>1 DEF CountRows
<1>11. ASSUME NEW p \in Pages, StoreCount(p) PROVE CacheTypeOK'
  <2>1. page[p].key \in Versions /\ page[p].value \in Versions
    BY <1>11, PageTyped DEF StoreCount
  <2> QED BY <1>11, <2>1 DEF StoreCount, StoredUnder
<1>12. ASSUME NEW p \in Pages, OpenDashboard(p) PROVE CacheTypeOK'
  BY <1>12 DEF OpenDashboard
<1>13. ASSUME NEW p \in Pages, GatherDashboard(p) PROVE CacheTypeOK'
  BY <1>13 DEF GatherDashboard
<1>14. ASSUME NEW p \in Pages, StoreDashboard(p) PROVE CacheTypeOK'
  <2>1. page[p].value \in Versions
    BY <1>14, PageTyped DEF StoreDashboard
  <2> QED BY <1>14, <2>1 DEF StoreDashboard
<1>15. ASSUME NEW p \in Pages, OpenMetrics(p) PROVE CacheTypeOK'
  BY <1>15 DEF OpenMetrics
<1>16. ASSUME NEW p \in Pages, BuildMetrics(p) PROVE CacheTypeOK'
  BY <1>16 DEF BuildMetrics
<1>17. ASSUME NEW p \in Pages, StoreMetrics(p) PROVE CacheTypeOK'
  <2>1. page[p].value \in Versions
    BY <1>17, PageTyped DEF StoreMetrics
  <2> QED BY <1>17, <2>1 DEF StoreMetrics
<1> QED BY <1>1, <1>2, <1>3, <1>4, <1>5, <1>6, <1>7, <1>8, <1>9, <1>10, <1>11, <1>12,
           <1>13, <1>14, <1>15, <1>16, <1>17 DEF CacheNext

\* Keys are made of the version that is there; only expiry lowers it.
LEMMA FutureStep ==
  ASSUME CacheTypeOK, NoFutureCounts, CacheNext
  PROVE  NoFutureCounts'
<1> USE DEF CacheTypeOK, NoFutureCounts, IsAt, Shows, NoPage, Versions
<1>1. ASSUME NEW w \in Writers, SaveRow(w) PROVE NoFutureCounts'
  BY <1>1 DEF SaveRow
<1>2. ASSUME NEW w \in Writers, SignalSaved(w) PROVE NoFutureCounts'
  BY <1>2 DEF SignalSaved, Bump
<1>3. ASSUME NEW w \in Writers, SignalEarly(w) PROVE NoFutureCounts'
  BY <1>3 DEF SignalEarly, Bump
<1>4. ASSUME NEW w \in Writers, Commit(w) PROVE NoFutureCounts'
  BY <1>4 DEF Commit
<1>5. CASE WriteSilently
  BY <1>5 DEF WriteSilently
<1>6. CASE EntryExpires
  BY <1>6 DEF EntryExpires
<1>7. CASE VersionExpires
  BY <1>7 DEF VersionExpires
<1>8. ASSUME NEW p \in Pages, OpenList(p) PROVE NoFutureCounts'
  BY <1>8 DEF OpenList
<1>9. ASSUME NEW p \in Pages, FindCount(p) PROVE NoFutureCounts'
  BY <1>9 DEF FindCount
<1>10. ASSUME NEW p \in Pages, CountRows(p) PROVE NoFutureCounts'
  BY <1>10 DEF CountRows
<1>11. ASSUME NEW p \in Pages, StoreCount(p) PROVE NoFutureCounts'
  BY <1>11 DEF StoreCount, StoredUnder
<1>12. ASSUME NEW p \in Pages, OpenDashboard(p) PROVE NoFutureCounts'
  BY <1>12 DEF OpenDashboard
<1>13. ASSUME NEW p \in Pages, GatherDashboard(p) PROVE NoFutureCounts'
  BY <1>13 DEF GatherDashboard
<1>14. ASSUME NEW p \in Pages, StoreDashboard(p) PROVE NoFutureCounts'
  BY <1>14 DEF StoreDashboard
<1>15. ASSUME NEW p \in Pages, OpenMetrics(p) PROVE NoFutureCounts'
  BY <1>15 DEF OpenMetrics
<1>16. ASSUME NEW p \in Pages, BuildMetrics(p) PROVE NoFutureCounts'
  BY <1>16 DEF BuildMetrics
<1>17. ASSUME NEW p \in Pages, StoreMetrics(p) PROVE NoFutureCounts'
  BY <1>17 DEF StoreMetrics
<1> QED BY <1>1, <1>2, <1>3, <1>4, <1>5, <1>6, <1>7, <1>8, <1>9, <1>10, <1>11, <1>12,
           <1>13, <1>14, <1>15, <1>16, <1>17 DEF CacheNext

\* The signal that leaves nobody pending opens a version nothing is kept under.
LEMMA CountsStep ==
  ASSUME CacheTypeOK, VersionIsEarned, CacheTypeOK', NoFutureCounts, CountsAreCurrent, UNCHANGED env, CacheNext
  PROVE  CountsAreCurrent'
<1> USE DEF CacheTypeOK, CountsAreCurrent, AllOut, IsAt, Shows, NoPage
<1>1. ASSUME NEW w \in Writers, SaveRow(w) PROVE CountsAreCurrent'
  BY <1>1 DEF SaveRow
<1>2. ASSUME NEW w \in Writers, SignalSaved(w) PROVE CountsAreCurrent'
  <2>1. version' \in Versions /\ version' > version /\ UNCHANGED <<rows, counts, page>>
    BY <1>2 DEF SignalSaved, Bump, Versions
  <2>2. counts[version'] = {}
    BY <2>1 DEF NoFutureCounts
  <2>3. \A p \in Pages : page[p].pc = "counted" => page[p].key # version'
    BY <2>1, PageTyped DEF NoFutureCounts, Versions
  <2> QED BY <1>2, <2>1, <2>2, <2>3 DEF SignalSaved
<1>3. ASSUME NEW w \in Writers, SignalEarly(w) PROVE CountsAreCurrent'
  BY <1>3 DEF SignalEarly
<1>4. ASSUME NEW w \in Writers, Commit(w) PROVE CountsAreCurrent'
  BY <1>4 DEF Commit
<1>5. CASE WriteSilently
  BY <1>5 DEF WriteSilently
<1>6. CASE EntryExpires
  BY <1>6 DEF EntryExpires
<1>7. CASE VersionExpires
  BY <1>7 DEF VersionExpires, Versions
<1>8. ASSUME NEW p \in Pages, OpenList(p) PROVE CountsAreCurrent'
  BY <1>8 DEF OpenList
<1>9. ASSUME NEW p \in Pages, FindCount(p) PROVE CountsAreCurrent'
  BY <1>9 DEF FindCount
<1>10. ASSUME NEW p \in Pages, CountRows(p) PROVE CountsAreCurrent'
  BY <1>10 DEF CountRows
<1>11. ASSUME NEW p \in Pages, StoreCount(p) PROVE CountsAreCurrent'
  BY <1>11, PageTyped DEF StoreCount, StoredUnder
<1>12. ASSUME NEW p \in Pages, OpenDashboard(p) PROVE CountsAreCurrent'
  BY <1>12 DEF OpenDashboard
<1>13. ASSUME NEW p \in Pages, GatherDashboard(p) PROVE CountsAreCurrent'
  BY <1>13 DEF GatherDashboard
<1>14. ASSUME NEW p \in Pages, StoreDashboard(p) PROVE CountsAreCurrent'
  BY <1>14 DEF StoreDashboard
<1>15. ASSUME NEW p \in Pages, OpenMetrics(p) PROVE CountsAreCurrent'
  BY <1>15 DEF OpenMetrics
<1>16. ASSUME NEW p \in Pages, BuildMetrics(p) PROVE CountsAreCurrent'
  BY <1>16 DEF BuildMetrics
<1>17. ASSUME NEW p \in Pages, StoreMetrics(p) PROVE CountsAreCurrent'
  BY <1>17 DEF StoreMetrics
<1> QED BY <1>1, <1>2, <1>3, <1>4, <1>5, <1>6, <1>7, <1>8, <1>9, <1>10, <1>11, <1>12,
           <1>13, <1>14, <1>15, <1>16, <1>17 DEF CacheNext

\* So is the dashboard dropped, and whoever is still gathering is noticed.
LEMMA DashboardStep ==
  ASSUME CacheTypeOK, CountsAreCurrent, DashboardIsCurrent, UNCHANGED env, CacheNext
  PROVE  DashboardIsCurrent'
<1> USE DEF CacheTypeOK, CountsAreCurrent, DashboardIsCurrent, AllOut, IsAt, Shows, NoPage
<1>1. ASSUME NEW w \in Writers, SaveRow(w) PROVE DashboardIsCurrent'
  BY <1>1 DEF SaveRow
<1>2. ASSUME NEW w \in Writers, SignalSaved(w) PROVE DashboardIsCurrent'
  BY <1>2 DEF SignalSaved, DropDashboard
<1>3. ASSUME NEW w \in Writers, SignalEarly(w) PROVE DashboardIsCurrent'
  BY <1>3 DEF SignalEarly
<1>4. ASSUME NEW w \in Writers, Commit(w) PROVE DashboardIsCurrent'
  BY <1>4 DEF Commit
<1>5. CASE WriteSilently
  BY <1>5 DEF WriteSilently
<1>6. CASE EntryExpires
  BY <1>6 DEF EntryExpires
<1>7. CASE VersionExpires
  BY <1>7 DEF VersionExpires
<1>8. ASSUME NEW p \in Pages, OpenList(p) PROVE DashboardIsCurrent'
  BY <1>8 DEF OpenList
<1>9. ASSUME NEW p \in Pages, FindCount(p) PROVE DashboardIsCurrent'
  BY <1>9 DEF FindCount
<1>10. ASSUME NEW p \in Pages, CountRows(p) PROVE DashboardIsCurrent'
  BY <1>10 DEF CountRows
<1>11. ASSUME NEW p \in Pages, StoreCount(p) PROVE DashboardIsCurrent'
  BY <1>11 DEF StoreCount
<1>12. ASSUME NEW p \in Pages, OpenDashboard(p) PROVE DashboardIsCurrent'
  BY <1>12 DEF OpenDashboard
<1>13. ASSUME NEW p \in Pages, GatherDashboard(p) PROVE DashboardIsCurrent'
  BY <1>13 DEF GatherDashboard
<1>14. ASSUME NEW p \in Pages, StoreDashboard(p) PROVE DashboardIsCurrent'
  BY <1>14 DEF StoreDashboard
<1>15. ASSUME NEW p \in Pages, OpenMetrics(p) PROVE DashboardIsCurrent'
  BY <1>15 DEF OpenMetrics
<1>16. ASSUME NEW p \in Pages, BuildMetrics(p) PROVE DashboardIsCurrent'
  BY <1>16 DEF BuildMetrics
<1>17. ASSUME NEW p \in Pages, StoreMetrics(p) PROVE DashboardIsCurrent'
  BY <1>17 DEF StoreMetrics
<1> QED BY <1>1, <1>2, <1>3, <1>4, <1>5, <1>6, <1>7, <1>8, <1>9, <1>10, <1>11, <1>12,
           <1>13, <1>14, <1>15, <1>16, <1>17 DEF CacheNext

-----------------------------------------------------------------------------
(* The theorems.                                                           *)

CacheInv ==
  /\ CacheTypeOK /\ VersionIsEarned /\ NoFutureCounts
  /\ CountsAreCurrent /\ DashboardIsCurrent

LEMMA CacheInit_Inv == CacheInit => CacheInv
<1> SUFFICES ASSUME CacheInit PROVE CacheInv
  OBVIOUS
<1> USE DEF CacheInit, NoPage
<1>1. CacheTypeOK
  <2>1. 0 \in Versions
    BY CacheConstantsOK DEF Versions
  <2>2. {} \in Cached
    BY DEF Cached
  <2> QED BY <2>1, <2>2 DEF CacheTypeOK
<1>2. VersionIsEarned
  <2>1. Saved = {} /\ Signalled = {}
    BY DEF Saved, Signalled
  <2> QED BY <2>1, FS_EmptySet, CacheConstantsOK DEF VersionIsEarned
<1>3. NoFutureCounts /\ DashboardIsCurrent
  BY DEF NoFutureCounts, DashboardIsCurrent
<1>4. CountsAreCurrent
  BY <1>1 DEF CountsAreCurrent, CacheTypeOK
<1> QED BY <1>1, <1>2, <1>3, <1>4 DEF CacheInv

LEMMA CacheNext_Inv == CacheInv /\ [CacheNext /\ UNCHANGED env]_<<env, cacheVars>> => CacheInv'
<1> SUFFICES ASSUME CacheInv, [CacheNext /\ UNCHANGED env]_<<env, cacheVars>>
             PROVE  CacheInv'
  OBVIOUS
<1> USE DEF CacheInv
<1>1. CASE CacheNext /\ UNCHANGED env
  BY <1>1, EarnedStep, CacheTypeStep, FutureStep, CountsStep, DashboardStep
<1>2. CASE UNCHANGED <<env, cacheVars>>
  BY <1>2 DEF cacheVars, CacheTypeOK, VersionIsEarned, Saved, Signalled, NoFutureCounts,
     CountsAreCurrent, DashboardIsCurrent, AllOut
<1> QED BY <1>1, <1>2

\* The invariant holds of every run of the pages and the writers.
THEOREM CacheInvariant == CacheSpec => []CacheInv
<1> QED BY CacheInit_Inv, CacheNext_Inv, PTL DEF CacheSpec

\* However many requests read, count and store while others write, once every
\* signal is out a list shows no old count, and the dashboard shows an old
\* value only if it was being gathered while its entry was dropped
\* (CachedPaginator.count, bump_paginator_count_version,
\* invalidate_dashboard_cache).
THEOREM CachesAreCurrentAlways == CacheSpec => []CachesAreCurrent
<1>1. CacheInv => CachesAreCurrent
  <2> SUFFICES ASSUME CacheInv PROVE CachesAreCurrent
    OBVIOUS
  <2>1. version \in Versions /\ counts[version] \in Cached /\ dashboard \in Cached
    BY DEF CacheInv, CacheTypeOK
  <2>2. \A entry \in Cached : \A r : entry \subseteq {r} => entry \in {{}, {r}}
    BY DEF Cached
  <2> QED BY <2>1, <2>2 DEF CacheInv, CountsAreCurrent, DashboardIsCurrent, AllOut,
             CachesAreCurrent
<1> QED BY <1>1, CacheInvariant, PTL

=============================================================================
