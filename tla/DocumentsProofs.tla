---------------------------- MODULE DocumentsProofs ----------------------------
(***************************************************************************)
(* What uploads, OCR, edits and clean-ups that overlap leave of one user's *)
(* documents, for any number of files, processes and scans.                *)
(***************************************************************************)
EXTENDS Documents, FiniteSetTheorems, TLAPS

-----------------------------------------------------------------------------
(* The inductive invariant, part by part.                                  *)

\* A row that is not there has no bytes and no record; one being confirmed is
\* locked, so it stays; copies were taken of rows that were there.
RowsAreSound ==
  /\ \A d \in Docs : ~Exists(d) => doc[d].size = 0
  /\ \A p \in Procs : At(p, "confirming") => Exists(proc[p].doc)
  /\ \A p \in Procs : At(p, "editing") => proc[p].row.status \in Live

\* Only the scenarios that say so edit, delete and recount.
ProcsAreAllowed ==
  \A p \in Procs : /\ At(p, "editing") => "edit" \in env
                   /\ At(p, "deleting") => "delete" \in env
                   /\ At(p, "totalled") => "reconcile_storage" \in env

\* A document that may still get a record from its data has none yet.
UnlinkedHasNoRecord ==
  "edit" \notin env => \A d \in Docs :
    /\ ocrRecords[d] <= 1
    /\ doc[d].status = "unused" \/ (Exists(d) /\ doc[d].link = "none")
         => ocrRecords[d] = 0

Sized == {d \in Docs : doc[d].size = 1}

CounterCounts ==
  env \cap {"delete", "reconcile_storage"} = {} => counter = Cardinality(Sized)

\* Whoever passed the limit and has not counted yet is one of the processes.
Charging == {p \in Procs : At(p, "charging")}
ScansFit == scans + Cardinality(Charging) < ScanLimit + Cardinality(Procs)

\* Files that passed the limit and are not stored yet, and files that a clean-up
\* has removed and a stale edit will store again.
Passed == {p \in Procs : At(p, "confirming") /\ proc[p].ok}
Returning ==
  {d \in Docs : /\ doc[d].size = 0
                /\ \E p \in Procs : At(p, "editing") /\ proc[p].doc = d
                                    /\ proc[p].row.size = 1}
StoredFits ==
  env \cap {"delete", "reconcile_storage"} = {} =>
    Cardinality(Sized) + Cardinality(Passed) + Cardinality(Returning)
      < Quota + Cardinality(Procs)

-----------------------------------------------------------------------------
(* Steps, as the proofs see them.                                          *)

LEMMA ProcTyped ==
  ASSUME DocTypeOK, NEW p \in Procs
  PROVE  /\ proc[p].pc \in {"confirming", "kickoff", "charging", "extracting", "creating",
                            "form", "editing", "deleting"} => proc[p].doc \in Docs
         /\ proc[p].pc = "confirming" => proc[p].ok \in BOOLEAN
         /\ proc[p].pc \in {"form", "editing", "deleting"} => proc[p].row \in Rows
         /\ proc[p].pc \in {"listed", "clearing"} => proc[p].docs \subseteq Docs
         /\ proc[p].pc = "totalled" => proc[p].total \in 0..Cardinality(Docs)
BY DEF DocTypeOK, Busy, Free

\* What a save makes of a row.
RowBecomes(n, status, link, size) ==
  n \in Rows /\ n.status = status /\ n.link = link /\ n.size = size

LEMMA RowsUpdated ==
  ASSUME NEW r \in Rows
  PROVE  /\ \A s \in Live : RowBecomes([r EXCEPT !.status = s], s, r.link, r.size)
         /\ \A l \in Links : RowBecomes([r EXCEPT !.link = l], r.status, l, r.size)
         /\ RowBecomes([r EXCEPT !.didOcr = FALSE], r.status, r.link, r.size)
         /\ RowBecomes([r EXCEPT !.status = "uploaded", !.size = 1], "uploaded", r.link, 1)
         /\ RowBecomes([r EXCEPT !.status = "completed", !.didOcr = TRUE, !.raw = "data"],
                    "completed", r.link, r.size)
         /\ RowBecomes([r EXCEPT !.status = "error", !.raw = "error"], "error", r.link, r.size)
<1> USE DEF RowBecomes, Rows, Live
<1>1. \A s \in Live : RowBecomes([r EXCEPT !.status = s], s, r.link, r.size)
  OBVIOUS
<1>2. \A l \in Links : RowBecomes([r EXCEPT !.link = l], r.status, l, r.size)
  OBVIOUS
<1>3. RowBecomes([r EXCEPT !.didOcr = FALSE], r.status, r.link, r.size)
  OBVIOUS
<1>4. RowBecomes([r EXCEPT !.status = "uploaded", !.size = 1], "uploaded", r.link, 1)
  <2>1. \A q \in Rows : RowBecomes([q EXCEPT !.size = 1], q.status, q.link, 1)
    OBVIOUS
  <2> DEFINE q == [r EXCEPT !.status = "uploaded"]
  <2>2. RowBecomes(q, "uploaded", r.link, r.size)
    BY <1>1
  <2>3. q \in Rows /\ q.status = "uploaded" /\ q.link = r.link
    BY <2>2
  <2> HIDE DEF q, RowBecomes, Rows
  <2>4. RowBecomes([q EXCEPT !.size = 1], "uploaded", r.link, 1)
    BY <2>1, <2>3, Zenon
  <2> QED BY <2>4, Zenon DEF q
<1>5. RowBecomes([r EXCEPT !.status = "completed", !.didOcr = TRUE, !.raw = "data"],
              "completed", r.link, r.size)
  OBVIOUS
<1>6. RowBecomes([r EXCEPT !.status = "error", !.raw = "error"], "error", r.link, r.size)
  OBVIOUS
<1> QED BY <1>1, <1>2, <1>3, <1>4, <1>5, <1>6

\* The row of a new upload, and what is left of a deleted one.
LEMMA NewRow ==
  /\ RowBecomes(NoDoc, "unused", "none", 0) /\ RowBecomes(Gone, "gone", "none", 0)
  /\ \A l \in Links : RowBecomes([NoDoc EXCEPT !.status = "pending", !.link = l,
                                            !.didOcr = (l = "none")], "pending", l, 0)
<1>1. RowBecomes(NoDoc, "unused", "none", 0)
  BY DEF RowBecomes, NoDoc, Rows, Links, Live
<1>2. NoDoc \in Rows
  BY <1>1 DEF RowBecomes
<1>3. RowBecomes(Gone, "gone", "none", 0)
  BY <1>1 DEF RowBecomes, Gone, Rows
<1>4. ASSUME NEW l \in Links
      PROVE  RowBecomes([NoDoc EXCEPT !.status = "pending", !.link = l,
                                   !.didOcr = (l = "none")], "pending", l, 0)
  BY <1>1 DEF RowBecomes, Rows, Live
<1> QED BY <1>1, <1>3, <1>4

\* What a step does to the rows, the counter and the records made.
Kept == UNCHANGED <<doc, counter, ocrRecords>>

Started(d) ==
  /\ doc[d].status = "unused" /\ UNCHANGED <<counter, ocrRecords>>
  /\ \E n \in Rows : Set(d, n) /\ n.status \in Live /\ n.size = 0

Touched(d) ==
  /\ Exists(d) /\ UNCHANGED <<counter, ocrRecords>>
  /\ \E n \in Rows : /\ Set(d, n) /\ n.status \in Live /\ n.size = doc[d].size
                     /\ n.link \in {doc[d].link, "form"}

Linked(d) ==
  /\ Exists(d) /\ doc[d].link = "none" /\ UNCHANGED counter
  /\ \E n \in Rows : Set(d, n) /\ RowBecomes(n, doc[d].status, "ocr", doc[d].size)
  /\ ocrRecords' = [ocrRecords EXCEPT ![d] = @ + 1]

Stored(p, d) ==
  /\ At(p, "confirming") /\ proc[p].doc = d /\ proc[p].ok
  /\ \E n \in Rows : Set(d, n) /\ RowBecomes(n, "uploaded", doc[d].link, 1)
  /\ CountSave(1, doc[d].size) /\ UNCHANGED ocrRecords
  /\ \E r \in Busy \cup {Free} :
       r.pc \in {"kickoff", "free"} /\ To(p, r)

Edited(p, d) ==
  /\ At(p, "editing") /\ proc[p].doc = d
  /\ \E n \in Rows : Set(d, n) /\ n.status = proc[p].row.status /\ n.size = proc[p].row.size
  /\ CountSave(proc[p].row.size, doc[d].size) /\ UNCHANGED ocrRecords /\ Done(p)

RowsRemoved(S) ==
  /\ \A d \in S : ~Locked(d)
  /\ DeleteRows(S) /\ UNCHANGED ocrRecords
  /\ UNCHANGED proc \/ \E p \in Procs : At(p, "clearing") /\ Done(p)

RowDeleted(p, d) ==
  /\ At(p, "deleting") /\ ~Locked(d) /\ Set(d, Gone) /\ UNCHANGED ocrRecords
  /\ counter' \in Nat

Recounted(p) == At(p, "totalled") /\ UNCHANGED <<doc, ocrRecords>> /\ counter' \in Nat

RowStep ==
  \/ Kept
  \/ \E d \in Docs : Started(d) \/ Touched(d) \/ Linked(d)
  \/ \E p \in Procs, d \in Docs : Stored(p, d) \/ Edited(p, d) \/ RowDeleted(p, d)
  \/ \E p \in Procs : Recounted(p)
  \/ \E S \in SUBSET Docs : RowsRemoved(S)

\* An UPDATE of the status by id touches a row that is there.
LEMMA StatusTouches ==
  ASSUME DocTypeOK, NEW d \in Docs, NEW n, SetStatus(d, n), UNCHANGED <<counter, ocrRecords>>,
         n \in Rows, n.status \in Live, n.size = doc[d].size,
         n.link \in {doc[d].link, "form"}
  PROVE  RowStep
BY DEF SetStatus, RowStep, Kept, Touched, DocTypeOK

LEMMA CreationLinks ==
  ASSUME DocTypeOK, NEW d \in Docs, CreateRecord(d), UNCHANGED counter
  PROVE  RowStep
<1>1. CASE ~NeedsRecord(d)
  BY <1>1 DEF CreateRecord, RowStep, Kept
<1>2. CASE NeedsRecord(d)
  <2>1. Exists(d) /\ doc[d].link = "none" /\ doc[d] \in Rows
    BY <1>2 DEF NeedsRecord, DocTypeOK
  <2>2. RowBecomes([doc[d] EXCEPT !.link = "ocr"], doc[d].status, "ocr", doc[d].size)
    BY <2>1, RowsUpdated DEF Links
  <2>3. Set(d, [doc[d] EXCEPT !.link = "ocr"])
          /\ ocrRecords' = [ocrRecords EXCEPT ![d] = @ + 1]
    BY <1>2 DEF CreateRecord
  <2>4. [doc[d] EXCEPT !.link = "ocr"] \in Rows
    BY <2>2 DEF RowBecomes
  <2>5. Linked(d)
    BY <2>1, <2>2, <2>3, <2>4 DEF Linked
  <2> QED BY <2>5 DEF RowStep
<1> QED BY <1>1, <1>2

\* Every action does one of these.
LEMMA RowSteps ==
  ASSUME DocTypeOK, RowsAreSound, DocNext
  PROVE  RowStep
<1>1. ASSUME NEW d \in Docs, UploadPrimary(d) PROVE RowStep
  <2>1. Upload(d, "none")
    BY <1>1 DEF UploadPrimary
  <2>2. PICK n \in Rows : Set(d, n) /\ n.status = "pending" /\ n.size = 0
    BY <2>1, NewRow DEF Upload, RowBecomes, Links
  <2>3. Started(d)
    BY <2>1, <2>2 DEF Upload, Started, Live
  <2> QED BY <2>3 DEF RowStep
<1>2. ASSUME NEW d \in Docs, UploadSupporting(d) PROVE RowStep
  <2>1. Upload(d, "parent")
    BY <1>2 DEF UploadSupporting
  <2>2. PICK n \in Rows : Set(d, n) /\ n.status = "pending" /\ n.size = 0
    BY <2>1, NewRow DEF Upload, RowBecomes, Links
  <2>3. Started(d)
    BY <2>1, <2>2 DEF Upload, Started, Live
  <2> QED BY <2>3 DEF RowStep
<1>3. ASSUME NEW d \in Docs, Put(d) PROVE RowStep
  BY <1>3 DEF Put, RowStep, Kept, rowVars, Open
<1>4. ASSUME NEW d \in Docs, ExpireMarker(d) PROVE RowStep
  BY <1>4 DEF ExpireMarker, RowStep, Kept, rowVars, Open
<1>5. ASSUME NEW d \in Docs, CreateFromPoll(d) PROVE RowStep
  BY <1>5, CreationLinks DEF CreateFromPoll
<1>6. ASSUME NEW d \in Docs, NoSlot(d) PROVE RowStep
  BY <1>6 DEF NoSlot, RowStep, Kept, rowVars, Open
<1>7. ASSUME NEW d \in Docs, HardDeleteRecord(d) PROVE RowStep
  <2>1. RowsRemoved({d})
    BY <1>7 DEF HardDeleteRecord, RowsRemoved
  <2> QED BY <2>1 DEF RowStep
<1>8. ASSUME NEW d \in Docs, RemoveObject(d) PROVE RowStep
  BY <1>8 DEF RemoveObject, RowStep, Kept, rowVars, Open
<1>9. ASSUME NEW d \in Docs, GrowOld(d) PROVE RowStep
  BY <1>9 DEF GrowOld, RowStep, Kept, rowVars, Open
<1>10. ASSUME NEW p \in Procs, NEW d \in Docs, BeginConfirm(p, d) PROVE RowStep
  BY <1>10 DEF BeginConfirm, RowStep, Kept, rowVars, Open
<1>11. ASSUME NEW p \in Procs, NEW d \in Docs, StartExtract(p, d) PROVE RowStep
  <2>1. UNCHANGED <<counter, ocrRecords>> /\ doc[d] \in Rows
    BY <1>11 DEF StartExtract, DocTypeOK
  <2>2. CASE UNCHANGED doc
    BY <2>1, <2>2 DEF RowStep, Kept
  <2>3. CASE Exists(d) /\ Set(d, [doc[d] EXCEPT !.status = "processing"])
    <3>1. RowBecomes([doc[d] EXCEPT !.status = "processing"], "processing", doc[d].link,
                  doc[d].size)
      BY <2>1, RowsUpdated DEF Live
    <3> QED BY <2>1, <2>3, <3>1, StatusTouches DEF SetStatus, RowBecomes, Live
  <2> QED BY <1>11, <2>2, <2>3 DEF StartExtract
<1>12. ASSUME NEW p \in Procs, NEW d \in Docs, OpenForm(p, d) PROVE RowStep
  BY <1>12 DEF OpenForm, RowStep, Kept, rowVars, Open
<1>13. ASSUME NEW p \in Procs, NEW d \in Docs, OpenEdit(p, d) PROVE RowStep
  BY <1>13 DEF OpenEdit, RowStep, Kept, rowVars, Open
<1>14. ASSUME NEW p \in Procs, NEW d \in Docs, OpenDelete(p, d) PROVE RowStep
  BY <1>14 DEF OpenDelete, RowStep, Kept, rowVars, Open
<1>15. ASSUME NEW p \in Procs, EndConfirm(p) PROVE RowStep
  <2> DEFINE d == proc[p].doc
  <2>1. d \in Docs /\ doc[d] \in Rows /\ Exists(d) /\ At(p, "confirming")
    BY <1>15, ProcTyped DEF EndConfirm, At, DocTypeOK, RowsAreSound
  <2>2. CASE proc[p].ok
    <3> DEFINE n == [doc[d] EXCEPT !.status = "uploaded", !.size = 1]
    <3>1. RowBecomes(n, "uploaded", doc[d].link, 1)
      BY <2>1, RowsUpdated
    <3>2. Set(d, n) /\ CountSave(1, doc[d].size) /\ UNCHANGED ocrRecords
      BY <1>15, <2>2 DEF EndConfirm
    <3>3. n \in Rows
      BY <3>1 DEF RowBecomes
    <3>4. \E r \in Busy \cup {Free} : r.pc \in {"kickoff", "free"} /\ To(p, r)
      <4>1. [pc |-> "kickoff", doc |-> d] \in Busy \cup {Free}
        BY <2>1 DEF Busy
      <4>2. To(p, [pc |-> "kickoff", doc |-> d]) \/ To(p, Free)
        BY <1>15, <2>2 DEF EndConfirm, Done
      <4> QED BY <4>1, <4>2 DEF Free
    <3> HIDE DEF n
    <3>5. Stored(p, d)
      BY <2>1, <2>2, <3>1, <3>2, <3>3, <3>4 DEF Stored
    <3> QED BY <2>1, <3>5 DEF RowStep
  <2>3. CASE ~proc[p].ok
    <3>1. RowBecomes([doc[d] EXCEPT !.status = "error"], "error", doc[d].link, doc[d].size)
      BY <2>1, RowsUpdated DEF Live
    <3>2. Set(d, [doc[d] EXCEPT !.status = "error"]) /\ UNCHANGED <<counter, ocrRecords>>
      BY <1>15, <2>3 DEF EndConfirm
    <3> QED BY <2>1, <3>1, <3>2, StatusTouches DEF SetStatus, RowBecomes, Live
  <2> QED BY <2>2, <2>3
<1>16. ASSUME NEW p \in Procs, BeginKickoff(p) PROVE RowStep
  <2> DEFINE d == proc[p].doc
  <2>1. d \in Docs /\ doc[d] \in Rows
    BY <1>16, ProcTyped DEF BeginKickoff, At, DocTypeOK
  <2>2. CASE UNCHANGED doc
    BY <1>16, <2>2 DEF BeginKickoff, RowStep, Kept
  <2>3. CASE SetStatus(d, [doc[d] EXCEPT !.status = "error"])
    <3> DEFINE n == [doc[d] EXCEPT !.status = "error"]
    <3>1. n \in Rows /\ n.status \in Live /\ n.size = doc[d].size /\ n.link = doc[d].link
      BY <2>1, RowsUpdated DEF RowBecomes, Live
    <3>2. SetStatus(d, n) /\ UNCHANGED <<counter, ocrRecords>>
      BY <1>16, <2>3 DEF BeginKickoff, SetStatus
    <3> HIDE DEF n, d
    <3> QED BY <2>1, <3>1, <3>2, StatusTouches
  <2> QED BY <1>16, <2>2, <2>3 DEF BeginKickoff
<1>17. ASSUME NEW p \in Procs, ChargeScan(p) PROVE RowStep
  <2> DEFINE d == proc[p].doc
  <2>1. d \in Docs /\ doc[d] \in Rows
    BY <1>17, ProcTyped DEF ChargeScan, At, DocTypeOK
  <2>2. CASE ~Exists(d)
    BY <1>17, <2>2 DEF ChargeScan, RowStep, Kept
  <2>3. CASE Exists(d)
    <3>1. RowBecomes([doc[d] EXCEPT !.didOcr = FALSE], doc[d].status, doc[d].link, doc[d].size)
      BY <2>1, RowsUpdated
    <3>2. SetStatus(d, [doc[d] EXCEPT !.didOcr = FALSE]) /\ UNCHANGED <<counter, ocrRecords>>
      BY <1>17, <2>3 DEF ChargeScan, SetStatus
    <3> QED BY <2>1, <2>3, <3>1, <3>2, StatusTouches DEF RowBecomes, Exists
  <2> QED BY <2>2, <2>3
<1>18. ASSUME NEW p \in Procs, FinishExtract(p) PROVE RowStep
  <2> DEFINE d == proc[p].doc
  <2>1. d \in Docs /\ doc[d] \in Rows
    BY <1>18, ProcTyped DEF FinishExtract, At, DocTypeOK
  <2>2. CASE UNCHANGED doc
    BY <1>18, <2>2 DEF FinishExtract, RowStep, Kept
  <2>3. CASE SetStatus(d, [doc[d] EXCEPT !.status = "completed", !.didOcr = TRUE,
                                               !.raw = "data"])
    <3> DEFINE n == [doc[d] EXCEPT !.status = "completed", !.didOcr = TRUE, !.raw = "data"]
    <3>1. n \in Rows /\ n.status \in Live /\ n.size = doc[d].size /\ n.link = doc[d].link
      BY <2>1, RowsUpdated DEF RowBecomes, Live
    <3>2. SetStatus(d, n) /\ UNCHANGED <<counter, ocrRecords>>
      BY <1>18, <2>3 DEF FinishExtract, SetStatus
    <3> HIDE DEF n, d
    <3> QED BY <2>1, <3>1, <3>2, StatusTouches
  <2> QED BY <1>18, <2>2, <2>3 DEF FinishExtract
<1>19. ASSUME NEW p \in Procs, FailExtract(p) PROVE RowStep
  <2> DEFINE d == proc[p].doc
  <2>1. d \in Docs /\ doc[d] \in Rows
    BY <1>19, ProcTyped DEF FailExtract, At, DocTypeOK
  <2>2. CASE UNCHANGED doc
    BY <1>19, <2>2 DEF FailExtract, RowStep, Kept
  <2>3. CASE SetStatus(d, [doc[d] EXCEPT !.status = "error", !.raw = "error"])
    <3> DEFINE n == [doc[d] EXCEPT !.status = "error", !.raw = "error"]
    <3>1. n \in Rows /\ n.status \in Live /\ n.size = doc[d].size /\ n.link = doc[d].link
      BY <2>1, RowsUpdated DEF RowBecomes, Live
    <3>2. SetStatus(d, n) /\ UNCHANGED <<counter, ocrRecords>>
      BY <1>19, <2>3 DEF FailExtract, SetStatus
    <3> HIDE DEF n, d
    <3> QED BY <2>1, <3>1, <3>2, StatusTouches
  <2> QED BY <1>19, <2>2, <2>3 DEF FailExtract
<1>20. ASSUME NEW p \in Procs, CreateFromTask(p) PROVE RowStep
  <2>1. proc[p].doc \in Docs
    BY <1>20, ProcTyped DEF CreateFromTask, At
  <2> QED BY <1>20, <2>1, CreationLinks DEF CreateFromTask
<1>21. ASSUME NEW p \in Procs, SubmitForm(p) PROVE RowStep
  <2>1. proc[p].doc \in Docs /\ doc[proc[p].doc] \in Rows
    BY <1>21, ProcTyped DEF SubmitForm, At, DocTypeOK
  <2>2. RowBecomes([doc[proc[p].doc] EXCEPT !.link = "form"], doc[proc[p].doc].status, "form",
                doc[proc[p].doc].size)
    BY <2>1, RowsUpdated DEF Links
  <2>3. CASE ~Exists(proc[p].doc)
    BY <1>21, <2>3 DEF SubmitForm, SetStatus, RowStep, Kept
  <2>4. CASE Exists(proc[p].doc)
    BY <1>21, <2>1, <2>2, <2>4, StatusTouches DEF SubmitForm, RowBecomes, Exists
  <2> QED BY <2>3, <2>4
<1>22. ASSUME NEW p \in Procs, SaveEdit(p) PROVE RowStep
  <2> DEFINE d == proc[p].doc  row == proc[p].row
  <2>1. d \in Docs /\ row \in Rows
    BY <1>22, ProcTyped DEF SaveEdit, At
  <2>2. PICK l \in {row.link, "none", "parent"} : Set(d, [row EXCEPT !.link = l])
    BY <1>22 DEF SaveEdit
  <2>3. l \in Links
    BY <2>1, <2>2 DEF Rows, Links
  <2>4. RowBecomes([row EXCEPT !.link = l], row.status, l, row.size)
    BY <2>1, <2>3, RowsUpdated
  <2>5. Edited(p, d)
    BY <1>22, <2>2, <2>4 DEF SaveEdit, Edited, RowBecomes
  <2> QED BY <2>1, <2>5 DEF RowStep
<1>23. ASSUME NEW p \in Procs, SubmitDelete(p) PROVE RowStep
  <2>1. proc[p].doc \in Docs /\ proc[p].row.size \in 0..1 /\ counter \in Nat
    BY <1>23, ProcTyped DEF SubmitDelete, At, DocTypeOK, Rows
  <2>2. counter' \in Nat
    BY <1>23, <2>1 DEF SubmitDelete, Adjusted
  <2>3. RowDeleted(p, proc[p].doc)
    BY <1>23, <2>2 DEF SubmitDelete, RowDeleted, Set
  <2> QED BY <2>1, <2>3 DEF RowStep
<1>24. ASSUME NEW p \in Procs, RemoveStaleFiles(p) PROVE RowStep
  BY <1>24 DEF RemoveStaleFiles, RowStep, Kept, rowVars, Open
<1>25. ASSUME NEW p \in Procs, ClearRows(p) PROVE RowStep
  <2>1. proc[p].docs \in SUBSET Docs
    BY <1>25, ProcTyped DEF ClearRows, At
  <2>2. RowsRemoved(proc[p].docs)
    BY <1>25 DEF ClearRows, RowsRemoved
  <2> QED BY <2>1, <2>2 DEF RowStep
<1>26. ASSUME NEW p \in Procs, WriteTotal(p) PROVE RowStep
  <2>1. counter' \in Nat
    BY <1>26, ProcTyped, FS_CardinalityType, DocConstantsOK DEF WriteTotal, At
  <2>2. Recounted(p)
    BY <1>26, <2>1 DEF WriteTotal, Recounted
  <2> QED BY <2>2 DEF RowStep
<1>27. ASSUME NEW p \in Procs, ListOrphans(p) PROVE RowStep
  BY <1>27 DEF ListOrphans, RowStep, Kept, rowVars, Open
<1>28. ASSUME NEW p \in Procs, ListStale(p) PROVE RowStep
  BY <1>28 DEF ListStale, RowStep, Kept, rowVars, Open
<1>29. ASSUME NEW p \in Procs, ReadTotal(p) PROVE RowStep
  BY <1>29 DEF ReadTotal, RowStep, Kept, rowVars, Open
<1>30. ASSUME NEW p \in Procs, CrashProcess(p) PROVE RowStep
  BY <1>30 DEF CrashProcess, RowStep, Kept, rowVars, Open
<1> QED
  BY <1>1, <1>2, <1>3, <1>4, <1>5, <1>6, <1>7, <1>8, <1>9, <1>10,
     <1>11, <1>12, <1>13, <1>14, <1>15, <1>16, <1>17, <1>18, <1>19, <1>20,
     <1>21, <1>22, <1>23, <1>24, <1>25, <1>26, <1>27, <1>28, <1>29, <1>30
  DEF DocNext, Accepts, Finishes, Extraction

\* What a step does to the processes and the scans.
Enters(p, r) ==
  /\ r.pc = "confirming" => /\ Exists(r.doc) /\ UNCHANGED <<doc, counter>>
                            /\ r.ok => counter + 1 <= Quota
  /\ r.pc = "editing" => /\ "edit" \in env /\ Exists(r.doc) /\ r.row = doc[r.doc]
                         /\ UNCHANGED <<doc, counter>>
  /\ r.pc = "deleting" => "delete" \in env
  /\ r.pc = "totalled" => "reconcile_storage" \in env
  /\ r.pc = "charging" => scans < ScanLimit

ProcStep ==
  \/ UNCHANGED <<proc, scans>>
  \/ \E p \in Procs, r \in Busy \cup {Free} :
       /\ To(p, r) /\ Enters(p, r)
       /\ \/ UNCHANGED scans
          \/ At(p, "charging") /\ r = Free /\ scans' = scans + 1

LEMMA Leaving ==
  ASSUME NEW p \in Procs, Done(p), UNCHANGED scans
  PROVE  ProcStep
<1>1. Enters(p, Free)
  BY DEF Enters, Free
<1> QED BY <1>1 DEF ProcStep, Done

\* At most places a process waits for nothing that anyone else counts.
LEMMA Moving ==
  ASSUME NEW p \in Procs, NEW r \in Busy, To(p, r), UNCHANGED scans,
         r.pc \notin {"confirming", "editing", "deleting", "totalled", "charging"}
  PROVE  ProcStep
BY DEF ProcStep, Enters

LEMMA TotalTyped == Total(Existing) \in 0..Cardinality(Docs)
<1>1. {d \in Existing : doc[d].size = 1} \subseteq Docs
  BY DEF Existing
<1>2. /\ Cardinality({d \in Existing : doc[d].size = 1}) <= Cardinality(Docs)
      /\ Cardinality({d \in Existing : doc[d].size = 1}) \in Nat
      /\ Cardinality(Docs) \in Nat
  BY <1>1, DocConstantsOK, FS_Subset, FS_CardinalityType
<1> QED BY <1>2 DEF Total

\* Every action moves at most one process.
LEMMA ProcSteps ==
  ASSUME DocTypeOK, DocNext
  PROVE  ProcStep
<1>1. ASSUME NEW d \in Docs, UploadPrimary(d) PROVE ProcStep
  BY <1>1 DEF UploadPrimary, Upload, ProcStep, queueVars
<1>2. ASSUME NEW d \in Docs, UploadSupporting(d) PROVE ProcStep
  BY <1>2 DEF UploadSupporting, Upload, ProcStep, queueVars
<1>3. ASSUME NEW d \in Docs, Put(d) PROVE ProcStep
  BY <1>3 DEF Put, Upload, ProcStep, queueVars
<1>4. ASSUME NEW d \in Docs, ExpireMarker(d) PROVE ProcStep
  BY <1>4 DEF ExpireMarker, Upload, ProcStep, queueVars
<1>5. ASSUME NEW d \in Docs, CreateFromPoll(d) PROVE ProcStep
  BY <1>5 DEF CreateFromPoll, Upload, ProcStep, queueVars
<1>6. ASSUME NEW d \in Docs, NoSlot(d) PROVE ProcStep
  BY <1>6 DEF NoSlot, Upload, ProcStep, queueVars
<1>7. ASSUME NEW d \in Docs, HardDeleteRecord(d) PROVE ProcStep
  BY <1>7 DEF HardDeleteRecord, Upload, ProcStep, queueVars
<1>8. ASSUME NEW d \in Docs, RemoveObject(d) PROVE ProcStep
  BY <1>8 DEF RemoveObject, Upload, ProcStep, queueVars
<1>9. ASSUME NEW d \in Docs, GrowOld(d) PROVE ProcStep
  BY <1>9 DEF GrowOld, Upload, ProcStep, queueVars
<1>10. ASSUME NEW p \in Procs, NEW d \in Docs, BeginConfirm(p, d) PROVE ProcStep
  <2> DEFINE r == [pc |-> "confirming", doc |-> d, ok |-> PassesChecks(d)]
  <2>1. To(p, r) /\ UNCHANGED scans
    BY <1>10 DEF BeginConfirm, Open, queueVars
  <2>2. r \in Busy
    BY DEF Busy, PassesChecks
  <2>3. Enters(p, r)
    BY <1>10 DEF BeginConfirm, Open, Enters, rowVars, PassesChecks, Exists, Live
  <2> HIDE DEF r
  <2> QED BY <2>1, <2>2, <2>3 DEF ProcStep
<1>11. ASSUME NEW p \in Procs, NEW d \in Docs, StartExtract(p, d) PROVE ProcStep
  <2>1. UNCHANGED scans /\ d \in Docs
    BY <1>11 DEF StartExtract
  <2>2. [pc |-> "creating", doc |-> d] \in Busy /\ [pc |-> "extracting", doc |-> d] \in Busy
    BY DEF Busy
  <2>3. CASE UNCHANGED proc
    BY <2>1, <2>3 DEF ProcStep
  <2>4. CASE To(p, [pc |-> "creating", doc |-> d])
    BY <2>1, <2>2, <2>4, Moving
  <2>5. CASE To(p, [pc |-> "extracting", doc |-> d])
    BY <2>1, <2>2, <2>5, Moving
  <2> QED BY <1>11, <2>3, <2>4, <2>5 DEF StartExtract
<1>12. ASSUME NEW p \in Procs, NEW d \in Docs, OpenForm(p, d) PROVE ProcStep
  <2>1. To(p, [pc |-> "form", doc |-> d, row |-> doc[d]]) /\ UNCHANGED scans
    BY <1>12 DEF OpenForm, Open, queueVars
  <2>2. [pc |-> "form", doc |-> d, row |-> doc[d]] \in Busy
    BY DEF Busy, DocTypeOK
  <2> QED BY <2>1, <2>2, Moving
<1>13. ASSUME NEW p \in Procs, NEW d \in Docs, OpenEdit(p, d) PROVE ProcStep
  <2> DEFINE r == [pc |-> "editing", doc |-> d, row |-> doc[d]]
  <2>1. To(p, r) /\ UNCHANGED scans
    BY <1>13 DEF OpenEdit, Open, queueVars
  <2>2. r \in Busy
    BY DEF Busy, DocTypeOK
  <2>3. Enters(p, r)
    BY <1>13 DEF OpenEdit, Open, Enters, rowVars
  <2> HIDE DEF r
  <2> QED BY <2>1, <2>2, <2>3 DEF ProcStep
<1>14. ASSUME NEW p \in Procs, NEW d \in Docs, OpenDelete(p, d) PROVE ProcStep
  <2> DEFINE r == [pc |-> "deleting", doc |-> d, row |-> doc[d]]
  <2>1. To(p, r) /\ UNCHANGED scans
    BY <1>14 DEF OpenDelete, Open, queueVars
  <2>2. r \in Busy
    BY DEF Busy, DocTypeOK
  <2>3. Enters(p, r)
    BY <1>14 DEF OpenDelete, Open, Enters, rowVars
  <2> HIDE DEF r
  <2> QED BY <2>1, <2>2, <2>3 DEF ProcStep
<1>15. ASSUME NEW p \in Procs, EndConfirm(p) PROVE ProcStep
  <2> DEFINE r == [pc |-> "kickoff", doc |-> proc[p].doc]
  <2>1. proc[p].doc \in Docs
    BY <1>15, ProcTyped DEF EndConfirm, At
  <2>2. r \in Busy
    BY <2>1 DEF Busy
  <2>3. (To(p, r) \/ Done(p)) /\ UNCHANGED scans
    BY <1>15 DEF EndConfirm, queueVars
  <2> QED BY <2>2, <2>3, Leaving, Moving
<1>16. ASSUME NEW p \in Procs, BeginKickoff(p) PROVE ProcStep
  <2>1. CASE Done(p)
    BY <1>16, <2>1, Leaving DEF BeginKickoff
  <2>2. CASE CanScan /\ To(p, [proc[p] EXCEPT !.pc = "charging"])
    <3> DEFINE r == [proc[p] EXCEPT !.pc = "charging"]
    <3>1. proc[p] \in [pc : {"kickoff"}, doc : Docs]
      BY <1>16 DEF BeginKickoff, At, DocTypeOK, Busy, Free
    <3>2. r = [pc |-> "charging", doc |-> proc[p].doc]
      BY <3>1
    <3>3. r \in Busy
      BY <3>1, <3>2 DEF Busy
    <3>4. Enters(p, r)
      BY <2>2, <3>2 DEF Enters, CanScan
    <3>5. To(p, r) /\ UNCHANGED scans
      BY <1>16, <2>2 DEF BeginKickoff
    <3> HIDE DEF r
    <3> QED BY <3>3, <3>4, <3>5 DEF ProcStep
  <2> QED BY <1>16, <2>1, <2>2 DEF BeginKickoff
<1>17. ASSUME NEW p \in Procs, ChargeScan(p) PROVE ProcStep
  <2>1. CASE UNCHANGED scans
    BY <1>17, <2>1, Leaving DEF ChargeScan
  <2>2. CASE scans' = scans + 1
    <3>1. Enters(p, Free)
      BY DEF Enters, Free
    <3> QED BY <1>17, <2>2, <3>1 DEF ChargeScan, ProcStep, Done
  <2> QED BY <1>17, <2>1, <2>2 DEF ChargeScan, CountScan
<1>18. ASSUME NEW p \in Procs, FinishExtract(p) PROVE ProcStep
  <2> DEFINE r == [pc |-> "creating", doc |-> proc[p].doc]
  <2>1. proc[p].doc \in Docs
    BY <1>18, ProcTyped DEF FinishExtract, At
  <2>2. r \in Busy
    BY <2>1 DEF Busy
  <2>3. To(p, r) /\ UNCHANGED scans
    BY <1>18 DEF FinishExtract
  <2> QED BY <2>2, <2>3, Moving
<1>19. ASSUME NEW p \in Procs, FailExtract(p) PROVE ProcStep
  BY <1>19, Leaving DEF FailExtract
<1>20. ASSUME NEW p \in Procs, CreateFromTask(p) PROVE ProcStep
  BY <1>20, Leaving DEF CreateFromTask, queueVars
<1>21. ASSUME NEW p \in Procs, SubmitForm(p) PROVE ProcStep
  BY <1>21, Leaving DEF SubmitForm, queueVars
<1>22. ASSUME NEW p \in Procs, SaveEdit(p) PROVE ProcStep
  BY <1>22, Leaving DEF SaveEdit, queueVars
<1>23. ASSUME NEW p \in Procs, SubmitDelete(p) PROVE ProcStep
  BY <1>23, Leaving DEF SubmitDelete, queueVars
<1>24. ASSUME NEW p \in Procs, RemoveStaleFiles(p) PROVE ProcStep
  <2> DEFINE r == [proc[p] EXCEPT !.pc = "clearing"]
  <2>1. proc[p] \in [pc : {"listed", "clearing"}, docs : SUBSET Docs]
    BY <1>24 DEF RemoveStaleFiles, At, DocTypeOK, Busy, Free
  <2>2. r = [pc |-> "clearing", docs |-> proc[p].docs]
    BY <2>1
  <2>3. r \in Busy
    BY <2>1, <2>2 DEF Busy
  <2>4. To(p, r) /\ UNCHANGED scans
    BY <1>24 DEF RemoveStaleFiles, queueVars
  <2> HIDE DEF r
  <2> QED BY <2>2, <2>3, <2>4, Moving
<1>25. ASSUME NEW p \in Procs, ClearRows(p) PROVE ProcStep
  BY <1>25, Leaving DEF ClearRows, queueVars
<1>26. ASSUME NEW p \in Procs, WriteTotal(p) PROVE ProcStep
  BY <1>26, Leaving DEF WriteTotal, queueVars
<1>27. ASSUME NEW p \in Procs, ListOrphans(p) PROVE ProcStep
  <2> DEFINE r == [pc |-> "clearing", docs |-> Orphans]
  <2>1. To(p, r) /\ UNCHANGED scans
    BY <1>27 DEF ListOrphans, queueVars
  <2>2. r \in Busy
    BY DEF Busy, Orphans, Existing
  <2> QED BY <2>1, <2>2, Moving
<1>28. ASSUME NEW p \in Procs, ListStale(p) PROVE ProcStep
  <2>1. PICK s : To(p, [pc |-> "listed", docs |-> Stale(s)]) /\ UNCHANGED scans
    BY <1>28 DEF ListStale, queueVars
  <2>2. [pc |-> "listed", docs |-> Stale(s)] \in Busy
    BY DEF Busy, Stale, Existing
  <2> QED BY <2>1, <2>2, Moving
<1>29. ASSUME NEW p \in Procs, ReadTotal(p) PROVE ProcStep
  <2> DEFINE r == [pc |-> "totalled", total |-> Total(Existing)]
  <2>1. To(p, r) /\ UNCHANGED scans
    BY <1>29 DEF ReadTotal, queueVars
  <2>2. Total(Existing) \in 0..Cardinality(Docs)
    BY TotalTyped
  <2>3. r \in Busy /\ Enters(p, r)
    BY <1>29, <2>2 DEF ReadTotal, Enters, Busy
  <2> HIDE DEF r
  <2> QED BY <2>1, <2>3 DEF ProcStep
<1>30. ASSUME NEW p \in Procs, CrashProcess(p) PROVE ProcStep
  BY <1>30, Leaving DEF CrashProcess, queueVars
<1> QED
  BY <1>1, <1>2, <1>3, <1>4, <1>5, <1>6, <1>7, <1>8, <1>9, <1>10,
     <1>11, <1>12, <1>13, <1>14, <1>15, <1>16, <1>17, <1>18, <1>19, <1>20,
     <1>21, <1>22, <1>23, <1>24, <1>25, <1>26, <1>27, <1>28, <1>29, <1>30
  DEF DocNext, Accepts, Finishes, Extraction

LEMMA TotalOf ==
  ASSUME NEW S \in SUBSET Docs
  PROVE  Total(S) \in Nat
<1>1. {d \in S : doc[d].size = 1} \subseteq Docs
  OBVIOUS
<1> QED BY <1>1, DocConstantsOK, FS_Subset, FS_CardinalityType DEF Total

LEMMA RowTypes ==
  ASSUME DocTypeOK, RowStep
  PROVE  /\ doc' \in [Docs -> Rows] /\ counter' \in Nat
         /\ ocrRecords' \in [Docs -> Nat]
<1> USE DEF DocTypeOK
<1>1. CASE Kept
  BY <1>1 DEF Kept
<1>2. ASSUME NEW d \in Docs, Started(d) \/ Touched(d)
      PROVE  doc' \in [Docs -> Rows] /\ counter' \in Nat /\ ocrRecords' \in [Docs -> Nat]
  BY <1>2 DEF Started, Touched, Set
<1>3. ASSUME NEW d \in Docs, Linked(d)
      PROVE  doc' \in [Docs -> Rows] /\ counter' \in Nat /\ ocrRecords' \in [Docs -> Nat]
  BY <1>3 DEF Linked, Set
<1>4. ASSUME NEW p \in Procs, NEW d \in Docs, Stored(p, d) \/ Edited(p, d) \/ RowDeleted(p, d)
      PROVE  doc' \in [Docs -> Rows] /\ counter' \in Nat /\ ocrRecords' \in [Docs -> Nat]
  <2>1. doc[d].size \in 0..1 /\ (At(p, "editing") => proc[p].row.size \in 0..1)
    BY ProcTyped DEF Rows, At
  <2>2. \A a, b \in 0..1 : Adjusted(a, b) \in Nat
    BY DEF Adjusted
  <2>3. Gone \in Rows
    BY NewRow DEF RowBecomes
  <2>4. counter' \in Nat
    BY <1>4, <2>1, <2>2 DEF Stored, Edited, RowDeleted, CountSave
  <2> QED BY <1>4, <2>3, <2>4 DEF Stored, Edited, RowDeleted, Set
<1>5. ASSUME NEW p \in Procs, Recounted(p)
      PROVE  doc' \in [Docs -> Rows] /\ counter' \in Nat /\ ocrRecords' \in [Docs -> Nat]
  BY <1>5 DEF Recounted
<1>6. ASSUME NEW S \in SUBSET Docs, RowsRemoved(S)
      PROVE  doc' \in [Docs -> Rows] /\ counter' \in Nat /\ ocrRecords' \in [Docs -> Nat]
  <2>1. Gone \in Rows
    BY NewRow DEF RowBecomes
  <2>2. counter' \in Nat
    BY <1>6, TotalOf DEF RowsRemoved, DeleteRows, Adjusted
  <2> QED BY <1>6, <2>1, <2>2 DEF RowsRemoved, DeleteRows
<1> QED BY <1>1, <1>2, <1>3, <1>4, <1>5, <1>6 DEF RowStep

\* The rest: objects, queues, markers and bounds.
RestTypeOK ==
  /\ young \subseteq Docs /\ doomed \subseteq Docs /\ jobs \subseteq Docs
  /\ file \in [Docs -> {"absent", "good", "empty", "junk"}]
  /\ cache \in [Docs -> {"none", "processing", "data", "error"}]
  /\ tries \in [Docs -> 0..MaxRetries]
  /\ spent \in 0..Budget

\* Each queue, marker and object is about a document there may be.
LEMMA RestTypes ==
  ASSUME DocTypeOK, DocNext
  PROVE  RestTypeOK'
<1> USE DEF DocTypeOK, RestTypeOK, queueVars, rowVars
<1>1. ASSUME NEW d \in Docs, UploadPrimary(d) PROVE RestTypeOK'
  BY <1>1 DEF UploadPrimary, Upload
<1>2. ASSUME NEW d \in Docs, UploadSupporting(d) PROVE RestTypeOK'
  BY <1>2 DEF UploadSupporting, Upload
<1>3. ASSUME NEW d \in Docs, Put(d) PROVE RestTypeOK'
  <2>1. PICK f \in {"good", "empty", "junk"} : file' = [file EXCEPT ![d] = f]
    BY <1>3 DEF Put
  <2> QED BY <1>3, <2>1 DEF Put
<1>4. ASSUME NEW d \in Docs, ExpireMarker(d) PROVE RestTypeOK'
  BY <1>4 DEF ExpireMarker
<1>5. ASSUME NEW d \in Docs, CreateFromPoll(d) PROVE RestTypeOK'
  BY <1>5 DEF CreateFromPoll
<1>6. ASSUME NEW d \in Docs, NoSlot(d) PROVE RestTypeOK'
  BY <1>6, DocConstantsOK DEF NoSlot
<1>7. ASSUME NEW d \in Docs, HardDeleteRecord(d) PROVE RestTypeOK'
  BY <1>7 DEF HardDeleteRecord, DeleteRows
<1>8. ASSUME NEW d \in Docs, RemoveObject(d) PROVE RestTypeOK'
  BY <1>8 DEF RemoveObject
<1>9. ASSUME NEW d \in Docs, GrowOld(d) PROVE RestTypeOK'
  BY <1>9 DEF GrowOld
<1>10. ASSUME NEW p \in Procs, NEW d \in Docs, BeginConfirm(p, d) PROVE RestTypeOK'
  BY <1>10 DEF BeginConfirm
<1>11. ASSUME NEW p \in Procs, NEW d \in Docs, StartExtract(p, d) PROVE RestTypeOK'
  BY <1>11 DEF StartExtract
<1>12. ASSUME NEW p \in Procs, NEW d \in Docs, OpenForm(p, d) PROVE RestTypeOK'
  BY <1>12 DEF OpenForm, Open
<1>13. ASSUME NEW p \in Procs, NEW d \in Docs, OpenEdit(p, d) PROVE RestTypeOK'
  BY <1>13, DocConstantsOK DEF OpenEdit, Open
<1>14. ASSUME NEW p \in Procs, NEW d \in Docs, OpenDelete(p, d) PROVE RestTypeOK'
  BY <1>14 DEF OpenDelete, Open
<1>15. ASSUME NEW p \in Procs, EndConfirm(p) PROVE RestTypeOK'
  <2>1. proc[p].doc \in Docs
    BY <1>15, ProcTyped DEF EndConfirm, At
  <2> QED BY <1>15, <2>1 DEF EndConfirm
<1>16. ASSUME NEW p \in Procs, BeginKickoff(p) PROVE RestTypeOK'
  <2>1. proc[p].doc \in Docs
    BY <1>16, ProcTyped DEF BeginKickoff, At
  <2> QED BY <1>16, <2>1 DEF BeginKickoff
<1>17. ASSUME NEW p \in Procs, ChargeScan(p) PROVE RestTypeOK'
  <2>1. proc[p].doc \in Docs
    BY <1>17, ProcTyped DEF ChargeScan, At
  <2> QED BY <1>17, <2>1 DEF ChargeScan
<1>18. ASSUME NEW p \in Procs, FinishExtract(p) PROVE RestTypeOK'
  <2>1. proc[p].doc \in Docs
    BY <1>18, ProcTyped DEF FinishExtract, At
  <2> QED BY <1>18, <2>1 DEF FinishExtract
<1>19. ASSUME NEW p \in Procs, FailExtract(p) PROVE RestTypeOK'
  <2>1. proc[p].doc \in Docs
    BY <1>19, ProcTyped DEF FailExtract, At
  <2>2. UNCHANGED <<young, file, doomed, spent>>
    BY <1>19 DEF FailExtract
  <2>3. cache' \in [Docs -> {"none", "processing", "data", "error"}] /\ jobs' \subseteq Docs
    BY <1>19, <2>1 DEF FailExtract
  <2>4. tries' \in [Docs -> 0..MaxRetries]
    BY <1>19, <2>1, DocConstantsOK DEF FailExtract
  <2> QED BY <2>2, <2>3, <2>4
<1>20. ASSUME NEW p \in Procs, CreateFromTask(p) PROVE RestTypeOK'
  <2>1. proc[p].doc \in Docs
    BY <1>20, ProcTyped DEF CreateFromTask, At
  <2> QED BY <1>20, <2>1 DEF CreateFromTask
<1>21. ASSUME NEW p \in Procs, SubmitForm(p) PROVE RestTypeOK'
  <2>1. proc[p].doc \in Docs
    BY <1>21, ProcTyped DEF SubmitForm, At
  <2> QED BY <1>21, <2>1 DEF SubmitForm
<1>22. ASSUME NEW p \in Procs, SaveEdit(p) PROVE RestTypeOK'
  <2>1. proc[p].doc \in Docs
    BY <1>22, ProcTyped DEF SaveEdit, At
  <2> QED BY <1>22, <2>1 DEF SaveEdit
<1>23. ASSUME NEW p \in Procs, SubmitDelete(p) PROVE RestTypeOK'
  <2>1. proc[p].doc \in Docs
    BY <1>23, ProcTyped DEF SubmitDelete, At
  <2> QED BY <1>23, <2>1 DEF SubmitDelete
<1>24. ASSUME NEW p \in Procs, RemoveStaleFiles(p) PROVE RestTypeOK'
  BY <1>24 DEF RemoveStaleFiles
<1>25. ASSUME NEW p \in Procs, ClearRows(p) PROVE RestTypeOK'
  <2>1. proc[p].docs \subseteq Docs
    BY <1>25, ProcTyped DEF ClearRows, At
  <2> QED BY <1>25, <2>1 DEF ClearRows, DeleteRows
<1>26. ASSUME NEW p \in Procs, WriteTotal(p) PROVE RestTypeOK'
  BY <1>26 DEF WriteTotal
<1>27. ASSUME NEW p \in Procs, ListOrphans(p) PROVE RestTypeOK'
  BY <1>27 DEF ListOrphans
<1>28. ASSUME NEW p \in Procs, ListStale(p) PROVE RestTypeOK'
  BY <1>28 DEF ListStale
<1>29. ASSUME NEW p \in Procs, ReadTotal(p) PROVE RestTypeOK'
  BY <1>29 DEF ReadTotal
<1>30. ASSUME NEW p \in Procs, CrashProcess(p) PROVE RestTypeOK'
  <2>1. proc[p].pc \in {"extracting", "creating"} => proc[p].doc \in Docs
    BY ProcTyped
  <2> QED BY <1>30, <2>1, DocConstantsOK DEF CrashProcess, At
<1> QED
  BY <1>1, <1>2, <1>3, <1>4, <1>5, <1>6, <1>7, <1>8, <1>9, <1>10,
     <1>11, <1>12, <1>13, <1>14, <1>15, <1>16, <1>17, <1>18, <1>19, <1>20,
     <1>21, <1>22, <1>23, <1>24, <1>25, <1>26, <1>27, <1>28, <1>29, <1>30
  DEF DocNext, Accepts, Finishes, Extraction

LEMMA DocTypeStep ==
  ASSUME DocTypeOK, RowsAreSound, DocNext
  PROVE  DocTypeOK'
<1>1. proc' \in [Procs -> Busy \cup {Free}] /\ scans' \in Nat
  BY ProcSteps DEF ProcStep, To, DocTypeOK
<1>2. RestTypeOK'
  BY RestTypes
<1>3. doc' \in [Docs -> Rows] /\ counter' \in Nat /\ ocrRecords' \in [Docs -> Nat]
  BY RowSteps, RowTypes
<1> QED BY <1>1, <1>2, <1>3 DEF DocTypeOK, RestTypeOK

-----------------------------------------------------------------------------
(* The parts, step by step.                                                *)

\* Whose record is empty has no bytes, and nobody deletes a locked row.
LEMMA RowsStaySound ==
  ASSUME DocTypeOK, RowsAreSound, RowStep, NEW e \in Docs
  PROVE  /\ ~Exists(e)' => doc'[e].size = 0
         /\ Exists(e) /\ Locked(e) => Exists(e)'
<1> USE DEF Exists, DocTypeOK
<1>0. RowBecomes(Gone, "gone", "none", 0)
  BY NewRow
<1>1. CASE Kept
  BY <1>1 DEF Kept, RowsAreSound
<1>2. ASSUME NEW d \in Docs, NEW n \in Rows, Set(d, n), n.status \in Live
      PROVE  /\ ~Exists(e)' => doc'[e].size = 0
             /\ Exists(e) => Exists(e)'
  BY <1>2 DEF Set, RowsAreSound
<1>3. ASSUME NEW d \in Docs, Started(d) \/ Touched(d) \/ Linked(d)
      PROVE  /\ ~Exists(e)' => doc'[e].size = 0
             /\ Exists(e) => Exists(e)'
  BY <1>2, <1>3 DEF Started, Touched, Linked, RowBecomes
<1>4. ASSUME NEW p \in Procs, NEW d \in Docs, Stored(p, d) \/ Edited(p, d)
      PROVE  /\ ~Exists(e)' => doc'[e].size = 0
             /\ Exists(e) => Exists(e)'
  BY <1>2, <1>4 DEF Stored, Edited, RowBecomes, RowsAreSound, Live
<1>5. ASSUME NEW p \in Procs, NEW d \in Docs, RowDeleted(p, d)
      PROVE  /\ ~Exists(e)' => doc'[e].size = 0
             /\ Exists(e) /\ Locked(e) => Exists(e)'
  BY <1>0, <1>5 DEF RowDeleted, Set, RowBecomes, RowsAreSound
<1>6. ASSUME NEW p \in Procs, Recounted(p)
      PROVE  /\ ~Exists(e)' => doc'[e].size = 0
             /\ Exists(e) => Exists(e)'
  BY <1>6 DEF Recounted, RowsAreSound
<1>7. ASSUME NEW S \in SUBSET Docs, RowsRemoved(S)
      PROVE  /\ ~Exists(e)' => doc'[e].size = 0
             /\ Exists(e) /\ Locked(e) => Exists(e)'
  BY <1>0, <1>7 DEF RowsRemoved, DeleteRows, RowBecomes, RowsAreSound
<1> QED BY <1>1, <1>3, <1>4, <1>5, <1>6, <1>7 DEF RowStep

LEMMA SoundStep ==
  ASSUME DocTypeOK, RowsAreSound, DocNext
  PROVE  RowsAreSound'
<1>1. RowStep /\ ProcStep
  BY RowSteps, ProcSteps
<1>2. \A d \in Docs : ~Exists(d)' => doc'[d].size = 0
  BY <1>1, RowsStaySound
<1>3. \A d \in Docs : Exists(d) /\ Locked(d) => Exists(d)'
  BY <1>1, RowsStaySound
<1>4. ASSUME NEW q \in Procs, At(q, "confirming")'
      PROVE  Exists(proc[q].doc)'
  <2>1. CASE proc'[q] = proc[q]
    <3>1. PICK d \in Docs : d = proc[q].doc
      BY <1>4, <2>1, ProcTyped DEF At
    <3>2. Exists(d) /\ Locked(d)
      BY <1>4, <2>1, <3>1 DEF RowsAreSound, At, Locked
    <3> QED BY <1>3, <2>1, <3>1, <3>2 DEF Exists
  <2>2. CASE proc'[q] # proc[q]
    <3>1. Enters(q, proc'[q])
      BY <1>1, <2>2 DEF ProcStep, To, DocTypeOK
    <3>2. doc' = doc /\ Exists(proc'[q].doc)
      BY <1>4, <3>1 DEF Enters, At
    <3> QED BY <3>2 DEF Exists
  <2> QED BY <2>1, <2>2
<1>5. ASSUME NEW q \in Procs, At(q, "editing")'
      PROVE  (proc[q].row.status \in Live)'
  <2>1. CASE proc'[q] = proc[q]
    BY <1>5, <2>1 DEF RowsAreSound, At, Live
  <2>2. CASE proc'[q] # proc[q]
    <3>1. Enters(q, proc'[q])
      BY <1>1, <2>2 DEF ProcStep, To, DocTypeOK
    <3> QED BY <1>5, <3>1 DEF Enters, At, Exists
  <2> QED BY <2>1, <2>2
<1> QED BY <1>2, <1>4, <1>5 DEF RowsAreSound

LEMMA AllowedStep ==
  ASSUME DocTypeOK, ProcsAreAllowed, DocNext, UNCHANGED env
  PROVE  ProcsAreAllowed'
<1>1. ProcStep
  BY ProcSteps
<1>2. ASSUME NEW q \in Procs PROVE proc'[q] = proc[q] \/ Enters(q, proc'[q])
  BY <1>1 DEF ProcStep, To, DocTypeOK
<1> QED BY <1>2 DEF ProcsAreAllowed, Enters, At

\* One record is made, on a row that has none, and the row stays linked.
LEMMA RecordStep ==
  ASSUME DocTypeOK, RowsAreSound, ProcsAreAllowed, UnlinkedHasNoRecord, DocNext,
         UNCHANGED env
  PROVE  UnlinkedHasNoRecord'
<1> SUFFICES ASSUME "edit" \notin env, NEW e \in Docs
             PROVE  /\ ocrRecords'[e] <= 1
                    /\ doc'[e].status = "unused" \/ (Exists(e)' /\ doc'[e].link = "none")
                         => ocrRecords'[e] = 0
  BY DEF UnlinkedHasNoRecord
<1> USE DEF Exists, DocTypeOK
<1>0. RowBecomes(Gone, "gone", "none", 0)
  BY NewRow
<1>a. RowStep
  BY RowSteps
<1>b. /\ ocrRecords[e] <= 1 /\ ocrRecords[e] \in Nat
      /\ doc[e].status = "unused" \/ (Exists(e) /\ doc[e].link = "none")
           => ocrRecords[e] = 0
  BY DEF UnlinkedHasNoRecord
<1> DEFINE Goal == /\ ocrRecords'[e] <= 1
                   /\ doc'[e].status = "unused" \/ (Exists(e)' /\ doc'[e].link = "none")
                        => ocrRecords'[e] = 0
<1>1. CASE Kept
  BY <1>1, <1>b DEF Kept
<1>2. ASSUME NEW d \in Docs, Started(d) PROVE Goal
  BY <1>2, <1>b DEF Started, Set
<1>3. ASSUME NEW d \in Docs, Touched(d) PROVE Goal
  BY <1>3, <1>b DEF Touched, Set, Live
<1>4. ASSUME NEW d \in Docs, Linked(d) PROVE Goal
  BY <1>4, <1>b DEF Linked, Set, RowBecomes, Live
<1>5. ASSUME NEW p \in Procs, NEW d \in Docs, Stored(p, d) PROVE Goal
  BY <1>5, <1>b DEF Stored, Set, RowBecomes, RowsAreSound
<1>6. ASSUME NEW p \in Procs, NEW d \in Docs, Edited(p, d) PROVE Goal
  BY <1>6 DEF Edited, ProcsAreAllowed
<1>7. ASSUME NEW p \in Procs, NEW d \in Docs, RowDeleted(p, d) PROVE Goal
  BY <1>0, <1>7, <1>b DEF RowDeleted, Set, RowBecomes, Live
<1>8. ASSUME NEW p \in Procs, Recounted(p) PROVE Goal
  BY <1>8, <1>b DEF Recounted
<1>9. ASSUME NEW S \in SUBSET Docs, RowsRemoved(S) PROVE Goal
  BY <1>0, <1>9, <1>b DEF RowsRemoved, DeleteRows, RowBecomes, Live
<1> QED BY <1>a, <1>1, <1>2, <1>3, <1>4, <1>5, <1>6, <1>7, <1>8, <1>9 DEF RowStep

-----------------------------------------------------------------------------
(* The two counters.                                                       *)

LEMMA SizedFinite ==
  /\ IsFiniteSet(Sized) /\ Cardinality(Sized) \in Nat
  /\ IsFiniteSet(Passed) /\ Cardinality(Passed) \in Nat
  /\ IsFiniteSet(Returning) /\ Cardinality(Returning) \in Nat
  /\ IsFiniteSet(Charging) /\ Cardinality(Charging) \in Nat
  /\ Cardinality(Procs) \in Nat
<1>1. Sized \subseteq Docs /\ Returning \subseteq Docs
  BY DEF Sized, Returning
<1>2. Passed \subseteq Procs /\ Charging \subseteq Procs
  BY DEF Passed, Charging
<1> QED BY <1>1, <1>2, DocConstantsOK, FS_Subset, FS_CardinalityType

\* A save moves the sum by what the row's size changes.
LEMMA SizedSet ==
  ASSUME DocTypeOK, NEW d \in Docs, NEW n \in Rows, Set(d, n)
  PROVE  /\ Cardinality(Sized') = Cardinality(Sized) + n.size - doc[d].size
         /\ doc[d].size <= Cardinality(Sized)
         /\ n.size \in 0..1 /\ doc[d].size \in 0..1
<1>1. n.size \in 0..1 /\ doc[d].size \in 0..1 /\ doc[d] \in Rows
  BY DEF DocTypeOK, Rows
<1>2. \A e \in Docs : doc'[e] = IF e = d THEN n ELSE doc[e]
  BY DEF Set, DocTypeOK
<1>3. CASE n.size = doc[d].size
  <2>1. Sized' = Sized
    BY <1>2, <1>3 DEF Sized
  <2>2. doc[d].size = 1 => Cardinality(Sized) >= 1
    <3>1. doc[d].size = 1 => d \in Sized
      BY DEF Sized
    <3>2. d \in Sized => Cardinality(Sized \ {d}) = Cardinality(Sized) - 1
                         /\ IsFiniteSet(Sized \ {d})
      BY SizedFinite, FS_RemoveElement
    <3>3. IsFiniteSet(Sized \ {d}) => Cardinality(Sized \ {d}) \in Nat
      BY FS_CardinalityType
    <3> QED BY <3>1, <3>2, <3>3, SizedFinite
  <2> QED BY <1>1, <1>3, <2>1, <2>2, SizedFinite
<1>4. CASE n.size = 1 /\ doc[d].size = 0
  <2>1. Sized' = Sized \cup {d} /\ d \notin Sized
    BY <1>2, <1>4 DEF Sized
  <2>2. Cardinality(Sized') = Cardinality(Sized) + 1
    BY <2>1, SizedFinite, FS_AddElement
  <2> QED BY <1>1, <1>4, <2>2, SizedFinite
<1>5. CASE n.size = 0 /\ doc[d].size = 1
  <2>1. Sized' = Sized \ {d} /\ d \in Sized
    BY <1>2, <1>5 DEF Sized
  <2>2. Cardinality(Sized') = Cardinality(Sized) - 1 /\ IsFiniteSet(Sized')
    BY <2>1, SizedFinite, FS_RemoveElement
  <2>3. Cardinality(Sized') \in Nat
    BY <2>2, FS_CardinalityType
  <2> QED BY <1>1, <1>5, <2>2, <2>3, SizedFinite
<1> QED BY <1>1, <1>3, <1>4, <1>5

LEMMA SizedRemoved ==
  ASSUME DocTypeOK, RowsAreSound, NEW S \in SUBSET Docs, DeleteRows(S)
  PROVE  /\ Sized' \subseteq Sized
         /\ Cardinality(Sized') = Cardinality(Sized) - Total(S)
         /\ Total(S) \in Nat /\ Total(S) <= Cardinality(Sized)
<1>1. RowBecomes(Gone, "gone", "none", 0)
  BY NewRow
<1>2. \A e \in Docs : doc'[e] = IF e \in S /\ Exists(e) THEN Gone ELSE doc[e]
  BY DEF DeleteRows
<1>3. Sized' = Sized \ S
  BY <1>1, <1>2 DEF Sized, RowBecomes, RowsAreSound
<1>4. {d \in S : doc[d].size = 1} = Sized \cap S
  BY DEF Sized
<1>5. IsFiniteSet(S)
  BY DocConstantsOK, FS_Subset
<1>6. Cardinality(Sized \ S) = Cardinality(Sized) - Cardinality(Sized \cap S)
  BY SizedFinite, <1>5, FS_Difference
<1>7. IsFiniteSet(Sized \cap S) /\ Sized \cap S \subseteq Sized
  BY SizedFinite, FS_Intersection, <1>5
<1>8. Cardinality(Sized \cap S) \in Nat /\ Cardinality(Sized \cap S) <= Cardinality(Sized)
  BY <1>7, SizedFinite, FS_Subset, FS_CardinalityType
<1> QED BY <1>3, <1>4, <1>6, <1>8 DEF Total

\* Every write of a size goes with its difference to the counter.
LEMMA CounterStep ==
  ASSUME DocTypeOK, RowsAreSound, ProcsAreAllowed, CounterCounts, DocNext, UNCHANGED env
  PROVE  CounterCounts'
<1> SUFFICES ASSUME env \cap {"delete", "reconcile_storage"} = {}
             PROVE  counter' = Cardinality(Sized')
  BY DEF CounterCounts
<1>1. RowStep
  BY RowSteps
<1>2. counter = Cardinality(Sized) /\ counter \in Nat
  BY SizedFinite DEF CounterCounts
<1>3. CASE Kept
  BY <1>2, <1>3 DEF Kept, Sized
<1>4. ASSUME NEW d \in Docs, Started(d) PROVE counter' = Cardinality(Sized')
  <2>1. PICK n \in Rows : Set(d, n) /\ n.size = 0
    BY <1>4 DEF Started
  <2>2. doc[d].size = 0
    BY <1>4 DEF Started, RowsAreSound, Exists, Live
  <2>3. Cardinality(Sized') = Cardinality(Sized)
    BY <2>1, <2>2, SizedSet, SizedFinite
  <2> QED BY <1>2, <1>4, <2>3 DEF Started
<1>5. ASSUME NEW d \in Docs, Touched(d) \/ Linked(d) PROVE counter' = Cardinality(Sized')
  <2>1. PICK n \in Rows : Set(d, n) /\ n.size = doc[d].size
    BY <1>5 DEF Touched, Linked, RowBecomes
  <2>2. Cardinality(Sized') = Cardinality(Sized)
    BY <2>1, SizedSet, SizedFinite
  <2> QED BY <1>2, <1>5, <2>2 DEF Touched, Linked
<1>6. ASSUME NEW p \in Procs, NEW d \in Docs, Stored(p, d) \/ Edited(p, d)
      PROVE  counter' = Cardinality(Sized')
  <2>1. PICK n \in Rows : Set(d, n) /\ CountSave(n.size, doc[d].size)
    BY <1>6 DEF Stored, Edited, RowBecomes
  <2>2. /\ Cardinality(Sized') = Cardinality(Sized) + n.size - doc[d].size
        /\ doc[d].size <= Cardinality(Sized) /\ n.size \in 0..1 /\ doc[d].size \in 0..1
    BY <2>1, SizedSet
  <2> QED BY <1>2, <2>1, <2>2 DEF CountSave, Adjusted
<1>7. ASSUME NEW p \in Procs, NEW d \in Docs, RowDeleted(p, d)
      PROVE  counter' = Cardinality(Sized')
  BY <1>7 DEF RowDeleted, ProcsAreAllowed
<1>8. ASSUME NEW p \in Procs, Recounted(p) PROVE counter' = Cardinality(Sized')
  BY <1>8 DEF Recounted, ProcsAreAllowed
<1>9. ASSUME NEW S \in SUBSET Docs, RowsRemoved(S) PROVE counter' = Cardinality(Sized')
  <2>1. counter' = Adjusted(0, Total(S))
    BY <1>9 DEF RowsRemoved, DeleteRows
  <2>2. /\ Cardinality(Sized') = Cardinality(Sized) - Total(S)
        /\ Total(S) \in Nat /\ Total(S) <= Cardinality(Sized)
    BY <1>9, SizedRemoved DEF RowsRemoved
  <2> QED BY <1>2, <2>1, <2>2 DEF Adjusted
<1> QED BY <1>1, <1>3, <1>4, <1>5, <1>6, <1>7, <1>8, <1>9 DEF RowStep

\* Only so many can have read the count before the limit was reached.
LEMMA ScansStep ==
  ASSUME DocTypeOK, ScansFit, DocNext
  PROVE  ScansFit'
<1>1. ProcStep
  BY ProcSteps
<1>2. scans \in Nat /\ ScanLimit \in Nat
  BY DocConstantsOK DEF DocTypeOK
<1>3. CASE UNCHANGED <<proc, scans>>
  <2>1. Charging' = Charging
    BY <1>3 DEF Charging, At
  <2> QED BY <1>3, <2>1 DEF ScansFit
<1>4. ASSUME NEW p \in Procs, NEW r \in Busy \cup {Free}, To(p, r), Enters(p, r),
             UNCHANGED scans \/ (At(p, "charging") /\ r = Free /\ scans' = scans + 1)
      PROVE  ScansFit'
  <2>1. \A q \in Procs : proc'[q] = IF q = p THEN r ELSE proc[q]
    BY <1>4 DEF To, DocTypeOK
  <2>2. Charging' \subseteq Procs
    BY DEF Charging
  <2>3. Cardinality(Charging') <= Cardinality(Procs) /\ Cardinality(Charging') \in Nat
    BY <2>2, DocConstantsOK, FS_Subset, FS_CardinalityType
  <2>4. CASE r.pc = "charging"
    <3>1. scans' = scans /\ scans < ScanLimit
      BY <1>4, <2>4 DEF Enters, Free
    <3> QED BY <1>2, <2>3, <3>1, SizedFinite DEF ScansFit
  <2>5. CASE r.pc # "charging"
    <3>1. Charging' = Charging \ {p}
      BY <2>1, <2>5 DEF Charging, At
    <3>2. CASE p \in Charging
      <4>1. Cardinality(Charging') = Cardinality(Charging) - 1
        BY <3>1, <3>2, SizedFinite, FS_RemoveElement
      <4>2. scans' <= scans + 1 /\ scans' \in Nat
        BY <1>2, <1>4
      <4> QED BY <1>2, <2>3, <4>1, <4>2, SizedFinite DEF ScansFit
    <3>3. CASE p \notin Charging
      <4>1. Charging' = Charging
        BY <3>1, <3>3
      <4>2. scans' = scans
        BY <1>4, <3>3 DEF Charging
      <4> QED BY <4>1, <4>2 DEF ScansFit
    <3> QED BY <3>2, <3>3
  <2> QED BY <2>4, <2>5
<1> QED BY <1>1, <1>3, <1>4 DEF ProcStep

-----------------------------------------------------------------------------
(* The storage limit.                                                      *)

\* Processes that do one thing, and the documents of others, are no more than
\* the processes.
LEMMA ProcsShared ==
  ASSUME NEW A \in SUBSET Procs, NEW E \in SUBSET Procs, A \cap E = {},
         NEW R, NEW f \in [E -> R], \A x \in R : \E p \in E : f[p] = x
  PROVE  Cardinality(A) + Cardinality(R) <= Cardinality(Procs)
<1>1. IsFiniteSet(A) /\ IsFiniteSet(E)
  BY DocConstantsOK, FS_Subset
<1>2. f \in Surjection(E, R)
  BY DEF Surjection
<1>3. IsFiniteSet(R) /\ Cardinality(R) <= Cardinality(E)
  BY <1>1, <1>2, FS_Surjection
<1>4. Cardinality(A \cup E) = Cardinality(A) + Cardinality(E) - Cardinality(A \cap E)
  BY <1>1, FS_Union
<1>5. Cardinality(A \cap E) = 0
  BY FS_EmptySet
<1>6. Cardinality(A \cup E) <= Cardinality(Procs)
  BY DocConstantsOK, FS_Subset
<1>7. /\ Cardinality(A) \in Nat /\ Cardinality(E) \in Nat /\ Cardinality(R) \in Nat
      /\ Cardinality(Procs) \in Nat
  BY <1>1, <1>3, DocConstantsOK, FS_CardinalityType
<1> QED BY <1>3, <1>4, <1>5, <1>6, <1>7

\* What a smaller set gives up, the other may take.
LEMMA Exchange ==
  ASSUME NEW S, NEW S2, NEW R, NEW R2, IsFiniteSet(S), IsFiniteSet(R),
         S2 \subseteq S, R2 \subseteq R \cup (S \ S2)
  PROVE  Cardinality(S2) + Cardinality(R2) <= Cardinality(S) + Cardinality(R)
<1>1. IsFiniteSet(S2) /\ IsFiniteSet(S \ S2)
  BY FS_Subset, FS_Difference
<1>2. S \cap S2 = S2
  OBVIOUS
<1>3. Cardinality(S \ S2) = Cardinality(S) - Cardinality(S2)
  BY <1>1, <1>2, FS_Difference
<1>4. IsFiniteSet(R \cup (S \ S2))
        /\ Cardinality(R \cup (S \ S2)) <= Cardinality(R) + Cardinality(S \ S2)
  <2>1. /\ IsFiniteSet(R \cup (S \ S2))
        /\ Cardinality(R \cup (S \ S2)) =
             Cardinality(R) + Cardinality(S \ S2) - Cardinality(R \cap (S \ S2))
    BY <1>1, FS_Union
  <2>2. IsFiniteSet(R \cap (S \ S2))
    BY FS_Subset
  <2>3. /\ Cardinality(R \cap (S \ S2)) \in Nat /\ Cardinality(R) \in Nat
        /\ Cardinality(S \ S2) \in Nat
    BY <1>1, <2>2, FS_CardinalityType
  <2> QED BY <2>1, <2>3
<1>5. Cardinality(R2) <= Cardinality(R \cup (S \ S2)) /\ IsFiniteSet(R2)
  BY <1>4, FS_Subset
<1>6. /\ Cardinality(S) \in Nat /\ Cardinality(S2) \in Nat /\ Cardinality(R) \in Nat
      /\ Cardinality(R2) \in Nat /\ Cardinality(R \cup (S \ S2)) \in Nat
  BY <1>1, <1>4, <1>5, FS_CardinalityType
<1> QED BY <1>3, <1>4, <1>5, <1>6

LEMMA QuotaTyped == Quota \in Nat
BY DocConstantsOK, FS_CardinalityType DEF Quota

\* A file that passes the limit leaves room for every other process once.
LEMMA PassingFits ==
  ASSUME DocTypeOK, DocTypeOK', counter = Cardinality(Sized), counter + 1 <= Quota,
         Sized' = Sized
  PROVE  Cardinality(Sized') + Cardinality(Passed') + Cardinality(Returning')
           < Quota + Cardinality(Procs)
<1> DEFINE E == {q \in Procs : /\ proc'[q].pc = "editing" /\ proc'[q].row.size = 1
                               /\ doc'[proc'[q].doc].size = 0}
           f == [q \in E |-> proc'[q].doc]
<1>1. Passed' \in SUBSET Procs /\ E \in SUBSET Procs /\ Passed' \cap E = {}
  BY DEF Passed, At
<1>2. \A q \in E : proc'[q].doc \in Returning'
  <2> SUFFICES ASSUME NEW q \in E PROVE proc'[q].doc \in Returning'
    OBVIOUS
  <2>1. proc'[q].doc \in Docs
    BY DEF DocTypeOK, Busy, Free
  <2> QED BY <2>1 DEF Returning, At
<1>3. f \in [E -> Returning']
  BY <1>2
<1>4. \A x \in Returning' : \E q \in E : f[q] = x
  BY DEF Returning, At
<1>5. Cardinality(Passed') + Cardinality(Returning') <= Cardinality(Procs)
  <2> HIDE DEF E, f
  <2> QED BY <1>1, <1>3, <1>4, ProcsShared
<1>6. /\ Cardinality(Passed') \in Nat /\ Cardinality(Returning') \in Nat
      /\ Cardinality(Procs) \in Nat
  <2>1. Passed' \subseteq Procs /\ Returning' \subseteq Docs
    BY DEF Passed, Returning
  <2> QED BY <2>1, DocConstantsOK, FS_Subset, FS_CardinalityType
<1> QED BY <1>5, <1>6, SizedFinite, QuotaTyped

LEMMA StoredStep ==
  ASSUME DocTypeOK, DocTypeOK', RowsAreSound, ProcsAreAllowed, CounterCounts, StoredFits,
         DocNext, UNCHANGED env
  PROVE  StoredFits'
<1> DEFINE Sum == Cardinality(Sized) + Cardinality(Passed) + Cardinality(Returning)
           Sum2 == Cardinality(Sized') + Cardinality(Passed') + Cardinality(Returning')
<1> SUFFICES ASSUME env \cap {"delete", "reconcile_storage"} = {}
             PROVE  Sum2 < Quota + Cardinality(Procs)
  BY DEF StoredFits, Quota
<1>1. RowStep /\ ProcStep
  BY RowSteps, ProcSteps
<1>2. counter = Cardinality(Sized) /\ Sum < Quota + Cardinality(Procs)
  BY DEF CounterCounts, StoredFits
<1>3. /\ IsFiniteSet(Sized') /\ Cardinality(Sized') \in Nat
      /\ IsFiniteSet(Passed') /\ Cardinality(Passed') \in Nat
      /\ IsFiniteSet(Returning') /\ Cardinality(Returning') \in Nat
  <2>1. Sized' \subseteq Docs /\ Passed' \subseteq Procs /\ Returning' \subseteq Docs
    BY DEF Sized, Passed, Returning
  <2> QED BY <2>1, DocConstantsOK, FS_Subset, FS_CardinalityType
\* Nobody comes closer unless a check passes or a copy is taken.
<1>4. ASSUME NEW p \in Procs, NEW r \in Busy \cup {Free}, To(p, r), Enters(p, r),
             r.pc \in {"confirming", "editing"}
      PROVE  Sum2 < Quota + Cardinality(Procs)
  <2>1. doc' = doc /\ Sized' = Sized
    BY <1>4 DEF Enters, Sized
  <2>2. \A q \in Procs : proc'[q] = IF q = p THEN r ELSE proc[q]
    BY <1>4 DEF To, DocTypeOK
  <2>3. CASE r.pc = "confirming" /\ r.ok
    BY <1>2, <1>4, <2>1, <2>3, PassingFits DEF Enters
  <2>4. CASE r.pc = "editing" \/ (r.pc = "confirming" /\ ~r.ok)
    <3>1. Passed' \subseteq Passed
      BY <2>2, <2>4 DEF Passed, At
    <3>2. Returning' \subseteq Returning
      BY <1>4, <2>1, <2>2, <2>4 DEF Returning, At, Enters
    <3>3. Cardinality(Passed') <= Cardinality(Passed)
          /\ Cardinality(Returning') <= Cardinality(Returning)
      BY <3>1, <3>2, SizedFinite, FS_Subset
    <3> QED BY <1>2, <1>3, <2>1, <3>3, SizedFinite, QuotaTyped
  <2> QED BY <1>4, <2>3, <2>4
<1>5. ASSUME \A q \in Procs : proc'[q] = proc[q] \/ proc'[q].pc \notin {"confirming", "editing"}
      PROVE  Sum2 < Quota + Cardinality(Procs)
  <2>1. Passed' \subseteq Passed
    BY <1>5 DEF Passed, At
  <2>2. Returning' \subseteq Returning \cup (Sized \ Sized')
    <3> SUFFICES ASSUME NEW e \in Returning', e \notin Returning
                 PROVE  e \in Sized /\ e \notin Sized'
      OBVIOUS
    <3>1. e \in Docs /\ doc'[e].size = 0 /\ doc[e].size \in 0..1
      BY DEF Returning, DocTypeOK, Rows
    <3>2. PICK q \in Procs : /\ proc'[q].pc = "editing" /\ proc'[q].doc = e
                             /\ proc'[q].row.size = 1
      BY DEF Returning, At
    <3>3. doc[e].size # 0
      BY <1>5, <3>1, <3>2 DEF Returning, At
    <3> QED BY <3>1, <3>3 DEF Sized
  <2>3. Cardinality(Passed') <= Cardinality(Passed)
    BY <2>1, SizedFinite, FS_Subset
  <2>4. CASE Sized' \subseteq Sized
    <3>1. Cardinality(Sized') + Cardinality(Returning')
            <= Cardinality(Sized) + Cardinality(Returning)
      BY <2>2, <2>4, SizedFinite, Exchange
    <3> QED BY <1>2, <1>3, <2>3, <3>1, SizedFinite, QuotaTyped
  <2>5. ASSUME NEW d \in Docs, Sized' = Sized \cup {d}, d \notin Sized
        PROVE  /\ Cardinality(Sized') = Cardinality(Sized) + 1
               /\ Returning' \subseteq Returning \ {d}
    <3>1. Cardinality(Sized') = Cardinality(Sized) + 1
      BY <2>5, SizedFinite, FS_AddElement
    <3>2. d \notin Returning'
      BY <2>5 DEF Sized, Returning
    <3> QED BY <2>2, <2>5, <3>1, <3>2
  <2>6. ASSUME NEW d \in Docs, Sized' = Sized \cup {d}, d \notin Sized, NEW p \in Procs,
               Stored(p, d)
        PROVE  Sum2 < Quota + Cardinality(Procs)
    <3>1. p \in Passed /\ p \notin Passed'
      BY <2>6 DEF Passed, Stored, To, At, DocTypeOK
    <3>2. Cardinality(Passed \ {p}) = Cardinality(Passed) - 1 /\ IsFiniteSet(Passed \ {p})
      BY <3>1, SizedFinite, FS_RemoveElement
    <3>3. Passed' \subseteq Passed \ {p}
      BY <2>1, <3>1
    <3>4. Cardinality(Passed') <= Cardinality(Passed) - 1
      BY <3>2, <3>3, FS_Subset
    <3>5. Returning' \subseteq Returning
      BY <2>5, <2>6
    <3>6. Cardinality(Returning') <= Cardinality(Returning)
      BY <3>5, SizedFinite, FS_Subset
    <3>7. Cardinality(Sized') = Cardinality(Sized) + 1
      BY <2>5, <2>6
    <3> QED BY <1>2, <1>3, <3>4, <3>6, <3>7, SizedFinite, QuotaTyped
  <2>7. ASSUME NEW d \in Docs, Sized' = Sized \cup {d}, d \notin Sized, NEW p \in Procs,
               Edited(p, d)
        PROVE  Sum2 < Quota + Cardinality(Procs)
    <3>1. d \in Returning
      <4>1. doc[d].size = 0
        BY <2>7 DEF Sized, DocTypeOK, Rows
      <4>2. doc'[d].size = 1
        BY <2>7 DEF Sized
      <4>3. proc[p].row.size = 1
        BY <2>7, <4>2 DEF Edited, Set, DocTypeOK
      <4> QED BY <2>7, <4>1, <4>3 DEF Edited, Returning
    <3>2. Cardinality(Returning \ {d}) = Cardinality(Returning) - 1
          /\ IsFiniteSet(Returning \ {d})
      BY <3>1, SizedFinite, FS_RemoveElement
    <3>3. Cardinality(Returning') <= Cardinality(Returning) - 1
      BY <2>5, <2>7, <3>2, FS_Subset
    <3>4. Cardinality(Sized') = Cardinality(Sized) + 1
      BY <2>5, <2>7
    <3> QED BY <1>2, <1>3, <2>3, <3>3, <3>4, SizedFinite, QuotaTyped
  <2>8. ASSUME NEW d \in Docs, NEW n \in Rows, Set(d, n), n.size = doc[d].size
        PROVE  Sized' \subseteq Sized
    BY <2>8 DEF Set, Sized, DocTypeOK
  <2>9. ASSUME NEW p \in Procs, NEW d \in Docs, Stored(p, d) \/ Edited(p, d)
        PROVE  Sum2 < Quota + Cardinality(Procs)
    <3>1. PICK n \in Rows : Set(d, n)
      BY <2>9 DEF Stored, Edited
    <3>2. Sized' \subseteq Sized \/ (Sized' = Sized \cup {d} /\ d \notin Sized)
      BY <3>1 DEF Set, Sized, DocTypeOK
    <3> QED BY <2>4, <2>6, <2>7, <2>9, <3>2
  <2>10. CASE Kept \/ \E p \in Procs : Recounted(p)
    <3>1. Sized' \subseteq Sized
      BY <2>10 DEF Kept, Recounted, Sized
    <3> QED BY <2>4, <3>1
  <2>11. ASSUME NEW d \in Docs, Started(d) \/ Touched(d) \/ Linked(d)
         PROVE  Sum2 < Quota + Cardinality(Procs)
    <3>1. PICK n \in Rows : Set(d, n) /\ (n.size = 0 \/ n.size = doc[d].size)
      BY <2>11 DEF Started, Touched, Linked, RowBecomes
    <3>2. Sized' \subseteq Sized
      BY <3>1 DEF Set, Sized, DocTypeOK
    <3> QED BY <2>4, <3>2
  <2>12. ASSUME NEW p \in Procs, NEW d \in Docs, RowDeleted(p, d)
         PROVE  Sum2 < Quota + Cardinality(Procs)
    BY <2>12 DEF RowDeleted, ProcsAreAllowed
  <2>13. ASSUME NEW S \in SUBSET Docs, RowsRemoved(S)
         PROVE  Sum2 < Quota + Cardinality(Procs)
    BY <2>4, <2>13, SizedRemoved DEF RowsRemoved
  <2> QED BY <1>1, <2>9, <2>10, <2>11, <2>12, <2>13 DEF RowStep
<1>6. CASE UNCHANGED proc
  BY <1>5, <1>6
<1>7. ASSUME NEW p \in Procs, NEW r \in Busy \cup {Free}, To(p, r), Enters(p, r)
      PROVE  Sum2 < Quota + Cardinality(Procs)
  <2>1. CASE r.pc \in {"confirming", "editing"}
    BY <1>4, <1>7, <2>1
  <2>2. CASE r.pc \notin {"confirming", "editing"}
    <3>1. \A q \in Procs : proc'[q] = proc[q]
                             \/ proc'[q].pc \notin {"confirming", "editing"}
      BY <1>7, <2>2 DEF To, DocTypeOK
    <3> QED BY <1>5, <3>1
  <2> QED BY <2>1, <2>2
<1> QED BY <1>1, <1>6, <1>7 DEF ProcStep

-----------------------------------------------------------------------------
(* The theorems.                                                           *)

DocInv ==
  /\ DocTypeOK /\ RowsAreSound /\ ProcsAreAllowed /\ UnlinkedHasNoRecord
  /\ CounterCounts /\ ScansFit /\ StoredFits

LEMMA DocInit_Inv ==
  ASSUME DocInit
  PROVE  DocInv
<1>1. DocTypeOK
  <2>1. RowBecomes(NoDoc, "unused", "none", 0)
    BY NewRow
  <2>2. NoDoc \in Rows
    BY <2>1 DEF RowBecomes
  <2>3. 0 \in 0..MaxRetries /\ 0 \in 0..Budget
    BY DocConstantsOK
  <2> QED BY <2>2, <2>3 DEF DocInit, DocTypeOK
<1>2. \A d \in Docs : doc[d].size = 0 /\ ocrRecords[d] = 0
  BY DEF DocInit, NoDoc
<1>3. \A p \in Procs : proc[p].pc = "free"
  BY DEF DocInit, Free
<1>4. RowsAreSound /\ ProcsAreAllowed /\ UnlinkedHasNoRecord
  BY <1>2, <1>3 DEF RowsAreSound, ProcsAreAllowed, UnlinkedHasNoRecord, At
<1>5. Sized = {} /\ Charging = {} /\ Passed = {} /\ Returning = {}
  BY <1>2, <1>3 DEF Sized, Charging, Passed, Returning, At
<1>6. Cardinality({}) = 0
  BY FS_EmptySet
<1>7. Cardinality(Procs) \in Nat /\ Cardinality(Procs) # 0
  BY DocConstantsOK, FS_CardinalityType, FS_EmptySet
<1>8. CounterCounts
  BY <1>5, <1>6 DEF CounterCounts, DocInit
<1>9. ScansFit
  <2>1. scans = 0 /\ Cardinality(Charging) = 0
    BY <1>5, <1>6 DEF DocInit
  <2> QED BY <1>7, <2>1, DocConstantsOK DEF ScansFit
<1>10. StoredFits
  <2>1. /\ Cardinality(Sized) = 0 /\ Cardinality(Passed) = 0
        /\ Cardinality(Returning) = 0
    BY <1>5, <1>6
  <2> QED BY <1>7, <2>1, QuotaTyped DEF StoredFits
<1> QED BY <1>1, <1>4, <1>8, <1>9, <1>10 DEF DocInv

LEMMA DocNext_Inv ==
  ASSUME DocInv, [DocNext /\ UNCHANGED env]_<<env, docVars>>
  PROVE  DocInv'
<1>1. CASE DocNext /\ UNCHANGED env
  <2>1. DocTypeOK'
    BY <1>1, DocTypeStep DEF DocInv
  <2>2. RowsAreSound' /\ ProcsAreAllowed'
    BY <1>1, SoundStep, AllowedStep DEF DocInv
  <2>3. UnlinkedHasNoRecord' /\ CounterCounts' /\ ScansFit'
    BY <1>1, RecordStep, CounterStep, ScansStep DEF DocInv
  <2>4. StoredFits'
    BY <1>1, <2>1, StoredStep DEF DocInv
  <2> QED BY <2>1, <2>2, <2>3, <2>4 DEF DocInv
<1>2. CASE UNCHANGED <<env, docVars>>
  <2> USE <1>2 DEF docVars, DocInv
  <2>1. DocTypeOK'
    BY DEF DocTypeOK
  <2>2. RowsAreSound' /\ ProcsAreAllowed' /\ UnlinkedHasNoRecord'
    BY DEF RowsAreSound, ProcsAreAllowed, UnlinkedHasNoRecord, At, Exists
  <2>3. CounterCounts'
    BY DEF CounterCounts, Sized
  <2>4. ScansFit'
    BY DEF ScansFit, Charging, At
  <2>5. StoredFits'
    BY DEF StoredFits, Sized, Passed, Returning, At, Quota
  <2> QED BY <2>1, <2>2, <2>3, <2>4, <2>5
<1> QED BY <1>1, <1>2

\* Whatever uploads, workers, edits and clean-ups do, every row is sound, every
\* scan and file in the air has its place under the limit, and an unlinked
\* document has no record from its data yet.
THEOREM DocumentsInvariant == DocSpec => []DocInv
<1>1. DocInit => DocInv
  BY DocInit_Inv
<1>2. DocInv /\ [DocNext /\ UNCHANGED env]_<<env, docVars>> => DocInv'
  BY DocNext_Inv
<1> QED BY <1>1, <1>2, PTL DEF DocSpec

\* Rows, caches, retry counts and processes stay what their columns allow, and
\* storage_used_bytes never falls below zero.
THEOREM DocumentsTyped == DocSpec => []DocTypeOK
<1>1. DocInv => DocTypeOK
  BY DEF DocInv
<1> QED BY <1>1, DocumentsInvariant, PTL

\* create_record_from_ocr runs in the task, from the status poll and again after
\* a retry or a crash, and still makes one record of a document's data.
THEOREM OneOcrRecordAlways == DocSpec => []OneOcrRecord
<1>1. DocInv => OneOcrRecord
  BY DEF DocInv, OneOcrRecord, UnlinkedHasNoRecord
<1> QED BY <1>1, DocumentsInvariant, PTL

\* can_scan reads before record_scan counts; what overlaps passes together, and
\* no more of it than runs at once.
THEOREM ScansBoundedAlways == DocSpec => []ScansBounded
<1>1. DocInv => ScansBounded
  <2> SUFFICES ASSUME DocInv PROVE ScansBounded
    OBVIOUS
  <2>1. scans + Cardinality(Charging) < ScanLimit + Cardinality(Procs) /\ scans \in Nat
    BY DEF DocInv, ScansFit, DocTypeOK
  <2> QED BY <2>1, SizedFinite, DocConstantsOK DEF ScansBounded
<1> QED BY <1>1, DocumentsInvariant, PTL

\* The rows that are there hold all the bytes.
LEMMA TotalIsSized ==
  ASSUME RowsAreSound
  PROVE  Total(Existing) = Cardinality(Sized)
<1>1. {d \in Existing : doc[d].size = 1} = Sized
  BY DEF RowsAreSound, Existing, Sized
<1> QED BY <1>1 DEF Total

\* Through every confirmed upload, stale edit and bulk clean-up,
\* storage_used_bytes is the sum of the rows, as documents/signals.py means it.
THEOREM CounterIsExactAlways == DocSpec => []CounterIsExact
<1>1. DocInv => CounterIsExact
  BY TotalIsSized DEF DocInv, CounterCounts, CounterIsExact
<1> QED BY <1>1, DocumentsInvariant, PTL

\* Confirmations that pass the storage limit together, and edits that bring back
\* a file a clean-up removed, exceed the plan by fewer files than there are
\* processes.
THEOREM StoredBoundedAlways == DocSpec => []StoredBounded
<1>1. DocInv => StoredBounded
  <2> SUFFICES ASSUME DocInv, env \cap {"delete", "reconcile_storage"} = {}
               PROVE  Total(Existing) < Quota + Cardinality(Procs)
    BY DEF StoredBounded
  <2>1. Cardinality(Sized) + Cardinality(Passed) + Cardinality(Returning)
          < Quota + Cardinality(Procs)
    BY DEF DocInv, StoredFits
  <2>2. Cardinality(Sized) < Quota + Cardinality(Procs)
    BY <2>1, SizedFinite, QuotaTyped
  <2> QED BY <2>2, TotalIsSized DEF DocInv
<1> QED BY <1>1, DocumentsInvariant, PTL
=============================================================================
