------------------------------ MODULE Documents ------------------------------
(***************************************************************************)
(* One user's documents from the presigned upload to the clean-up: rows in *)
(* PostgreSQL, objects in R2, the OCR marker in the cache, the Dramatiq    *)
(* queue, and the two counters a plan is enforced with (bytes stored,      *)
(* scans run).  A process is a web request, a worker or a periodic task;   *)
(* what it reads and what it writes later are two steps.                   *)
(***************************************************************************)
EXTENDS Integers, FiniteSets, Scenarios

CONSTANTS
  Docs,          \* bound: rows that may ever exist
  Procs,         \* requests, workers and periodic tasks running at once
  ScanLimit,     \* monthly scans of the plan
  MaxRetries,    \* MAX_OCR_RETRIES
  Budget         \* bound: crashes and edits of the row, together

ASSUME DocConstantsOK ==
  /\ ScanLimit \in Nat /\ MaxRetries \in Nat /\ Budget \in Nat
  /\ IsFiniteSet(Docs) /\ IsFiniteSet(Procs) /\ Procs # {}

\* The words of a scenario: many, small_plan, bad_file, ocr_failure, support,
\* form, edit, delete, sweep, reconcile_storage, crash, crowded.
VARIABLES
  doc,       \* the DocumentData rows
  young,     \* documents younger than every grace period
  file,      \* the R2 objects
  doomed,    \* queued delete_document messages
  cache,     \* ocr_status_<id>
  jobs,      \* queued extract_document messages
  tries,     \* their retry counts
  ocrRecords,\* records ever created from a document's OCR data
  counter,   \* CustomUser.storage_used_bytes
  scans,     \* ScanUsage.count
  proc,      \* what each process is doing
  spent      \* crashes and edits so far

rowVars == <<doc, counter>>
queueVars == <<cache, jobs, tries, scans>>
docVars == <<doc, young, file, doomed, cache, jobs, tries, ocrRecords,
             counter, scans, proc, spent>>

\* The storage limit: a plan that holds one file, or more than there will be.
\* Every file has one unit.
Quota == IF "small_plan" \in env THEN 1 ELSE Cardinality(Docs) + 1

Live == {"pending", "uploaded", "processing", "completed", "error"}
Links == {"none", "parent", "ocr", "form"}
Rows == [status : Live \cup {"unused", "gone"}, link : Links,
         didOcr : BOOLEAN, raw : {"none", "data", "error"}, size : 0..1]
NoDoc == [status |-> "unused", link |-> "none", didOcr |-> FALSE,
          raw |-> "none", size |-> 0]
Gone == [NoDoc EXCEPT !.status = "gone"]

Free == [pc |-> "free"]
Busy == [pc : {"confirming"}, doc : Docs, ok : BOOLEAN]
   \cup [pc : {"kickoff", "charging", "extracting", "creating"}, doc : Docs]
   \cup [pc : {"form", "editing", "deleting"}, doc : Docs, row : Rows]
   \cup [pc : {"listed", "clearing"}, docs : SUBSET Docs]
   \cup [pc : {"totalled"}, total : 0..Cardinality(Docs)]

DocTypeOK ==
  /\ doc \in [Docs -> Rows]
  /\ young \subseteq Docs /\ doomed \subseteq Docs /\ jobs \subseteq Docs
  /\ file \in [Docs -> {"absent", "good", "empty", "junk"}]
  /\ cache \in [Docs -> {"none", "processing", "data", "error"}]
  /\ tries \in [Docs -> 0..MaxRetries]
  /\ ocrRecords \in [Docs -> Nat]
  /\ counter \in Nat /\ scans \in Nat
  /\ proc \in [Procs -> Busy \cup {Free}]
  /\ spent \in 0..Budget

DocInit ==
  /\ doc = [d \in Docs |-> NoDoc]
  /\ young = Docs /\ doomed = {} /\ jobs = {}
  /\ file = [d \in Docs |-> "absent"]
  /\ cache = [d \in Docs |-> "none"]
  /\ tries = [d \in Docs |-> 0]
  /\ ocrRecords = [d \in Docs |-> 0]
  /\ counter = 0 /\ scans = 0 /\ spent = 0
  /\ proc = [p \in Procs |-> Free]

-----------------------------------------------------------------------------
Exists(d) == doc[d].status \in Live
Existing == {d \in Docs : Exists(d)}
Total(S) == Cardinality({d \in S : doc[d].size = 1})
Used == Cardinality({d \in Docs : doc[d].status # "unused"})

\* ConfirmUploadView holds the row lock from its read to its commit.
Locked(d) == \E p \in Procs : proc[p].pc = "confirming" /\ proc[p].doc = d

\* Mutant: the counter may fall below zero.
AdjustedUnclamped(plus, minus) == counter + plus - minus

\* adjust_storage_usage: one UPDATE, never below zero.
Adjusted(plus, minus) ==
  IF counter + plus < minus THEN 0 ELSE counter + plus - minus

\* snapshot_storage_state and sync_storage_counter: a save counts the
\* difference to the bytes that were stored.
CountSave(new, old) == counter' = Adjusted(new, old)

\* Mutant: the bytes of deleted rows stay on the counter.
DeleteRowsUncounted(S) ==
  /\ doc' = [d \in Docs |-> IF d \in S /\ Exists(d) THEN Gone ELSE doc[d]]
  /\ doomed' = doomed \cup {d \in S : Exists(d)}
  /\ UNCHANGED counter

\* Rows deleted through the ORM: the signals subtract each row's bytes and
\* queue the removal of its object.
DeleteRows(S) ==
  /\ doc' = [d \in Docs |-> IF d \in S /\ Exists(d) THEN Gone ELSE doc[d]]
  /\ doomed' = doomed \cup {d \in S : Exists(d)}
  /\ counter' = Adjusted(0, Total(S))

Set(d, f) == doc' = [doc EXCEPT ![d] = f]
To(p, w) == proc' = [proc EXCEPT ![p] = w]
Done(p) == To(p, Free)
At(p, pc) == proc[p].pc = pc

-----------------------------------------------------------------------------
(* Upload and confirmation.                                                *)

\* Declared size or not: the file has one unit.
WithinStorageLimit == counter < Quota

\* UploadService.handle: every file declared is within the limits of
\* R2UploadForm and no duplicate.  The row is committed before its URL exists.
Upload(d, link) ==
  /\ doc[d].status = "unused"
  /\ Used = 0 \/ "many" \in env
  /\ WithinStorageLimit
  /\ Set(d, [NoDoc EXCEPT !.status = "pending", !.link = link,
                          !.didOcr = (link = "none")])
  /\ UNCHANGED <<young, file, doomed, queueVars, ocrRecords, counter,
                 proc, spent>>

UploadPrimary(d) == Upload(d, "none")

\* A supporting document has its record from the start and gets no OCR.
UploadSupporting(d) == "support" \in env /\ Upload(d, "parent")

\* The browser stores the file while its URL lasts (15 minutes), whatever
\* became of the row.
Put(d) ==
  /\ doc[d].status # "unused" /\ d \in young /\ file[d] = "absent"
  /\ \E f \in {"good"} \cup IF "bad_file" \in env THEN {"empty", "junk"} ELSE {} :
       file' = [file EXCEPT ![d] = f]
  /\ UNCHANGED <<doc, young, doomed, queueVars, ocrRecords, counter, proc,
                 spent>>

\* Mutant: the storage limit is only looked at when the upload starts.
PassesChecksUnmetered(d) == file[d] \in {"good", "junk"}

\* _run_checks: the object is there, not empty, not too large, and fits.
PassesChecks(d) == file[d] \in {"good", "junk"} /\ counter + 1 <= Quota

BeginConfirm(p, d) ==
  /\ At(p, "free")
  /\ doc[d].status = "pending" /\ ~Locked(d)
  /\ To(p, [pc |-> "confirming", doc |-> d, ok |-> PassesChecks(d)])
  /\ UNCHANGED <<rowVars, young, file, doomed, queueVars, ocrRecords,
                 spent>>

EndConfirm(p) ==
  /\ At(p, "confirming")
  /\ LET d == proc[p].doc IN
     IF proc[p].ok
     THEN /\ Set(d, [doc[d] EXCEPT !.status = "uploaded", !.size = 1])
          /\ CountSave(1, doc[d].size)
          /\ IF doc[d].link = "none" THEN To(p, [pc |-> "kickoff", doc |-> d])
                                     ELSE Done(p)
     ELSE /\ Set(d, [doc[d] EXCEPT !.status = "error"])
          /\ Done(p) /\ UNCHANGED counter
  /\ UNCHANGED <<young, file, doomed, queueVars, ocrRecords, spent>>

-----------------------------------------------------------------------------
(* kickoff_ocr_scan, after the confirmation has committed.                 *)

\* Mutant: the scan limit is not looked at.
CanScanAlways == counter < Quota

CanScan == counter < Quota /\ scans < ScanLimit

\* set_document_status: an UPDATE by id, whatever the row says, or nothing.
SetStatus(d, row) == IF Exists(d) THEN Set(d, row) ELSE UNCHANGED doc

BeginKickoff(p) ==
  /\ At(p, "kickoff")
  /\ LET d == proc[p].doc IN
     \/ /\ cache[d] # "none"
        /\ Done(p) /\ UNCHANGED <<doc, cache>>
     \/ /\ cache[d] = "none" /\ ~CanScan
        /\ SetStatus(d, [doc[d] EXCEPT !.status = "error"])
        /\ cache' = [cache EXCEPT ![d] = "error"]
        /\ Done(p)
     \/ /\ cache[d] = "none" /\ CanScan
        /\ To(p, [proc[p] EXCEPT !.pc = "charging"])
        /\ UNCHANGED <<doc, cache>>
  /\ UNCHANGED <<young, file, doomed, jobs, tries, scans, ocrRecords,
                 counter, spent>>

\* record_scan increments in the database and starts again when its row went.
CountScan == scans' = scans + 1

\* Saving did_ocr onto a deleted row raises and nothing else happens.
ChargeScan(p) ==
  /\ At(p, "charging")
  /\ LET d == proc[p].doc IN
     IF Exists(d)
     THEN /\ Set(d, [doc[d] EXCEPT !.didOcr = FALSE])
          /\ cache' = [cache EXCEPT ![d] = "processing"]
          /\ CountScan
          /\ jobs' = jobs \cup {d}
     ELSE UNCHANGED <<doc, cache, scans, jobs>>
  /\ Done(p)
  /\ UNCHANGED <<young, file, doomed, tries, ocrRecords, counter, spent>>

InWork(d) ==
  \/ d \in jobs
  \/ \E p \in Procs : /\ proc[p].pc \in {"extracting", "creating"}
                      /\ proc[p].doc = d

\* 10 minutes for a marker, 7 days (longer than any retry) for the data.
ExpireMarker(d) ==
  /\ \/ cache[d] \in {"processing", "error"}
     \/ cache[d] = "data" /\ ~InWork(d)
  /\ cache' = [cache EXCEPT ![d] = "none"]
  /\ UNCHANGED <<rowVars, young, file, doomed, jobs, tries, scans,
                 ocrRecords, proc, spent>>

-----------------------------------------------------------------------------
(* extract_document and create_record_from_ocr.                            *)

\* Mutant: a finished document is not extracted again, and that is all.
AlreadyExtractedNever(d) == FALSE

\* extract returns the cached result of a document it finished earlier.
AlreadyExtracted(d) ==
  cache[d] = "data" /\ (doc[d].didOcr \/ doc[d].status = "completed")

StartExtract(p, d) ==
  /\ At(p, "free") /\ d \in jobs /\ ~Locked(d)
  /\ jobs' = jobs \ {d}
  /\ CASE AlreadyExtracted(d) ->
            To(p, [pc |-> "creating", doc |-> d]) /\ UNCHANGED doc
       [] ~Exists(d) \/ (doc[d].didOcr /\ ~AlreadyExtracted(d)) ->
            UNCHANGED <<proc, doc>>
       [] OTHER ->
            /\ Set(d, [doc[d] EXCEPT !.status = "processing"])
            /\ To(p, [pc |-> "extracting", doc |-> d])
  /\ UNCHANGED <<young, file, doomed, cache, tries, scans, ocrRecords,
                 counter, spent>>

\* No slot of the rate limiter within four minutes: the message goes back to the
\* queue, which counts as a retry, and after the last it is dropped without a word.
NoSlot(d) ==
  /\ "crowded" \in env /\ d \in jobs
  /\ IF tries[d] = MaxRetries
     THEN jobs' = jobs \ {d} /\ UNCHANGED tries
     ELSE tries' = [tries EXCEPT ![d] = @ + 1] /\ UNCHANGED jobs
  /\ UNCHANGED <<rowVars, young, file, doomed, cache, scans, ocrRecords, proc,
                 spent>>

\* validate_uploaded_bytes looks at the type and the pixels, on the header.
BytesAccepted(f) == f = "good"

FinishExtract(p) ==
  /\ At(p, "extracting")
  /\ LET d == proc[p].doc IN
     /\ BytesAccepted(file[d])
     /\ SetStatus(d, [doc[d] EXCEPT !.status = "completed", !.didOcr = TRUE,
                                    !.raw = "data"])
     /\ cache' = [cache EXCEPT ![d] = "data"]
     /\ To(p, [pc |-> "creating", doc |-> d])
  /\ UNCHANGED <<young, file, doomed, jobs, tries, scans, ocrRecords,
                 counter, spent>>

\* A file that the byte checks reject fails at once; anything else is raised
\* for Dramatiq to retry and fails the document on the last attempt.
FailExtract(p) ==
  /\ At(p, "extracting")
  /\ LET d == proc[p].doc IN
     /\ ~BytesAccepted(file[d]) \/ ~Exists(d) \/ "ocr_failure" \in env
     /\ IF file[d] = "junk" \/ tries[d] = MaxRetries
        THEN /\ SetStatus(d, [doc[d] EXCEPT !.status = "error", !.raw = "error"])
             /\ cache' = [cache EXCEPT ![d] = "error"]
             /\ UNCHANGED <<jobs, tries>>
        ELSE /\ jobs' = jobs \cup {d}
             /\ tries' = [tries EXCEPT ![d] = @ + 1]
             /\ UNCHANGED <<doc, cache>>
  /\ Done(p)
  /\ UNCHANGED <<young, file, doomed, scans, ocrRecords, counter, spent>>

\* Mutant: the link is not looked at again under the row lock.
NeedsRecordUnchecked(d) == Exists(d) /\ doc[d].raw = "data"

\* create_record_from_ocr looks at the link again under the row lock.
NeedsRecord(d) == Exists(d) /\ doc[d].raw = "data" /\ doc[d].link = "none"

CreateRecord(d) ==
  IF NeedsRecord(d)
  THEN /\ Set(d, [doc[d] EXCEPT !.link = "ocr"])
       /\ ocrRecords' = [ocrRecords EXCEPT ![d] = @ + 1]
  ELSE UNCHANGED <<doc, ocrRecords>>

CreateFromTask(p) ==
  /\ At(p, "creating") /\ ~Locked(proc[p].doc)
  /\ CreateRecord(proc[p].doc)
  /\ Done(p)
  /\ UNCHANGED <<young, file, doomed, queueVars, counter, spent>>

\* The page that polls the status, or the add-record page, does it as well.
CreateFromPoll(d) ==
  /\ doc[d].status = "completed" /\ NeedsRecord(d)
  /\ CreateRecord(d)
  /\ UNCHANGED <<young, file, doomed, queueVars, counter, proc, spent>>

-----------------------------------------------------------------------------
(* Requests that read the row without a lock and write it later.           *)

Open(p, d, pc) ==
  /\ At(p, "free") /\ Exists(d)
  /\ To(p, [pc |-> pc, doc |-> d, row |-> doc[d]])
  /\ UNCHANGED <<rowVars, young, file, doomed, queueVars, ocrRecords>>

OpenForm(p, d) ==
  "form" \in env /\ doc[d].link = "none" /\ Open(p, d, "form") /\ UNCHANGED spent

OpenEdit(p, d) ==
  /\ "edit" \in env /\ spent < Budget /\ spent' = spent + 1
  /\ Open(p, d, "editing")

OpenDelete(p, d) ==
  "delete" \in env /\ Open(p, d, "deleting") /\ UNCHANGED spent

\* AddRecordView.form_valid saves associated_record alone; on a deleted row
\* that raises and the record it made rolls back.
SubmitForm(p) ==
  /\ At(p, "form") /\ ~Locked(proc[p].doc)
  /\ SetStatus(proc[p].doc, [doc[proc[p].doc] EXCEPT !.link = "form"])
  /\ Done(p)
  /\ UNCHANGED <<young, file, doomed, queueVars, ocrRecords, counter,
                 spent>>

\* ViewDocument saves every field it read, and inserts the row again when it
\* was deleted; the signal counts what that changes.
SaveEdit(p) ==
  /\ At(p, "editing") /\ ~Locked(proc[p].doc)
  /\ LET d == proc[p].doc  row == proc[p].row IN
     /\ \E l \in {row.link, "none", "parent"} : Set(d, [row EXCEPT !.link = l])
     /\ CountSave(row.size, doc[d].size)
  /\ Done(p)
  /\ UNCHANGED <<young, file, doomed, queueVars, ocrRecords, spent>>

\* DeleteDocument subtracts the bytes of the copy it read, even when another
\* request has deleted the row in between.
SubmitDelete(p) ==
  /\ At(p, "deleting") /\ ~Locked(proc[p].doc)
  /\ doc' = [doc EXCEPT ![proc[p].doc] = Gone]
  /\ doomed' = doomed \cup {proc[p].doc}
  /\ counter' = Adjusted(0, proc[p].row.size)
  /\ Done(p)
  /\ UNCHANGED <<young, file, queueVars, ocrRecords, spent>>

\* hard_delete_record takes the record's documents with it.
HardDeleteRecord(d) ==
  /\ "delete" \in env
  /\ Exists(d) /\ doc[d].link \in {"ocr", "form"} /\ ~Locked(d)
  /\ DeleteRows({d})
  /\ UNCHANGED <<young, file, queueVars, ocrRecords, proc, spent>>

-----------------------------------------------------------------------------
(* Clean-up: lists first, deletes by id later.                             *)

\* Mutant: the second pass, for documents whose OCR never started, is missing.
OrphansWithoutOcr == {d \in Existing \ young : doc[d].link = "none" /\ ~doc[d].didOcr}

\* delete_orphaned_documents
Orphans ==
  {d \in Existing \ young :
     /\ doc[d].link = "none"
     /\ doc[d].didOcr => doc[d].status # "pending"}

ListOrphans(p) ==
  /\ "sweep" \in env /\ At(p, "free") /\ Orphans # {}
  /\ To(p, [pc |-> "clearing", docs |-> Orphans])
  /\ UNCHANGED <<rowVars, young, file, doomed, queueVars, ocrRecords,
                 spent>>

\* reconcile_documents: pending uploads, and whatever is in error.
Stale(status) == {d \in Existing \ young : doc[d].status = status}

ListStale(p) ==
  /\ "sweep" \in env /\ At(p, "free")
  /\ \E s \in {"pending", "error"} :
       Stale(s) # {} /\ To(p, [pc |-> "listed", docs |-> Stale(s)])
  /\ UNCHANGED <<rowVars, young, file, doomed, queueVars, ocrRecords,
                 spent>>

RemoveStaleFiles(p) ==
  /\ At(p, "listed")
  /\ file' = [d \in Docs |-> IF d \in proc[p].docs THEN "absent" ELSE file[d]]
  /\ To(p, [proc[p] EXCEPT !.pc = "clearing"])
  /\ UNCHANGED <<rowVars, young, doomed, queueVars, ocrRecords, spent>>

ClearRows(p) ==
  /\ At(p, "clearing") /\ \A d \in proc[p].docs : ~Locked(d)
  /\ DeleteRows(proc[p].docs)
  /\ Done(p)
  /\ UNCHANGED <<young, file, queueVars, ocrRecords, spent>>

\* The delete_document task.
RemoveObject(d) ==
  /\ d \in doomed
  /\ doomed' = doomed \ {d}
  /\ file' = [file EXCEPT ![d] = "absent"]
  /\ UNCHANGED <<rowVars, young, queueVars, ocrRecords, proc, spent>>

\* reconcile_storage_usage: sums first, writes later.
ReadTotal(p) ==
  /\ "reconcile_storage" \in env /\ At(p, "free")
  /\ To(p, [pc |-> "totalled", total |-> Total(Existing)])
  /\ UNCHANGED <<rowVars, young, file, doomed, queueVars, ocrRecords,
                 spent>>

\* Mutant: users who have no documents left are not looked at.
WriteTotalOfOwners(p) ==
  /\ At(p, "totalled")
  /\ counter' = IF proc[p].total = 0 THEN counter ELSE proc[p].total
  /\ Done(p)
  /\ UNCHANGED <<doc, young, file, doomed, queueVars, ocrRecords, spent>>

WriteTotal(p) ==
  /\ At(p, "totalled")
  /\ counter' = proc[p].total
  /\ Done(p)
  /\ UNCHANGED <<doc, young, file, doomed, queueVars, ocrRecords, spent>>

\* A day is longer than a worker needs for its messages.
GrowOld(d) ==
  /\ "sweep" \in env
  /\ d \in young /\ doc[d].status # "unused" /\ ~InWork(d)
  /\ young' = young \ {d}
  /\ UNCHANGED <<rowVars, file, doomed, queueVars, ocrRecords, proc,
                 spent>>

\* Open transactions roll back; Dramatiq delivers a worker's message again.
CrashProcess(p) ==
  /\ "crash" \in env /\ spent < Budget
  /\ ~At(p, "free")
  /\ spent' = spent + 1
  /\ jobs' = IF proc[p].pc \in {"extracting", "creating"}
             THEN jobs \cup {proc[p].doc} ELSE jobs
  /\ Done(p)
  /\ UNCHANGED <<rowVars, young, file, doomed, cache, tries, scans,
                 ocrRecords>>

-----------------------------------------------------------------------------
Accepts(p, d) ==
  \/ BeginConfirm(p, d) \/ StartExtract(p, d)
  \/ OpenForm(p, d) \/ OpenEdit(p, d) \/ OpenDelete(p, d)

\* What a process does by itself once it has begun.
Extraction(p) == FinishExtract(p) \/ FailExtract(p)
Finishes(p) ==
  \/ EndConfirm(p) \/ BeginKickoff(p) \/ ChargeScan(p)
  \/ Extraction(p) \/ CreateFromTask(p)
  \/ SubmitForm(p) \/ SaveEdit(p) \/ SubmitDelete(p)
  \/ RemoveStaleFiles(p) \/ ClearRows(p) \/ WriteTotal(p)

DocNext ==
  \/ \E d \in Docs : \/ UploadPrimary(d) \/ UploadSupporting(d) \/ Put(d)
                     \/ ExpireMarker(d) \/ CreateFromPoll(d) \/ NoSlot(d)
                     \/ HardDeleteRecord(d) \/ RemoveObject(d) \/ GrowOld(d)
                     \/ \E p \in Procs : Accepts(p, d)
  \/ \E p \in Procs : \/ Finishes(p) \/ ListOrphans(p) \/ ListStale(p)
                      \/ ReadTotal(p) \/ CrashProcess(p)

DocSpec == DocInit /\ [][DocNext /\ UNCHANGED env]_<<env, docVars>>

\* Workers finish or are restarted, messages are delivered, files grow old, and
\* the scheduler calls the periodic tasks until one of them finds a process.
DocFairness(w) ==
  /\ \A p \in Procs : WF_docVars(w \in env /\ Finishes(p))
  /\ \A d \in Docs : /\ WF_docVars(w \in env /\ \E p \in Procs : StartExtract(p, d))
                    /\ WF_docVars(w \in env /\ GrowOld(d))
  /\ SF_docVars(w \in env /\ \E p \in Procs : ListOrphans(p))
  /\ SF_docVars(w \in env /\ \E p \in Procs : ListStale(p))
  /\ WF_docVars(w \in env /\ \E p \in Procs : ReadTotal(p))

-----------------------------------------------------------------------------
(* Properties.                                                             *)

\* However often the task is retried, the status polled or the form sent, one
\* document's OCR data makes one record ("Idempotent", services.py).  Only an
\* edit that clears the link lets the data be used again.
OneOcrRecord == "edit" \notin env => \A d \in Docs : ocrRecords[d] <= 1

\* The monthly limit is checked before the scan is counted: requests that
\* overlap pass it together, but no more of them than run at once.
ScansBounded == scans < ScanLimit + Cardinality(Procs)

\* So is the storage limit, by as many files as are being confirmed at once,
\* as long as the counter it is enforced with is exact.
StoredBounded ==
  env \cap {"delete", "reconcile_storage"} = {} =>
    Total(Existing) < Quota + Cardinality(Procs)

\* The counter is the sum of the rows, through every save, stale edit and
\* bulk clean-up (documents/signals.py); only two requests that delete the same
\* document and a recount made meanwhile can put it out.
CounterIsExact ==
  env \cap {"delete", "reconcile_storage"} = {} => counter = Total(Existing)

\* A drifted counter does not stay so: a later recount mends it.
DriftIsRepaired ==
  "reconcile_storage" \in env => []<>(counter = Total(Existing))

\* Whichever step of the pipeline crashes, a document on its own ends in a
\* record, in an error the user sees, or in the clean-up.
NoDocumentIsStuck ==
  "sweep" \in env =>
    \A d \in Docs :
      Exists(d) /\ doc[d].link = "none"
        ~> doc[d].status = "error" \/ doc[d].link # "none" \/ ~Exists(d)

\* Data that was extracted becomes a record although nobody polls for it and
\* the worker crashes between the two steps.
CompletedGetsRecord ==
  \A d \in Docs :
    doc[d].status = "completed" /\ env \cap {"edit", "delete", "sweep", "crowded"} = {}
      ~> doc[d].link # "none"

=============================================================================
