------------------------------ MODULE Ingestion ------------------------------
(***************************************************************************)
(* The life of a document: the upload, delete, update and re-index         *)
(* handlers of app/routes/documents.py, the Celery tasks that ingest one   *)
(* document (modules/tasks/workers/ingestion_tasks.py) and the three       *)
(* stores they write without a common transaction: the PostgreSQL rows     *)
(* (document and chunks), the Qdrant points and the staged file on disk.   *)
(*                                                                         *)
(* A step of a handler or a worker is one call that commits or reaches a   *)
(* store; between two steps every other handler and worker may run.  The   *)
(* points of one ingestion have fresh uuids and are written by one upsert, *)
(* so they are one Batch, named by the task that made it.                  *)
(***************************************************************************)
EXTENDS Naturals, FiniteSets

CONSTANTS
    Doc,        \* document ids (uuid4, never reused)
    Task,       \* ingestion runs: Celery messages and inline executions
    Request,    \* HTTP requests
    Content,    \* what a file may contain (what its sha256 tells apart)
    Acl,        \* access level and department of a document, as one value
    None,       \* no document, no file, no value
    Ops,        \* the endpoints clients call
    MaxFaults   \* bound on crashes and on errors of Qdrant or the broker

Endpoint == {"upload", "delete", "update", "reindex"}

ASSUME ConstantsAssumption ==
    /\ None \notin Doc \cup Content \cup Acl
    /\ Ops \subseteq Endpoint
    /\ MaxFaults \in Nat

VARIABLES
    doc,        \* EnterpriseDocument rows
    chunks,     \* DocumentChunk rows of each document, by batch
    qdrant,     \* Qdrant points of each document, by batch
    staged,     \* the staged file of each document
    task,       \* the ingestion runs
    req,        \* the requests being served
    faults      \* faults so far

vars == <<doc, chunks, qdrant, staged, task, req, faults>>

Status == {"PENDING", "PROCESSING", "INDEXED", "FAILED"}
DocRow == [state : {"unborn", "live", "gone"}, status : Status,
           acl : Acl \cup {None}, hash : Content \cup {None}]
Batch == [task : Task, content : Content, acl : Acl]

TaskPc == {"idle", "queued", "read", "upsert", "delete", "insert",
           "compensate", "index", "fail", "unstage", "done", "lost"}
TaskRun == [pc : TaskPc, inline : BOOLEAN, doc : Doc \cup {None},
            content : Content \cup {None}, acl : Acl \cup {None},
            stale : SUBSET Batch]

ReqPc == {"idle", "stage", "enqueue", "vectors", "chunks", "staged", "row",
          "status", "done", "dead"}
Handler == [pc : ReqPc, op : Endpoint, doc : Doc \cup {None},
            content : Content \cup {None}, acl : Acl \cup {None}]

TypeOK ==
    /\ doc \in [Doc -> DocRow]
    /\ chunks \in [Doc -> SUBSET Batch]
    /\ qdrant \in [Doc -> SUBSET Batch]
    /\ staged \in [Doc -> Content \cup {None}]
    /\ task \in [Task -> TaskRun]
    /\ req \in [Request -> Handler]
    /\ faults \in 0..MaxFaults

Init ==
    /\ doc = [d \in Doc |-> [state |-> "unborn", status |-> "PENDING",
                             acl |-> None, hash |-> None]]
    /\ chunks = [d \in Doc |-> {}]
    /\ qdrant = [d \in Doc |-> {}]
    /\ staged = [d \in Doc |-> None]
    /\ task = [t \in Task |-> [pc |-> "idle", inline |-> FALSE, doc |-> None,
                               content |-> None, acl |-> None, stale |-> {}]]
    /\ req = [r \in Request |-> [pc |-> "idle", op |-> "upload", doc |-> None,
                                 content |-> None, acl |-> None]]
    /\ faults = 0

-----------------------------------------------------------------------------
(* Helpers.                                                                *)

Live(d) == doc[d].state = "live"

\* A fault uses up one unit of the budget.
Fault == faults < MaxFaults /\ faults' = faults + 1

\* update_document_status: silently does nothing when the row is gone.
SetStatus(d, s) ==
    doc' = IF Live(d) THEN [doc EXCEPT ![d].status = s] ELSE doc

\* The points, and the rows with the same ids, that run t of a task writes.
BatchOf(t) == [task |-> t, content |-> task[t].content, acl |-> task[t].acl]

\* What set_payload and UPDATE do to the batches they match.
Relabel(S, a) == {[b EXCEPT !.acl = a] : b \in S}

TaskGoto(t, pc) == task' = [task EXCEPT ![t].pc = pc]
ReqGoto(r, pc) == req' = [req EXCEPT ![r].pc = pc]

\* The message (or the inline call) that starts an ingestion of d.
Dispatch(t, d, a, c, inline) ==
    /\ task[t].pc = "idle"
    /\ task' = [task EXCEPT ![t] =
                   [pc |-> IF inline THEN "upsert" ELSE "queued",
                    inline |-> inline, doc |-> d, content |-> c, acl |-> a,
                    stale |-> {}]]

\* Deleting a document row cascades to its chunk rows.
DropRow(d) ==
    /\ doc' = [doc EXCEPT ![d].state = "gone"]
    /\ chunks' = [chunks EXCEPT ![d] = {}]

-----------------------------------------------------------------------------
(* upload_document.                                                        *)

\* The row is committed as PENDING before anything else is written.
UploadCreate(r, d, a, c) ==
    /\ "upload" \in Ops
    /\ req[r].pc = "idle"
    /\ doc[d].state = "unborn"
    /\ doc' = [doc EXCEPT ![d] = [state |-> "live", status |-> "PENDING",
                                  acl |-> a, hash |-> c]]
    /\ req' = [req EXCEPT ![r] = [pc |-> "stage", op |-> "upload", doc |-> d,
                                  content |-> c, acl |-> a]]
    /\ UNCHANGED <<chunks, qdrant, staged, task, faults>>

UploadStage(r) ==
    /\ req[r].pc = "stage"
    /\ staged' = [staged EXCEPT ![req[r].doc] = req[r].content]
    /\ ReqGoto(r, "enqueue")
    /\ UNCHANGED <<doc, chunks, qdrant, task, faults>>

UploadEnqueue(r, t) ==
    /\ req[r].pc = "enqueue"
    /\ Dispatch(t, req[r].doc, req[r].acl, None, FALSE)
    /\ ReqGoto(r, "done")
    /\ UNCHANGED <<doc, chunks, qdrant, staged, faults>>

\* The broker refuses the message: the handler ingests in line, without a
\* database session, so no chunk row is written and no staged file removed.
UploadInline(r, t) ==
    /\ req[r].pc = "enqueue"
    /\ Fault
    /\ Dispatch(t, req[r].doc, req[r].acl, req[r].content, TRUE)
    /\ ReqGoto(r, "done")
    /\ UNCHANGED <<doc, chunks, qdrant, staged>>

-----------------------------------------------------------------------------
(* The administrator's requests on an existing document.                   *)

\* The row lookup (404 unless it is live) of delete and re-index.
PurgeStart(r, d, op) ==
    /\ op \in Ops \cap {"delete", "reindex"}
    /\ req[r].pc = "idle"
    /\ Live(d)
    /\ req' = [req EXCEPT ![r] = [pc |-> "vectors", op |-> op, doc |-> d,
                                  content |-> None, acl |-> None]]
    /\ UNCHANGED <<doc, chunks, qdrant, staged, task, faults>>

PurgeVectors_SkipsQdrant(r) ==
    /\ req[r].pc = "vectors"
    /\ req[r].op \in {"delete", "reindex"}
    /\ ReqGoto(r, "chunks")
    /\ UNCHANGED <<doc, chunks, qdrant, staged, task, faults>>

\* delete_document_vectors, first half: delete_by_filter swallows its errors.
PurgeVectors(r) ==
    /\ req[r].pc = "vectors"
    /\ req[r].op \in {"delete", "reindex"}
    /\ \/ qdrant' = [qdrant EXCEPT ![req[r].doc] = {}] /\ UNCHANGED faults
       \/ Fault /\ UNCHANGED qdrant
    /\ ReqGoto(r, "chunks")
    /\ UNCHANGED <<doc, chunks, staged, task>>

\* Second half: the chunk rows that are committed at this moment.
PurgeChunks(r) ==
    /\ req[r].pc = "chunks"
    /\ req[r].op \in {"delete", "reindex"}
    /\ chunks' = [chunks EXCEPT ![req[r].doc] = {}]
    /\ ReqGoto(r, IF req[r].op = "delete" THEN "staged" ELSE "status")
    /\ UNCHANGED <<doc, qdrant, staged, task, faults>>

DeleteStaged(r) ==
    /\ req[r].pc = "staged"
    /\ staged' = [staged EXCEPT ![req[r].doc] = None]
    /\ ReqGoto(r, "row")
    /\ UNCHANGED <<doc, chunks, qdrant, task, faults>>

DeleteRow(r) ==
    /\ req[r].pc = "row"
    /\ IF Live(req[r].doc) THEN DropRow(req[r].doc) ELSE UNCHANGED <<doc, chunks>>
    /\ ReqGoto(r, "done")
    /\ UNCHANGED <<qdrant, staged, task, faults>>

\* reindex_document ends here: it sets PROCESSING and sends no task.
ReindexStatus(r) ==
    /\ req[r].pc = "status"
    /\ SetStatus(req[r].doc, "PROCESSING")
    /\ ReqGoto(r, "done")
    /\ UNCHANGED <<chunks, qdrant, staged, task, faults>>

UpdateRow(r, d, a) ==
    /\ "update" \in Ops
    /\ req[r].pc = "idle"
    /\ Live(d)
    /\ doc' = [doc EXCEPT ![d].acl = a]
    /\ req' = [req EXCEPT ![r] = [pc |-> "vectors", op |-> "update", doc |-> d,
                                  content |-> None, acl |-> a]]
    /\ UNCHANGED <<chunks, qdrant, staged, task, faults>>

\* set_payload_by_filter swallows its errors too.
UpdateVectors(r) ==
    /\ req[r].pc = "vectors"
    /\ req[r].op = "update"
    /\ LET d == req[r].doc IN
       \/ /\ qdrant' = [qdrant EXCEPT ![d] = Relabel(@, req[r].acl)]
          /\ UNCHANGED faults
       \/ Fault /\ UNCHANGED qdrant
    /\ ReqGoto(r, "chunks")
    /\ UNCHANGED <<doc, chunks, staged, task>>

UpdateChunks_Forgotten(r) ==
    /\ req[r].pc = "chunks"
    /\ req[r].op = "update"
    /\ ReqGoto(r, "done")
    /\ UNCHANGED <<doc, chunks, qdrant, staged, task, faults>>

UpdateChunks(r) ==
    /\ req[r].pc = "chunks"
    /\ req[r].op = "update"
    /\ LET d == req[r].doc IN
       chunks' = [chunks EXCEPT ![d] = Relabel(@, req[r].acl)]
    /\ ReqGoto(r, "done")
    /\ UNCHANGED <<doc, qdrant, staged, task, faults>>

\* The API process stops in the middle of a handler.
HandlerDies(r) ==
    /\ req[r].pc \notin {"idle", "done", "dead"}
    /\ Fault
    /\ ReqGoto(r, "dead")
    /\ UNCHANGED <<doc, chunks, qdrant, staged, task>>

-----------------------------------------------------------------------------
(* The ingestion task and UnifiedRAGOrchestrator.ingest_document.           *)

WorkerStart(t) ==
    /\ task[t].pc = "queued"
    /\ SetStatus(task[t].doc, "PROCESSING")
    /\ TaskGoto(t, "read")
    /\ UNCHANGED <<chunks, qdrant, staged, req, faults>>

WorkerRead_DeletesFile(t) ==
    /\ task[t].pc = "read"
    /\ LET file == staged[task[t].doc] IN
       task' = [task EXCEPT ![t].content = file,
                            ![t].pc = IF file = None THEN "fail" ELSE "upsert"]
    /\ staged' = [staged EXCEPT ![task[t].doc] = None]
    /\ UNCHANGED <<doc, chunks, qdrant, req, faults>>

WorkerRead_NoExistsCheck(t) ==
    /\ task[t].pc = "read"
    /\ task' = [task EXCEPT ![t].content = staged[task[t].doc],
                            ![t].pc = "upsert"]
    /\ UNCHANGED <<doc, chunks, qdrant, staged, req, faults>>

\* The bytes are those on disk now, not those staged for this message.
WorkerRead(t) ==
    /\ task[t].pc = "read"
    /\ LET file == staged[task[t].doc] IN
       task' = [task EXCEPT ![t].content = file,
                            ![t].pc = IF file = None THEN "fail" ELSE "upsert"]
    /\ UNCHANGED <<doc, chunks, qdrant, staged, req, faults>>

\* An exception before or in the upsert; in line it becomes a 500 response.
Raise(t) == TaskGoto(t, IF task[t].inline THEN "lost" ELSE "fail")

IngestFails_Swallowed(t) ==
    /\ task[t].pc = "upsert"
    /\ TaskGoto(t, IF task[t].inline THEN "index" ELSE "delete")
    /\ UNCHANGED <<doc, chunks, qdrant, staged, req, faults>>

\* No text, no embedding, or Qdrant refuses the points.
IngestFails(t) ==
    /\ task[t].pc = "upsert"
    /\ Raise(t)
    /\ UNCHANGED <<doc, chunks, qdrant, staged, req, faults>>

WritePoints(t) ==
    LET d == task[t].doc IN
    qdrant' = [qdrant EXCEPT ![d] = @ \cup {BatchOf(t)}]

UpsertPoints(t) ==
    /\ task[t].pc = "upsert"
    /\ WritePoints(t)
    /\ TaskGoto(t, IF task[t].inline THEN "index" ELSE "delete")
    /\ UNCHANGED <<doc, chunks, staged, req, faults>>

\* The points are written but the client times out and raises.
UpsertTimesOut(t) ==
    /\ task[t].pc = "upsert"
    /\ Fault
    /\ WritePoints(t)
    /\ Raise(t)
    /\ UNCHANGED <<doc, chunks, staged, req>>

\* DELETE of the old chunk rows: it sees what is committed now.
DeleteOldChunks(t) ==
    /\ task[t].pc = "delete"
    /\ task' = [task EXCEPT ![t].stale = chunks[task[t].doc], ![t].pc = "insert"]
    /\ UNCHANGED <<doc, chunks, qdrant, staged, req, faults>>

\* INSERT and COMMIT; the foreign key demands the document row.
InsertChunks(t) ==
    /\ task[t].pc = "insert"
    /\ Live(task[t].doc)
    /\ LET d == task[t].doc IN
       chunks' = [chunks EXCEPT ![d] = (@ \ task[t].stale) \cup {BatchOf(t)}]
    /\ TaskGoto(t, "index")
    /\ UNCHANGED <<doc, qdrant, staged, req, faults>>

InsertFails_Swallowed(t) ==
    /\ task[t].pc = "insert"
    /\ TaskGoto(t, "index")
    /\ UNCHANGED <<doc, chunks, qdrant, staged, req, faults>>

\* The foreign key, or any other error of the transaction.
InsertFails(t) ==
    /\ task[t].pc = "insert"
    /\ TaskGoto(t, "compensate")
    /\ UNCHANGED <<doc, chunks, qdrant, staged, req, faults>>

Compensate_Forgotten(t) ==
    /\ task[t].pc = "compensate"
    /\ TaskGoto(t, "fail")
    /\ UNCHANGED <<doc, chunks, qdrant, staged, req, faults>>

\* The compensation deletes every point of the document, whoever wrote it.
Compensate(t) ==
    /\ task[t].pc = "compensate"
    /\ \/ qdrant' = [qdrant EXCEPT ![task[t].doc] = {}] /\ UNCHANGED faults
       \/ Fault /\ UNCHANGED qdrant
    /\ TaskGoto(t, "fail")
    /\ UNCHANGED <<doc, chunks, staged, req>>

MarkIndexed(t) ==
    /\ task[t].pc = "index"
    /\ SetStatus(task[t].doc, "INDEXED")
    /\ TaskGoto(t, IF task[t].inline THEN "done" ELSE "unstage")
    /\ UNCHANGED <<chunks, qdrant, staged, req, faults>>

MarkFailed_NoStatus(t) ==
    /\ task[t].pc = "fail"
    /\ TaskGoto(t, "unstage")
    /\ UNCHANGED <<doc, chunks, qdrant, staged, req, faults>>

MarkFailed_KeepsFile(t) ==
    /\ task[t].pc = "fail"
    /\ SetStatus(task[t].doc, "FAILED")
    /\ TaskGoto(t, "done")
    /\ UNCHANGED <<chunks, qdrant, staged, req, faults>>

MarkFailed(t) ==
    /\ task[t].pc = "fail"
    /\ SetStatus(task[t].doc, "FAILED")
    /\ TaskGoto(t, "unstage")
    /\ UNCHANGED <<chunks, qdrant, staged, req, faults>>

Unstage(t) ==
    /\ task[t].pc = "unstage"
    /\ staged' = [staged EXCEPT ![task[t].doc] = None]
    /\ TaskGoto(t, "done")
    /\ UNCHANGED <<doc, chunks, qdrant, req, faults>>

WorkerDies_Redelivered(t) ==
    /\ task[t].pc \notin {"idle", "queued", "done", "lost"}
    /\ Fault
    /\ TaskGoto(t, "queued")
    /\ UNCHANGED <<doc, chunks, qdrant, staged, req>>

\* Messages are acknowledged early: a worker that dies loses its task.
WorkerDies(t) ==
    /\ task[t].pc \notin {"idle", "queued", "done", "lost"}
    /\ Fault
    /\ TaskGoto(t, "lost")
    /\ UNCHANGED <<doc, chunks, qdrant, staged, req>>

-----------------------------------------------------------------------------
(* Specification.                                                          *)

WorkerStep(t) ==
    \/ WorkerStart(t)     \/ WorkerRead(t)    \/ UpsertPoints(t)
    \/ DeleteOldChunks(t) \/ InsertChunks(t)  \/ InsertFails(t)
    \/ Compensate(t)      \/ MarkIndexed(t)   \/ MarkFailed(t)
    \/ Unstage(t)

HandlerStep(r) ==
    \/ UploadStage(r)   \/ \E t \in Task : UploadEnqueue(r, t)
    \/ PurgeVectors(r)  \/ PurgeChunks(r)  \/ DeleteStaged(r) \/ DeleteRow(r)
    \/ ReindexStatus(r) \/ UpdateVectors(r) \/ UpdateChunks(r)

Arrive(r, d) ==
    \/ \E a \in Acl, c \in Content : UploadCreate(r, d, a, c)
    \/ \E op \in Ops : PurgeStart(r, d, op)
    \/ \E a \in Acl : UpdateRow(r, d, a)

Error ==
    \/ \E t \in Task : IngestFails(t) \/ UpsertTimesOut(t) \/ WorkerDies(t)
    \/ \E r \in Request : HandlerDies(r)
    \/ \E r \in Request, t \in Task : UploadInline(r, t)

Active(t) == task[t].pc \notin {"idle", "done", "lost"}
Serving(r) == req[r].pc \notin {"idle", "done", "dead"}

\* Nothing is running; everything the bounds allow may have happened.
AtRest ==
    /\ \A t \in Task : ~Active(t)
    /\ \A r \in Request : ~Serving(r)
    /\ UNCHANGED vars

Step ==
    \/ \E r \in Request, d \in Doc : Arrive(r, d)
    \/ \E r \in Request : HandlerStep(r)
    \/ \E t \in Task : WorkerStep(t)
    \/ Error

Next == Step \/ AtRest

Spec == Init /\ [][Next]_vars

\* Workers keep consuming and handlers run to their end; no client has to
\* call, and no fault has to happen.
Fairness ==
    /\ \A t \in Task : WF_vars(WorkerStep(t))
    /\ \A r \in Request : WF_vars(HandlerStep(r))

FairSpec == Spec /\ Fairness

-----------------------------------------------------------------------------
(* Properties.                                                             *)

\* The ids of the points (rows) in a set of batches.
Ids(S) == {b.task : b \in S}

\* A delete or a re-index of d was asked for.
Purged(d) ==
    \E r \in Request : req[r].doc = d /\ req[r].op \in {"delete", "reindex"}

Quiet(d) ==
    /\ \A t \in Task : task[t].doc = d => ~Active(t)
    /\ \A r \in Request : req[r].doc = d => ~Serving(r)

Settled(d) == doc[d].status \in {"INDEXED", "FAILED"}

\* A document reported INDEXED, that nobody asked to purge, is backed by
\* the points of exactly one ingestion of the bytes that were uploaded, and
\* by the chunk rows with the same ids unless it was ingested in line:
\* whatever crashed, timed out or was compensated on the way
\* (ingest_document and the INDEXED update after it).
IndexedIsBacked ==
    \A d \in Doc :
        Live(d) /\ doc[d].status = "INDEXED" /\ ~Purged(d) =>
            \E t \in Task :
                /\ task[t].doc = d
                /\ Ids(qdrant[d]) = {t}
                /\ Ids(chunks[d]) = IF task[t].inline THEN {} ELSE {t}
                /\ \A b \in qdrant[d] \cup chunks[d] : b.content = doc[d].hash

\* Every chunk row has its point: a crash, a failed upsert or a rollback
\* may leave points without rows, never rows without points (the order of
\* the dual write in ingest_document).
RowsHavePoints ==
    \A d \in Doc : ~Purged(d) => Ids(chunks[d]) \subseteq Ids(qdrant[d])

\* A document reported FAILED left nothing behind in either store, as long
\* as no call to Qdrant failed silently (the compensation of the dual write).
FailedIsClean ==
    faults = 0 =>
        \A d \in Doc :
            doc[d].status = "FAILED" => qdrant[d] = {} /\ chunks[d] = {}

\* An outcome, once reported, is withdrawn by a re-index only: no late or
\* repeated task turns INDEXED or FAILED into anything else.
OutcomeIsFinal ==
    [][\A d \in Doc :
          Settled(d) /\ doc'[d].status # doc[d].status =>
              \E r \in Request : /\ req[r].doc = d
                                 /\ req[r].op = "reindex"
                                 /\ req[r].pc = "status"]_vars

\* The staged file, the only copy of the bytes, is not removed before the
\* outcome of the ingestion is on record, unless the document is purged.
StagedFileKept ==
    [][\A d \in Doc :
          staged[d] # None /\ staged'[d] = None =>
              Settled(d) \/ ~Live(d) \/ Purged(d)]_vars

\* When an administrator's request starts only on a quiet document, a
\* deleted document leaves no point behind in Qdrant (delete_document:
\* "Purges a document, associated vector points in Qdrant, ...").
NoOrphanPoints ==
    \A d \in Doc : doc[d].state = "gone" /\ Quiet(d) => qdrant[d] = {}

\* With nothing in flight, rows and points carry the document's own access
\* level and department (update_document, ingest_document).
MetadataAgrees ==
    \A d \in Doc :
        Live(d) /\ Quiet(d) =>
            \A b \in qdrant[d] \cup chunks[d] : b.acl = doc[d].acl

\* With nothing in flight, a document is in both stores or in neither
\* (docs/ingestion/ingestion-layer-reference.md, 8.3).
NoPartialWrite ==
    \A d \in Doc : Quiet(d) => (qdrant[d] = {} <=> chunks[d] = {})

\* Every upload ends in INDEXED or FAILED, or is deleted, when nothing
\* crashes: a client that polls /documents/{id}/status stops.
DocumentsSettle ==
    \A d \in Doc : Live(d) ~> (Settled(d) \/ ~Live(d))

\* Every staged file is removed in the end, also when its document is
\* deleted before, during or after the ingestion.
StagedFilesReclaimed ==
    \A d \in Doc : (staged[d] # None) ~> (staged[d] = None)

\* A re-indexed document is indexed again, or fails, or is deleted
\* (.ARCHITECTURE/epic4: "dispatches a fresh asynchronous Celery task").
\* The code does not meet this, and no run checks it: one re-index violates it.
ReindexCompletes ==
    \A d \in Doc :
        (\E r \in Request : /\ req[r].doc = d
                            /\ req[r].op = "reindex"
                            /\ req[r].pc = "done")
            ~> (Settled(d) \/ ~Live(d))

=============================================================================
