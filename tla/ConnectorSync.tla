---------------------------- MODULE ConnectorSync ----------------------------
(***************************************************************************)
(* A connector job over the documents of Ingestion: the orchestrating task *)
(* async_execute_ingestion_job_task (change detection, purge, fan-out of   *)
(* one ingestion task per document), trigger_job and delete_job of         *)
(* app/routes/jobs.py, and the external source they mirror.  One job; its  *)
(* runs may overlap, since nothing in the code prevents it.                *)
(***************************************************************************)
EXTENDS Ingestion

CONSTANTS
    Page,       \* the objects of the external source
    Run,        \* executions of the job
    StableIds,  \* TRUE: the connector names an object by its key (S3,
                \* SharePoint, Drive); FALSE: by a uuid made on each fetch
                \* (Notion, Confluence, databases)
    Editable    \* the pages that change while the system runs

ASSUME SyncAssumption ==
    /\ None \notin Page
    /\ StableIds \in BOOLEAN
    /\ Editable \subseteq Page

VARIABLES
    source,     \* the external source: content of each page, None if absent
    page,       \* the page each job document was created from
    job,        \* the IngestionJob row
    run,        \* the executions of the job
    del         \* the one delete_job request

syncVars == <<source, page, job, run, del>>
allVars == <<vars, syncVars>>

JobStatus == {"PENDING", "RUNNING", "COMPLETED", "FAILED"}
Subtask == [doc : Doc, acl : Acl]
RunPc == {"idle", "queued", "fetch", "record", "stage", "purge", "purgeRows",
          "fanout", "failed", "done", "lost"}
Execution == [pc : RunPc, todo : SUBSET Page, active : SUBSET (Page \cup Doc),
              page : Page \cup {None}, content : Content \cup {None},
              found : Doc \cup {None}, purge : SUBSET Doc,
              marked : SUBSET Doc, subtasks : SUBSET Subtask]
JobDeletion == [pc : {"idle", "points", "chunks", "staged", "row", "done", "dead"},
                todo : SUBSET Doc, doc : Doc \cup {None}]

SyncTypeOK ==
    /\ source \in [Page -> Content \cup {None}]
    /\ page \in [Doc -> Page \cup {None}]
    /\ job \in [live : BOOLEAN, status : JobStatus, acl : Acl]
    /\ run \in [Run -> Execution]
    /\ del \in JobDeletion

SyncInit ==
    /\ Init
    /\ source \in [Page -> Content \cup {None}]
    /\ page = [d \in Doc |-> None]
    /\ job \in [live : {TRUE}, status : {"PENDING"}, acl : Acl]
    /\ run = [n \in Run |-> [pc |-> "idle", todo |-> {}, active |-> {},
                             page |-> None, content |-> None, found |-> None,
                             purge |-> {}, marked |-> {}, subtasks |-> {}]]
    /\ del = [pc |-> "idle", todo |-> {}, doc |-> None]

-----------------------------------------------------------------------------
(* Helpers.                                                                *)

\* list_job_documents: deleting the job sets job_id NULL in what remains.
JobDocs == {d \in Doc : job.live /\ Live(d) /\ page[d] # None}

\* The external_id of a document.
ExternalId(d) == IF StableIds THEN page[d] ELSE d

\* The rows get_document_by_external_id may return for a page just fetched.
Existing(p) == {d \in JobDocs : ExternalId(d) = p}
Lookup(p) == IF Existing(p) = {} THEN {None} ELSE Existing(p)

\* "If unchanged, skip": the hash of the object and INDEXED.
Unchanged(d, p) ==
    /\ d # None
    /\ doc[d].hash = source[p]
    /\ doc[d].status = "INDEXED"

Deleting == del.pc \in {"points", "chunks", "staged", "row"}

RunGoto(n, pc) == run' = [run EXCEPT ![n].pc = pc]

\* Where a database error leaves a run: the handler reads job.name on the
\* broken session and raises again, so the job keeps its status.
Escapes(n) == RunGoto(n, "lost")

SetJob(s) == job' = [job EXCEPT !.status = s]

\* A commit that deletes the rows of S, and the chunk rows of those of C.
Commit(S, C) ==
    /\ doc' = [d \in Doc |-> IF d \in S /\ Live(d)
                              THEN [doc[d] EXCEPT !.state = "gone"] ELSE doc[d]]
    /\ chunks' = [d \in Doc |-> IF d \in S \cup C THEN {} ELSE chunks[d]]

-----------------------------------------------------------------------------
(* The source, and the requests on the job.                                *)

SourceChanges(p, c) ==
    /\ p \in Editable
    /\ source[p] # c
    /\ source' = [source EXCEPT ![p] = c]
    /\ UNCHANGED <<vars, page, job, run, del>>

\* trigger_job checks neither the status of the job nor an earlier run.
Trigger(n) ==
    /\ job.live
    /\ run[n].pc = "idle"
    /\ RunGoto(n, "queued")
    /\ UNCHANGED <<vars, source, page, job, del>>

\* delete_job refuses a RUNNING job, at this moment only.
DeleteJobStart ==
    /\ del.pc = "idle"
    /\ job.live
    /\ job.status # "RUNNING"
    /\ del' = [pc |-> "points", todo |-> JobDocs, doc |-> None]
    /\ UNCHANGED <<vars, source, page, job, run>>

DeleteJobPoints_RowsOnly(d) ==
    /\ del.pc = "points"
    /\ d \in del.todo
    /\ del' = [pc |-> "chunks", todo |-> del.todo \ {d}, doc |-> d]
    /\ UNCHANGED <<vars, source, page, job, run>>

\* delete_document_vectors for the next document of the list, first half.
DeleteJobPoints(d) ==
    /\ del.pc = "points"
    /\ d \in del.todo
    /\ \/ qdrant' = [qdrant EXCEPT ![d] = {}] /\ UNCHANGED faults
       \/ Fault /\ UNCHANGED qdrant
    /\ del' = [pc |-> "chunks", todo |-> del.todo \ {d}, doc |-> d]
    /\ UNCHANGED <<doc, chunks, staged, task, req, source, page, job, run>>

DeleteJobChunks ==
    /\ del.pc = "chunks"
    /\ chunks' = [chunks EXCEPT ![del.doc] = {}]
    /\ del' = [del EXCEPT !.pc = "staged"]
    /\ UNCHANGED <<doc, qdrant, staged, task, req, faults, source, page, job, run>>

DeleteJobStaged ==
    /\ del.pc = "staged"
    /\ Live(del.doc)
    /\ staged' = [staged EXCEPT ![del.doc] = None]
    /\ del' = [del EXCEPT !.pc = "row"]
    /\ UNCHANGED <<doc, chunks, qdrant, task, req, faults, source, page, job, run>>

DeleteJobDoc ==
    /\ del.pc = "row"
    /\ IF Live(del.doc) THEN DropRow(del.doc) ELSE UNCHANGED <<doc, chunks>>
    /\ del' = [del EXCEPT !.pc = "points", !.doc = None]
    /\ UNCHANGED <<qdrant, staged, task, req, faults, source, page, job, run>>

\* Each commit expires the rows of the list: doc.id of one that somebody
\* else deleted meanwhile raises, and the request ends half way.
DeleteJobRaises ==
    /\ \/ del.pc = "points" /\ \E d \in del.todo : ~Live(d)
       \/ del.pc = "staged" /\ ~Live(del.doc)
    /\ del' = [del EXCEPT !.pc = "dead"]
    /\ UNCHANGED <<vars, source, page, job, run>>

DeleteJobRow ==
    /\ del.pc = "points"
    /\ del.todo = {}
    /\ job' = [job EXCEPT !.live = FALSE]
    /\ del' = [del EXCEPT !.pc = "done"]
    /\ UNCHANGED <<vars, source, page, run>>

DeleteJobDies ==
    /\ Deleting
    /\ Fault
    /\ del' = [del EXCEPT !.pc = "dead"]
    /\ UNCHANGED <<doc, chunks, qdrant, staged, task, req, source, page, job, run>>

-----------------------------------------------------------------------------
(* One execution of the job.                                               *)

\* A job deleted in the meantime ends the run at once.
RunStart(n) ==
    /\ run[n].pc = "queued"
    /\ IF job.live
       THEN /\ SetJob("RUNNING")
            /\ run' = [run EXCEPT ![n].pc = "fetch",
                                  ![n].todo = {p \in Page : source[p] # None}]
       ELSE /\ RunGoto(n, "done")
            /\ UNCHANGED job
    /\ UNCHANGED <<vars, source, page, del>>

Fetch_SkippedNotSeen(n, p) ==
    /\ run[n].pc = "fetch"
    /\ p \in run[n].todo
    /\ source[p] # None
    /\ \E d \in Lookup(p) :
         run' = [run EXCEPT
                   ![n].pc = IF Unchanged(d, p) THEN "fetch" ELSE "record",
                   ![n].todo = run[n].todo \ {p},
                   ![n].active = run[n].active \cup IF Unchanged(d, p) THEN {} ELSE {p},
                   ![n].page = p, ![n].content = source[p], ![n].found = d]
    /\ UNCHANGED <<vars, source, page, job, del>>

\* The next object of the listing, its hash, and the row with its id.
\* Unchanged and INDEXED means skip.
Fetch(n, p) ==
    /\ run[n].pc = "fetch"
    /\ p \in run[n].todo
    /\ source[p] # None
    /\ \E d \in Lookup(p) :
         run' = [run EXCEPT
                   ![n].pc = IF Unchanged(d, p) THEN "fetch" ELSE "record",
                   ![n].todo = run[n].todo \ {p},
                   ![n].active = run[n].active \cup IF StableIds THEN {p} ELSE {},
                   ![n].page = p, ![n].content = source[p], ![n].found = d]
    /\ UNCHANGED <<vars, source, page, job, del>>

\* A failed listing or download that the connector logs and swallows: it
\* drops one object, or ends the stream.  No fault is needed when the
\* object disappeared after it was listed.
FetchSwallowed(n, p) ==
    /\ run[n].pc = "fetch"
    /\ p \in run[n].todo
    /\ IF source[p] = None THEN UNCHANGED faults ELSE Fault
    /\ \E rest \in {run[n].todo \ {p}, {}} :
         run' = [run EXCEPT ![n].todo = rest]
    /\ UNCHANGED <<doc, chunks, qdrant, staged, task, req, source, page, job, del>>

\* An error the connector lets through (or of the configuration).
FetchRaises(n) ==
    /\ run[n].pc = "fetch"
    /\ Fault
    /\ RunGoto(n, "failed")
    /\ UNCHANGED <<doc, chunks, qdrant, staged, task, req, source, page, job, del>>

\* Update the row that was found; if it was deleted since, the UPDATE
\* matches no row and the commit fails.
RecordExisting(n) ==
    /\ run[n].pc = "record"
    /\ run[n].found # None
    /\ LET d == run[n].found IN
       IF Live(d)
       THEN /\ doc' = [doc EXCEPT ![d].hash = run[n].content,
                                  ![d].status = "PENDING"]
            /\ RunGoto(n, "stage")
       ELSE Escapes(n) /\ UNCHANGED doc
    /\ UNCHANGED <<chunks, qdrant, staged, task, req, faults, source, page, job, del>>

\* create_document, with the access level of the job at this moment.
RecordNew(n, d) ==
    /\ run[n].pc = "record"
    /\ run[n].found = None
    /\ doc[d].state = "unborn"
    /\ IF job.live
       THEN /\ doc' = [doc EXCEPT ![d] = [state |-> "live", status |-> "PENDING",
                                          acl |-> job.acl, hash |-> run[n].content]]
            /\ page' = [page EXCEPT ![d] = run[n].page]
            /\ run' = [run EXCEPT ![n].pc = "stage", ![n].found = d,
                                  ![n].active = run[n].active \cup
                                                  IF StableIds THEN {} ELSE {d}]
       ELSE Escapes(n) /\ UNCHANGED <<doc, page>>
    /\ UNCHANGED <<chunks, qdrant, staged, task, req, faults, source, job, del>>

Stage_NoSubtask(n) ==
    /\ run[n].pc = "stage"
    /\ staged' = [staged EXCEPT ![run[n].found] = run[n].content]
    /\ RunGoto(n, "fetch")
    /\ UNCHANGED <<doc, chunks, qdrant, task, req, faults, source, page, job, del>>

\* Stage the bytes and remember the subtask.
Stage(n) ==
    /\ run[n].pc = "stage"
    /\ LET d == run[n].found IN
       IF job.live
       THEN /\ staged' = [staged EXCEPT ![d] = run[n].content]
            /\ run' = [run EXCEPT ![n].pc = "fetch",
                                  ![n].subtasks = run[n].subtasks \cup
                                                    {[doc |-> d, acl |-> job.acl]}]
       ELSE Escapes(n) /\ UNCHANGED staged
    /\ UNCHANGED <<doc, chunks, qdrant, task, req, faults, source, page, job, del>>

PurgeList_Nothing(n) ==
    /\ run[n].pc = "fetch"
    /\ run[n].todo = {}
    /\ RunGoto(n, "purge")
    /\ UNCHANGED <<vars, source, page, job, del>>

\* purge_deleted_external_documents: the rows whose id was not seen.
PurgeList(n) ==
    /\ run[n].pc = "fetch"
    /\ run[n].todo = {}
    /\ run' = [run EXCEPT ![n].pc = "purge",
                          ![n].purge = {d \in JobDocs :
                                          ExternalId(d) \notin run[n].active}]
    /\ UNCHANGED <<vars, source, page, job, del>>

\* delete_document_vectors for the next document of the list: its points.
\* If its row is gone by now, reading it may raise.
PurgePoints(n, d) ==
    /\ run[n].pc = "purge"
    /\ d \in run[n].purge
    /\ \/ /\ \/ qdrant' = [qdrant EXCEPT ![d] = {}] /\ UNCHANGED faults
             \/ Fault /\ UNCHANGED qdrant
          /\ run' = [run EXCEPT ![n].pc = "purgeRows", ![n].found = d]
       \/ ~Live(d) /\ RunGoto(n, "failed") /\ UNCHANGED <<qdrant, faults>>
    /\ UNCHANGED <<doc, chunks, staged, task, req, source, page, job, del>>

\* Its chunk rows.  The commit also carries out the db.delete of the
\* document before it; the staged file is not touched.
PurgeRows(n) ==
    /\ run[n].pc = "purgeRows"
    /\ Commit(run[n].marked, {run[n].found})
    /\ run' = [run EXCEPT ![n].pc = "purge",
                          ![n].purge = run[n].purge \ {run[n].found},
                          ![n].marked = {run[n].found}]
    /\ UNCHANGED <<qdrant, staged, task, req, faults, source, page, job, del>>

PurgeEnd(n) ==
    /\ run[n].pc = "purge"
    /\ run[n].purge = {}
    /\ Commit(run[n].marked, {})
    /\ run' = [run EXCEPT ![n].pc = "fanout", ![n].marked = {}]
    /\ UNCHANGED <<qdrant, staged, task, req, faults, source, page, job, del>>

\* group(...).apply_async publishes the subtasks one after the other.
FanOut(n, t, s) ==
    /\ run[n].pc = "fanout"
    /\ s \in run[n].subtasks
    /\ Dispatch(t, s.doc, s.acl, None, FALSE)
    /\ run' = [run EXCEPT ![n].subtasks = run[n].subtasks \ {s}]
    /\ UNCHANGED <<doc, chunks, qdrant, staged, req, faults, source, page, job, del>>

FanOutFails(n) ==
    /\ run[n].pc = "fanout"
    /\ run[n].subtasks # {}
    /\ Fault
    /\ RunGoto(n, "failed")
    /\ UNCHANGED <<doc, chunks, qdrant, staged, task, req, source, page, job, del>>

Complete_StaysRunning(n) ==
    /\ run[n].pc = "fanout"
    /\ run[n].subtasks = {}
    /\ RunGoto(n, "done")
    /\ UNCHANGED <<vars, source, page, job, del>>

Complete_DocumentStatus(n) ==
    /\ run[n].pc = "fanout"
    /\ run[n].subtasks = {}
    /\ SetJob("INDEXED") /\ RunGoto(n, "done")
    /\ UNCHANGED <<vars, source, page, del>>

\* COMPLETED means dispatched: no subtask need have started.
Complete(n) ==
    /\ run[n].pc = "fanout"
    /\ run[n].subtasks = {}
    /\ IF job.live THEN SetJob("COMPLETED") /\ RunGoto(n, "done")
                   ELSE Escapes(n) /\ UNCHANGED job
    /\ UNCHANGED <<vars, source, page, del>>

\* The commit carries out what purge had marked before it raised.
MarkJobFailed(n) ==
    /\ run[n].pc = "failed"
    /\ IF job.live
       THEN /\ SetJob("FAILED") /\ RunGoto(n, "done")
            /\ Commit(run[n].marked, {})
       ELSE Escapes(n) /\ UNCHANGED <<job, doc, chunks>>
    /\ UNCHANGED <<qdrant, staged, task, req, faults, source, page, del>>

RunDies(n) ==
    /\ run[n].pc \notin {"idle", "queued", "done", "lost"}
    /\ Fault
    /\ RunGoto(n, "lost")
    /\ UNCHANGED <<doc, chunks, qdrant, staged, task, req, source, page, job, del>>

-----------------------------------------------------------------------------
(* Specification.                                                          *)

RunStep(n) ==
    \/ RunStart(n)
    \/ \E p \in Page : Fetch(n, p)
    \/ \E p \in Page : source[p] = None /\ FetchSwallowed(n, p)
    \/ RecordExisting(n) \/ \E d \in Doc : RecordNew(n, d)
    \/ Stage(n)
    \/ PurgeList(n) \/ \E d \in Doc : PurgePoints(n, d)
    \/ PurgeRows(n) \/ PurgeEnd(n)
    \/ \E t \in Task, s \in run[n].subtasks : FanOut(n, t, s)
    \/ Complete(n) \/ MarkJobFailed(n)

DeleteJobStep ==
    \/ \E d \in Doc : DeleteJobPoints(d)
    \/ DeleteJobChunks \/ DeleteJobStaged \/ DeleteJobDoc \/ DeleteJobRow
    \/ DeleteJobRaises

RunError ==
    \/ \E n \in Run, p \in Page : FetchSwallowed(n, p)
    \/ \E n \in Run : FetchRaises(n) \/ FanOutFails(n) \/ RunDies(n)
    \/ DeleteJobDies

RunActive(n) == run[n].pc \notin {"idle", "done", "lost"}

\* A run that waits for a document id or a task: the bounds of the
\* instance are used up, not the system's.
OutOfBounds(n) ==
    \/ /\ run[n].pc = "record" /\ run[n].found = None
       /\ \A d \in Doc : doc[d].state # "unborn"
    \/ /\ run[n].pc = "fanout"
       /\ \A t \in Task : task[t].pc # "idle"

SyncAtRest ==
    /\ \A t \in Task : ~Active(t)
    /\ \A r \in Request : ~Serving(r)
    /\ \A n \in Run : RunActive(n) => OutOfBounds(n)
    /\ ~Deleting
    /\ UNCHANGED allVars

SyncNext ==
    \/ Step /\ UNCHANGED syncVars
    \/ \E p \in Page, c \in Content \cup {None} : SourceChanges(p, c)
    \/ \E n \in Run : Trigger(n) \/ RunStep(n)
    \/ DeleteJobStart
    \/ DeleteJobStep
    \/ RunError
    \/ SyncAtRest

SyncSpec == SyncInit /\ [][SyncNext]_allVars

\* Celery workers keep consuming and an accepted delete_job runs to its end.
SyncFairness ==
    /\ \A t \in Task : WF_allVars(WorkerStep(t) /\ UNCHANGED syncVars)
    /\ \A r \in Request : WF_allVars(HandlerStep(r) /\ UNCHANGED syncVars)
    /\ \A n \in Run : WF_allVars(RunStep(n))
    /\ WF_allVars(DeleteJobStep)

SyncFairSpec == SyncSpec /\ SyncFairness

-----------------------------------------------------------------------------
(* Properties.                                                             *)

SyncQuiet ==
    /\ \A d \in Doc : Quiet(d)
    /\ \A n \in Run : ~RunActive(n)
    /\ ~Deleting

\* A run that ends in COMPLETED leaves, when nothing else was running, one
\* document with the right hash for every page of the source and none for
\* a page that is not there (change detection and purge together).
CompletedRunMirrorsSource ==
    [][job.status # "COMPLETED" /\ job'.status = "COMPLETED" =>
          /\ \A p \in Page : source[p] # None =>
                \E d \in JobDocs :
                    /\ doc[d].hash = source[p]
                    /\ {e \in JobDocs : page[e] = p} = {d}
          /\ \A d \in JobDocs : source[page[d]] # None]_allVars

\* A run was interrupted while it purged d.
HalfPurged(d) ==
    \E n \in Run : run[n].pc = "lost" /\ d \in run[n].purge \cup run[n].marked

\* Skipping is sound: a document the next run would take as unchanged
\* (same hash, INDEXED) really has the rows and the points of that content,
\* unless a purge or a deletion of it or of the job was left half done
\* (ingestion_tasks.py: "If unchanged, skip to save embedding computation").
SkipIsSound ==
    SyncQuiet /\ del.pc # "dead" =>
        \A d \in JobDocs :
            doc[d].status = "INDEXED" /\ ~Purged(d) /\ ~HalfPurged(d) =>
                /\ chunks[d] # {}
                /\ \A b \in chunks[d] : b.content = doc[d].hash
                /\ Ids(chunks[d]) \subseteq Ids(qdrant[d])

\* Once nothing is in flight, an indexed job document has points of its
\* current content only (ingestion-layer-reference.md, 11.3: "Qdrant vectors
\* are replaced via upsert").  The code does not meet this, and no run checks it:
\* one change of a page violates it.
NoStalePoints ==
    SyncQuiet =>
        \A d \in JobDocs :
            doc[d].status = "INDEXED" /\ ~Purged(d) =>
                Ids(qdrant[d]) = Ids(chunks[d])

\* A run decides to purge only documents whose page has left the source
\* (purge_deleted_external_documents: "documents and vector points that no
\* longer exist in the external source").
PurgeOnlyVanished ==
    [][\A n \in Run :
          \A d \in run'[n].purge \ run[n].purge : source[page[d]] = None]_allVars

\* A deleted job leaves no document, no point and no staged file behind
\* (delete_job: "cascades deletion across all associated documents,
\* staging files, and Qdrant vectors").
DeletedJobLeavesNothing ==
    del.pc = "done" /\ SyncQuiet =>
        \A d \in Doc : page[d] # None =>
            ~Live(d) /\ qdrant[d] = {} /\ staged[d] = None

\* A job does not stay RUNNING: delete_job may be refused "while sync task
\* is actively running", but waiting for completion helps.
JobStopsRunning ==
    (job.live /\ job.status = "RUNNING")
        ~> (~job.live \/ job.status # "RUNNING")

\* A document that a run registered is ingested: its subtask is sent and
\* ends, unless the job itself is deleted.
RegisteredDocsSettle ==
    \A d \in Doc :
        (Live(d) /\ page[d] # None) ~> (Settled(d) \/ ~Live(d) \/ ~job.live)

=============================================================================
