--------------------------- MODULE Ingestion_proofs ---------------------------
(***************************************************************************)
(* Proofs about Ingestion, for any set of documents, tasks and requests.   *)
(***************************************************************************)
EXTENDS Ingestion, TLAPS

-----------------------------------------------------------------------------
(* Type correctness.  TypeOK alone is not inductive: a batch is typed only *)
(* if the task that writes it has read its bytes, and a task or a request  *)
(* acts on a document only if it was given one.                            *)

TasksCarry ==
    \A t \in Task :
        /\ task[t].pc # "idle" => task[t].doc \in Doc /\ task[t].acl \in Acl
        /\ task[t].pc \in {"upsert", "delete", "insert"} =>
              task[t].content \in Content

RequestsCarry ==
    \A r \in Request :
        /\ req[r].pc # "idle" => req[r].doc \in Doc
        /\ req[r].pc \in {"stage", "enqueue"} =>
              req[r].acl \in Acl /\ req[r].content \in Content
        /\ req[r].pc \in {"vectors", "chunks"} /\ req[r].op = "update" =>
              req[r].acl \in Acl

TypeInv == TypeOK /\ TasksCarry /\ RequestsCarry

\* Relabelling keeps a set of batches a set of batches (set_payload and
\* UPDATE change the access fields of what they match and nothing else).
LEMMA RelabelType ==
    ASSUME NEW S \in SUBSET Batch, NEW a \in Acl
    PROVE  Relabel(S, a) \in SUBSET Batch
  BY DEF Relabel, Batch

\* The initial state is well typed.
LEMMA InitType == Init => TypeInv
  BY ConstantsAssumption
     DEF Init, TypeInv, TasksCarry, RequestsCarry, TypeOK, DocRow, Status, Batch, TaskRun, TaskPc,
         Handler, ReqPc, Endpoint

\* A new status leaves a table of document rows (update_document_status).
LEMMA SetStatusType ==
    ASSUME TypeOK, NEW d \in Doc, NEW s \in Status, SetStatus(d, s)
    PROVE  doc' \in [Doc -> DocRow]
  BY DEF TypeOK, SetStatus, DocRow

\* Deleting a row leaves tables of rows and of chunk rows (the cascade).
LEMMA DropRowType ==
    ASSUME TypeOK, NEW d \in Doc, DropRow(d)
    PROVE  doc' \in [Doc -> DocRow] /\ chunks' \in [Doc -> SUBSET Batch]
  BY DEF TypeOK, DropRow, DocRow

\* A task that moves on keeps its arguments; it must have read its bytes to
\* reach the stores.
LEMMA TaskGotoType ==
    ASSUME TypeInv, NEW t \in Task, NEW pc \in TaskPc, TaskGoto(t, pc),
           task[t].pc # "idle",
           pc \in {"upsert", "delete", "insert"} => task[t].content \in Content
    PROVE  task' \in [Task -> TaskRun] /\ TasksCarry'
  <1>1. task' \in [Task -> TaskRun]
    BY DEF TypeInv, TypeOK, TaskGoto, TaskRun
  <1>2. TasksCarry'
    BY DEF TypeInv, TypeOK, TasksCarry, TaskGoto, TaskRun
  <1>. QED  BY <1>1, <1>2

\* A handler that moves on keeps its arguments.
LEMMA ReqGotoType ==
    ASSUME TypeInv, NEW r \in Request, NEW pc \in ReqPc, ReqGoto(r, pc),
           req[r].pc # "idle",
           pc \in {"stage", "enqueue"} => req[r].pc = "stage",
           pc \in {"vectors", "chunks"} => req[r].pc = "vectors"
    PROVE  req' \in [Request -> Handler] /\ RequestsCarry'
  <1>1. req' \in [Request -> Handler]
    BY DEF TypeInv, TypeOK, ReqGoto, Handler
  <1>2. RequestsCarry'
    BY DEF TypeInv, TypeOK, RequestsCarry, ReqGoto, Handler
  <1>. QED  BY <1>1, <1>2

\* A message carries a document and an access level, an inline call its
\* bytes as well.
LEMMA DispatchType ==
    ASSUME TypeInv, NEW t \in Task, NEW d \in Doc, NEW a \in Acl,
           NEW c \in Content \cup {None}, NEW inline \in BOOLEAN,
           inline => c \in Content, Dispatch(t, d, a, c, inline)
    PROVE  task' \in [Task -> TaskRun] /\ TasksCarry'
  <1>1. task' \in [Task -> TaskRun]
    BY DEF TypeInv, TypeOK, Dispatch, TaskRun, TaskPc
  <1>2. TasksCarry'
    BY DEF TypeInv, TypeOK, TasksCarry, Dispatch, TaskRun
  <1>. QED  BY <1>1, <1>2

\* A fault stays within its bound.
LEMMA FaultType ==
    ASSUME TypeOK, Fault PROVE faults' \in 0..MaxFaults
  BY ConstantsAssumption DEF TypeOK, Fault

\* The batch of a task that has read its bytes.
LEMMA BatchOfType ==
    ASSUME TypeInv, NEW t \in Task,
           task[t].pc \in {"upsert", "delete", "insert"}
    PROVE  BatchOf(t) \in Batch
  BY DEF TypeInv, TypeOK, TasksCarry, BatchOf, Batch

\* The arguments of a task that has started.
LEMMA TaskArgs ==
    ASSUME TypeInv, NEW t \in Task, task[t].pc # "idle"
    PROVE  task[t].doc \in Doc /\ task[t].acl \in Acl
  BY DEF TypeInv, TasksCarry

-----------------------------------------------------------------------------
(* Type correctness, action by action.                                     *)

\* The first step of a request keeps the types (upload_document,
\* delete_document, reindex_document, update_document).
LEMMA ArriveType ==
    ASSUME TypeInv, NEW r \in Request, NEW d \in Doc, Arrive(r, d)
    PROVE  TypeInv'
  <1>. USE DEF TypeInv
  <1>1. ASSUME NEW a \in Acl, NEW c \in Content, UploadCreate(r, d, a, c)
        PROVE  TypeInv'
    <2>1. TypeOK'
      BY <1>1 DEF UploadCreate, TypeOK, DocRow, Status, Handler, ReqPc, Endpoint
    <2>2. TasksCarry' /\ RequestsCarry'
      BY <1>1 DEF UploadCreate, TypeOK, TasksCarry, RequestsCarry, Handler
    <2>. QED  BY <2>1, <2>2
  <1>2. ASSUME NEW op \in Ops, PurgeStart(r, d, op)
        PROVE  TypeInv'
    <2>1. TypeOK'
      BY <1>2 DEF PurgeStart, TypeOK, Handler, ReqPc, Endpoint
    <2>2. TasksCarry' /\ RequestsCarry'
      BY <1>2 DEF PurgeStart, TypeOK, TasksCarry, RequestsCarry, Handler
    <2>. QED  BY <2>1, <2>2
  <1>3. ASSUME NEW a \in Acl, UpdateRow(r, d, a)
        PROVE  TypeInv'
    <2>1. TypeOK'
      BY <1>3 DEF UpdateRow, TypeOK, DocRow, Handler, ReqPc, Endpoint
    <2>2. TasksCarry' /\ RequestsCarry'
      BY <1>3 DEF UpdateRow, TypeOK, TasksCarry, RequestsCarry, Handler
    <2>. QED  BY <2>1, <2>2
  <1>. QED  BY <1>1, <1>2, <1>3 DEF Arrive

\* So does every further step of a handler.
LEMMA HandlerStepType ==
    ASSUME TypeInv, NEW r \in Request, HandlerStep(r)
    PROVE  TypeInv'
  <1>. USE DEF TypeInv
  <1>1. CASE UploadStage(r)
    <2>1. req' \in [Request -> Handler] /\ RequestsCarry'
      BY <1>1, ReqGotoType DEF UploadStage, ReqPc
    <2>2. TypeOK'
      BY <1>1, <2>1 DEF UploadStage, TypeOK, RequestsCarry
    <2>. QED  BY <1>1, <2>1, <2>2 DEF UploadStage, TasksCarry
  <1>2. ASSUME NEW t \in Task, UploadEnqueue(r, t)
        PROVE  TypeInv'
    <2>1. req' \in [Request -> Handler] /\ RequestsCarry'
      BY <1>2, ReqGotoType DEF UploadEnqueue, ReqPc
    <2>2. task' \in [Task -> TaskRun] /\ TasksCarry'
      BY <1>2, DispatchType DEF UploadEnqueue, RequestsCarry
    <2>. QED  BY <1>2, <2>1, <2>2 DEF UploadEnqueue, TypeOK
  <1>3. CASE PurgeVectors(r)
    <2>1. req' \in [Request -> Handler] /\ RequestsCarry'
      BY <1>3, ReqGotoType DEF PurgeVectors, ReqPc
    <2>2. TypeOK'
      BY <1>3, <2>1, FaultType DEF PurgeVectors, TypeOK
    <2>. QED  BY <1>3, <2>1, <2>2 DEF PurgeVectors, TasksCarry
  <1>4. CASE PurgeChunks(r)
    <2>1. req' \in [Request -> Handler] /\ RequestsCarry'
      BY <1>4, ReqGotoType DEF PurgeChunks, ReqPc
    <2>. QED  BY <1>4, <2>1 DEF PurgeChunks, TypeOK, TasksCarry
  <1>5. CASE DeleteStaged(r)
    <2>1. req' \in [Request -> Handler] /\ RequestsCarry'
      BY <1>5, ReqGotoType DEF DeleteStaged, ReqPc
    <2>. QED  BY <1>5, <2>1 DEF DeleteStaged, TypeOK, TasksCarry
  <1>6. CASE DeleteRow(r)
    <2>1. req' \in [Request -> Handler] /\ RequestsCarry'
      BY <1>6, ReqGotoType DEF DeleteRow, ReqPc
    <2>2. doc' \in [Doc -> DocRow] /\ chunks' \in [Doc -> SUBSET Batch]
      BY <1>6, DropRowType DEF DeleteRow, RequestsCarry, TypeOK
    <2>. QED  BY <1>6, <2>1, <2>2 DEF DeleteRow, TypeOK, TasksCarry
  <1>7. CASE ReindexStatus(r)
    <2>1. req' \in [Request -> Handler] /\ RequestsCarry'
      BY <1>7, ReqGotoType DEF ReindexStatus, ReqPc
    <2>2. doc' \in [Doc -> DocRow]
      BY <1>7, SetStatusType DEF ReindexStatus, RequestsCarry, Status
    <2>. QED  BY <1>7, <2>1, <2>2 DEF ReindexStatus, TypeOK, TasksCarry
  <1>8. CASE UpdateVectors(r)
    <2>1. req' \in [Request -> Handler] /\ RequestsCarry'
      BY <1>8, ReqGotoType DEF UpdateVectors, ReqPc
    <2>2. Relabel(qdrant[req[r].doc], req[r].acl) \in SUBSET Batch
      BY <1>8, RelabelType DEF UpdateVectors, RequestsCarry, TypeOK
    <2>3. TypeOK'
      BY <1>8, <2>1, <2>2, FaultType DEF UpdateVectors, TypeOK
    <2>. QED  BY <1>8, <2>1, <2>3 DEF UpdateVectors, TasksCarry
  <1>9. CASE UpdateChunks(r)
    <2>1. req' \in [Request -> Handler] /\ RequestsCarry'
      BY <1>9, ReqGotoType DEF UpdateChunks, ReqPc
    <2>2. Relabel(chunks[req[r].doc], req[r].acl) \in SUBSET Batch
      BY <1>9, RelabelType DEF UpdateChunks, RequestsCarry, TypeOK
    <2>. QED  BY <1>9, <2>1, <2>2 DEF UpdateChunks, TypeOK, TasksCarry
  <1>. QED
    BY <1>1, <1>2, <1>3, <1>4, <1>5, <1>6, <1>7, <1>8, <1>9 DEF HandlerStep

\* And every step of an ingestion (the Celery task and ingest_document).
LEMMA WorkerStepType ==
    ASSUME TypeInv, NEW t \in Task, WorkerStep(t)
    PROVE  TypeInv'
  <1>. USE DEF TypeInv
  <1>1. CASE WorkerStart(t)
    <2>1. task' \in [Task -> TaskRun] /\ TasksCarry'
      BY <1>1, TaskGotoType DEF WorkerStart, TaskPc
    <2>2. doc' \in [Doc -> DocRow]
      BY <1>1, SetStatusType, TaskArgs DEF WorkerStart, Status
    <2>. QED  BY <1>1, <2>1, <2>2 DEF WorkerStart, TypeOK, RequestsCarry
  <1>2. CASE WorkerRead(t)
    <2>1. staged[task[t].doc] \in Content \cup {None}
      BY <1>2, TaskArgs DEF WorkerRead, TypeOK
    <2>2. TypeOK'
      BY <1>2, <2>1 DEF WorkerRead, TypeOK, TaskRun, TaskPc
    <2>3. TasksCarry'
      BY <1>2, <2>1 DEF WorkerRead, TypeOK, TaskRun, TasksCarry
    <2>. QED  BY <1>2, <2>2, <2>3 DEF WorkerRead, RequestsCarry
  <1>3. CASE UpsertPoints(t)
    <2>1. task' \in [Task -> TaskRun] /\ TasksCarry'
      BY <1>3, TaskGotoType DEF UpsertPoints, TaskPc, TasksCarry
    <2>2. BatchOf(t) \in Batch
      BY <1>3, BatchOfType DEF UpsertPoints
    <2>. QED  BY <1>3, <2>1, <2>2 DEF UpsertPoints, WritePoints, TypeOK, RequestsCarry
  <1>4. CASE DeleteOldChunks(t)
    <2>1. chunks[task[t].doc] \in SUBSET Batch
      BY <1>4, TaskArgs DEF DeleteOldChunks, TypeOK
    <2>2. TypeOK'
      BY <1>4, <2>1 DEF DeleteOldChunks, TypeOK, TaskRun, TaskPc
    <2>3. TasksCarry'
      BY <1>4, <2>1 DEF DeleteOldChunks, TypeOK, TaskRun, TasksCarry
    <2>. QED  BY <1>4, <2>2, <2>3 DEF DeleteOldChunks, RequestsCarry
  <1>5. CASE InsertChunks(t)
    <2>1. task' \in [Task -> TaskRun] /\ TasksCarry'
      BY <1>5, TaskGotoType DEF InsertChunks, TaskPc
    <2>2. BatchOf(t) \in Batch
      BY <1>5, BatchOfType DEF InsertChunks
    <2>. QED  BY <1>5, <2>1, <2>2 DEF InsertChunks, TypeOK, RequestsCarry
  <1>6. CASE InsertFails(t)
    <2>1. task' \in [Task -> TaskRun] /\ TasksCarry'
      BY <1>6, TaskGotoType DEF InsertFails, TaskPc
    <2>. QED  BY <1>6, <2>1 DEF InsertFails, TypeOK, RequestsCarry
  <1>7. CASE Compensate(t)
    <2>1. task' \in [Task -> TaskRun] /\ TasksCarry'
      BY <1>7, TaskGotoType DEF Compensate, TaskPc
    <2>2. TypeOK'
      BY <1>7, <2>1, FaultType DEF Compensate, TypeOK
    <2>. QED  BY <1>7, <2>1, <2>2 DEF Compensate, RequestsCarry
  <1>8. CASE MarkIndexed(t)
    <2>1. task' \in [Task -> TaskRun] /\ TasksCarry'
      BY <1>8, TaskGotoType DEF MarkIndexed, TaskPc
    <2>2. doc' \in [Doc -> DocRow]
      BY <1>8, SetStatusType, TaskArgs DEF MarkIndexed, Status
    <2>. QED  BY <1>8, <2>1, <2>2 DEF MarkIndexed, TypeOK, RequestsCarry
  <1>9. CASE MarkFailed(t)
    <2>1. task' \in [Task -> TaskRun] /\ TasksCarry'
      BY <1>9, TaskGotoType DEF MarkFailed, TaskPc
    <2>2. doc' \in [Doc -> DocRow]
      BY <1>9, SetStatusType, TaskArgs DEF MarkFailed, Status
    <2>. QED  BY <1>9, <2>1, <2>2 DEF MarkFailed, TypeOK, RequestsCarry
  <1>10. CASE Unstage(t)
    <2>1. task' \in [Task -> TaskRun] /\ TasksCarry'
      BY <1>10, TaskGotoType DEF Unstage, TaskPc
    <2>. QED  BY <1>10, <2>1 DEF Unstage, TypeOK, RequestsCarry
  <1>. QED
    BY <1>1, <1>2, <1>3, <1>4, <1>5, <1>6, <1>7, <1>8, <1>9, <1>10 DEF WorkerStep

\* And every error: a failed ingestion, a dead process, a broker that is
\* not there.
LEMMA ErrorType ==
    ASSUME TypeInv, Error
    PROVE  TypeInv'
  <1>. USE DEF TypeInv
  <1>1. ASSUME NEW t \in Task, IngestFails(t)
        PROVE  TypeInv'
    <2>1. task' \in [Task -> TaskRun] /\ TasksCarry'
      BY <1>1, TaskGotoType DEF IngestFails, Raise, TaskPc
    <2>. QED  BY <1>1, <2>1 DEF IngestFails, TypeOK, RequestsCarry
  <1>2. ASSUME NEW t \in Task, UpsertTimesOut(t)
        PROVE  TypeInv'
    <2>1. task' \in [Task -> TaskRun] /\ TasksCarry'
      BY <1>2, TaskGotoType DEF UpsertTimesOut, Raise, TaskPc
    <2>2. BatchOf(t) \in Batch
      BY <1>2, BatchOfType DEF UpsertTimesOut
    <2>3. TypeOK'
      BY <1>2, <2>1, <2>2, FaultType DEF UpsertTimesOut, WritePoints, TypeOK
    <2>. QED  BY <1>2, <2>1, <2>3 DEF UpsertTimesOut, RequestsCarry
  <1>3. ASSUME NEW t \in Task, WorkerDies(t)
        PROVE  TypeInv'
    <2>1. task' \in [Task -> TaskRun] /\ TasksCarry'
      BY <1>3, TaskGotoType DEF WorkerDies, TaskPc
    <2>2. TypeOK'
      BY <1>3, <2>1, FaultType DEF WorkerDies, TypeOK
    <2>. QED  BY <1>3, <2>1, <2>2 DEF WorkerDies, RequestsCarry
  <1>4. ASSUME NEW r \in Request, HandlerDies(r)
        PROVE  TypeInv'
    <2>1. req' \in [Request -> Handler] /\ RequestsCarry'
      BY <1>4, ReqGotoType DEF HandlerDies, ReqPc
    <2>2. TypeOK'
      BY <1>4, <2>1, FaultType DEF HandlerDies, TypeOK
    <2>. QED  BY <1>4, <2>1, <2>2 DEF HandlerDies, TasksCarry
  <1>5. ASSUME NEW r \in Request, NEW t \in Task, UploadInline(r, t)
        PROVE  TypeInv'
    <2>1. req' \in [Request -> Handler] /\ RequestsCarry'
      BY <1>5, ReqGotoType DEF UploadInline, ReqPc
    <2>2. task' \in [Task -> TaskRun] /\ TasksCarry'
      BY <1>5, DispatchType DEF UploadInline, RequestsCarry
    <2>. QED  BY <1>5, <2>1, <2>2, FaultType DEF UploadInline, TypeOK
  <1>. QED  BY <1>1, <1>2, <1>3, <1>4, <1>5 DEF Error

\* Every step keeps the types.
LEMMA NextType == TypeInv /\ [Next]_vars => TypeInv'
  <1>. SUFFICES ASSUME TypeInv, [Next]_vars PROVE TypeInv'
    OBVIOUS
  <1>1. CASE UNCHANGED vars
    BY <1>1 DEF vars, TypeInv, TypeOK, TasksCarry, RequestsCarry
  <1>. QED
    BY <1>1, ArriveType, HandlerStepType, WorkerStepType, ErrorType
       DEF Next, Step, AtRest

\* Every reachable state is well typed, and every task and request that is
\* under way has the arguments it works with.
THEOREM TypeInvariance == Spec => []TypeInv
  BY InitType, NextType, PTL DEF Spec

\* The type invariant of Ingestion.
THEOREM TypeCorrect == Spec => []TypeOK
  <1>1. TypeInv => TypeOK
    BY DEF TypeInv
  <1>. QED  BY <1>1, TypeInvariance, PTL

-----------------------------------------------------------------------------
(* The inductive invariant of a document's life.                           *)

\* The document exists: its row was committed, and may be gone again.
Born(d) == doc[d].state # "unborn"

\* The ingestion is over, one way or the other.
Ended == {"unstage", "done", "lost"}

\* Nothing exists of a document whose row was never committed.
UnbornIsUntouched ==
    \A d \in Doc : ~Born(d) =>
        /\ doc[d].status = "PENDING"
        /\ staged[d] = None
        /\ \A t \in Task : task[t].doc # d
        /\ \A r \in Request : req[r].doc # d

\* A request has a document once it has begun, an idle one has none; only
\* the steps of its own endpoint are ahead of it.
RequestsInOrder ==
    \A r \in Request :
        /\ req[r].pc = "idle" => req[r].doc = None
        /\ req[r].pc \in {"stage", "enqueue"} =>
              /\ req[r].op = "upload"
              /\ req[r].content = doc[req[r].doc].hash
        /\ req[r].pc \in {"staged", "row"} => req[r].op = "delete"
        /\ req[r].pc = "status" => req[r].op = "reindex"

\* A document is uploaded by one request, which is the only one to start an
\* ingestion of it, once.
OneUpload ==
    \A r \in Request : req[r].pc \in {"stage", "enqueue"} =>
        /\ \A t \in Task : task[t].doc # req[r].doc
        /\ \A s \in Request : /\ req[s].pc \in {"stage", "enqueue"}
                              /\ req[s].doc = req[r].doc
                              => s = r

OneIngestion ==
    /\ \A t \in Task : task[t].pc = "idle" => task[t].doc = None
    /\ \A t, u \in Task : task[t].doc \in Doc /\ task[u].doc = task[t].doc => u = t

\* The bytes on disk and in the hands of a task are those whose hash the
\* row records.
BytesAgree ==
    /\ \A d \in Doc : staged[d] # None => staged[d] = doc[d].hash
    /\ \A t \in Task : task[t].doc \in Doc /\ task[t].content # None =>
          task[t].content = doc[task[t].doc].hash

\* What the stores hold of d was written by its own ingestion, from the
\* recorded bytes.
OwnBatches(d) ==
    \A b \in qdrant[d] \cup chunks[d] :
        b.task \in Task /\ task[b.task].doc = d /\ b.content = doc[d].hash

\* Both stores hold the ingestion, or Qdrant alone when it ran in line.
Backed(d, t) ==
    /\ qdrant[d] # {}
    /\ (chunks[d] = {} <=> task[t].inline)

\* What the stores hold while ingestion t of d is under way.
Progress(d, t) ==
    /\ task[t].pc \in {"queued", "read", "upsert"} => qdrant[d] = {}
    /\ task[t].pc \in {"queued", "read", "upsert", "delete", "insert",
                       "compensate", "fail"} => chunks[d] = {}
    /\ task[t].pc \in {"queued", "read", "delete", "insert"} => ~task[t].inline
    /\ task[t].pc = "insert" => task[t].stale = {}
    /\ task[t].pc \in {"delete", "insert"} /\ ~Purged(d) => qdrant[d] # {}
    /\ task[t].pc = "index" /\ ~Purged(d) => Backed(d, t)
    /\ task[t].pc = "fail" /\ faults = 0 => qdrant[d] = {}
    /\ task[t].pc = "unstage" /\ ~Purged(d) => Settled(d) \/ ~Live(d)

IngestionsInOrder ==
    \A t \in Task : task[t].doc \in Doc => Progress(task[t].doc, t)

\* What the reported outcome of d says of the stores.
TrueOutcome(d) ==
    /\ doc[d].status = "INDEXED" =>
          \E t \in Task : /\ task[t].doc = d
                          /\ task[t].pc \in Ended
                          /\ ~Purged(d) => Backed(d, t)
    /\ doc[d].status = "FAILED" =>
          \E t \in Task : /\ task[t].doc = d
                          /\ task[t].pc \in Ended
                          /\ chunks[d] = {}
                          /\ faults = 0 => qdrant[d] = {}

\* Chunk rows never outlive the points.
RowsBacked(d) == ~Purged(d) /\ chunks[d] # {} => qdrant[d] # {}

StoresInOrder ==
    \A d \in Doc : OwnBatches(d) /\ TrueOutcome(d) /\ RowsBacked(d)

LifeInv ==
    /\ UnbornIsUntouched
    /\ RequestsInOrder
    /\ OneUpload
    /\ OneIngestion
    /\ BytesAgree
    /\ IngestionsInOrder
    /\ StoresInOrder

-----------------------------------------------------------------------------
(* What the elementary steps leave alone.                                  *)

\* A task that moves on changes nothing but its own place.
LEMMA TaskGotoKeeps ==
    ASSUME TypeInv, NEW t \in Task, NEW pc \in TaskPc, TaskGoto(t, pc)
    PROVE  /\ task'[t].pc = pc
           /\ \A u \in Task :
                 /\ task'[u].doc = task[u].doc
                 /\ task'[u].inline = task[u].inline
                 /\ task'[u].content = task[u].content
                 /\ task'[u].stale = task[u].stale
                 /\ u # t => task'[u].pc = task[u].pc
  BY DEF TypeInv, TypeOK, TaskGoto, TaskRun

\* So does a handler.
LEMMA ReqGotoKeeps ==
    ASSUME TypeInv, NEW r \in Request, NEW pc \in ReqPc, ReqGoto(r, pc)
    PROVE  /\ req'[r].pc = pc
           /\ \A q \in Request :
                 /\ req'[q].doc = req[q].doc
                 /\ req'[q].op = req[q].op
                 /\ req'[q].content = req[q].content
                 /\ q # r => req'[q].pc = req[q].pc
  BY DEF TypeInv, TypeOK, ReqGoto, Handler

\* update_document_status changes the status of one live document.
LEMMA SetStatusKeeps ==
    ASSUME TypeInv, NEW d \in Doc, NEW s \in Status, SetStatus(d, s)
    PROVE  /\ Live(d) => doc'[d].status = s
           /\ ~Live(d) => doc'[d].status = doc[d].status
           /\ \A e \in Doc :
                 /\ doc'[e].state = doc[e].state
                 /\ doc'[e].hash = doc[e].hash
                 /\ e # d => doc'[e].status = doc[e].status
  BY DEF TypeInv, TypeOK, SetStatus, DocRow

\* A step of task t works on its own document, and on its staged file.
WorkerMoves(t) ==
    /\ req' = req
    /\ faults' = 0 => faults = 0
    /\ \A u \in Task :
          /\ task'[u].doc = task[u].doc
          /\ task'[u].inline = task[u].inline
          /\ task'[u].content \in {task[u].content, staged[task[u].doc]}
          /\ u # t => /\ task'[u].pc = task[u].pc
                      /\ task'[u].stale = task[u].stale
                      /\ task'[u].content = task[u].content
    /\ \A e \in Doc :
          /\ doc'[e].state = doc[e].state
          /\ doc'[e].hash = doc[e].hash
          /\ staged'[e] \in {staged[e], None}
          /\ e # task[t].doc => /\ doc'[e].status = doc[e].status
                                /\ chunks'[e] = chunks[e]
                                /\ qdrant'[e] = qdrant[e]

\* So only that document is at stake (one ingestion per document).
LEMMA WorkerFrame ==
    ASSUME TypeInv, LifeInv, NEW t \in Task, WorkerMoves(t),
           NEW d \in Doc, task[t].doc = d,
           task[t].pc # "idle", task'[t].pc # "idle",
           Progress(d, t)', OwnBatches(d)', TrueOutcome(d)', RowsBacked(d)'
    PROVE  LifeInv'
  <1>. USE DEF LifeInv, WorkerMoves
  <1>1. UnbornIsUntouched'
    BY DEF UnbornIsUntouched, Born
  <1>2. RequestsInOrder'
    BY DEF RequestsInOrder, TypeInv, RequestsCarry
  <1>3. OneUpload' /\ OneIngestion'
    BY DEF OneUpload, OneIngestion
  <1>4. BytesAgree'
    BY DEF BytesAgree
  <1>5. IngestionsInOrder'
    <2>. SUFFICES ASSUME NEW u \in Task, NEW e \in Doc, task[u].doc = e
                  PROVE  Progress(e, u)'
      BY DEF IngestionsInOrder
    <2>1. CASE u = t
      BY <2>1
    <2>2. CASE u # t
      <3>1. e # d
        BY <2>2 DEF OneIngestion
      <3>2. /\ chunks'[e] = chunks[e]
            /\ qdrant'[e] = qdrant[e]
            /\ doc'[e].status = doc[e].status
            /\ doc'[e].state = doc[e].state
        BY <3>1
      <3>3. /\ task'[u].pc = task[u].pc
            /\ task'[u].inline = task[u].inline
            /\ task'[u].stale = task[u].stale
        BY <2>2
      <3>4. Purged(e)' <=> Purged(e)
        BY DEF Purged
      <3>5. Progress(e, u)
        BY DEF IngestionsInOrder
      <3>. QED
        BY <3>2, <3>3, <3>4, <3>5 DEF Progress, Backed, Settled, Live
    <2>. QED  BY <2>1, <2>2
  <1>6. StoresInOrder'
    <2>. SUFFICES ASSUME NEW e \in Doc, e # d
                  PROVE  (OwnBatches(e) /\ TrueOutcome(e) /\ RowsBacked(e))'
      BY DEF StoresInOrder
    <2>1. OwnBatches(e)' /\ RowsBacked(e)'
      BY DEF StoresInOrder, OwnBatches, RowsBacked, Purged
    <2>2. TrueOutcome(e)'
      BY DEF StoresInOrder, TrueOutcome, Purged, Backed
    <2>. QED  BY <2>1, <2>2
  <1>. QED  BY <1>1, <1>2, <1>3, <1>4, <1>5, <1>6

\* What is known of the document of a task that has started; no outcome is
\* on record before the task has ended.
LEMMA OwnDocument ==
    ASSUME TypeInv, LifeInv, NEW t \in Task, task[t].pc # "idle"
    PROVE  LET d == task[t].doc IN
           /\ d \in Doc
           /\ Progress(d, t) /\ OwnBatches(d) /\ TrueOutcome(d) /\ RowsBacked(d)
           /\ task[t].pc \notin Ended => doc[d].status \notin {"INDEXED", "FAILED"}
           /\ task[t].content # None => task[t].content = doc[d].hash
  <1>. DEFINE d == task[t].doc
  <1>. USE DEF LifeInv
  <1>1. d \in Doc
    BY TaskArgs
  <1>2. Progress(d, t) /\ OwnBatches(d) /\ TrueOutcome(d) /\ RowsBacked(d)
    BY <1>1 DEF IngestionsInOrder, StoresInOrder
  <1>3. task[t].pc \notin Ended => doc[d].status \notin {"INDEXED", "FAILED"}
    BY <1>1, <1>2 DEF TrueOutcome, OneIngestion
  <1>4. task[t].content # None => task[t].content = doc[d].hash
    BY <1>1 DEF BytesAgree
  <1>. QED  BY <1>1, <1>2, <1>3, <1>4

\* The batch of a task is of the recorded bytes.
LEMMA OwnBatch ==
    ASSUME TypeInv, LifeInv, NEW t \in Task,
           task[t].pc \in {"upsert", "insert"}
    PROVE  BatchOf(t).task = t /\ BatchOf(t).content = doc[task[t].doc].hash
  BY OwnDocument, ConstantsAssumption DEF TypeInv, TasksCarry, BatchOf

-----------------------------------------------------------------------------
(* The invariant, action by action.                                        *)

\* Every step of an ingestion keeps the invariant.
LEMMA WorkerStepLife ==
    ASSUME TypeInv, LifeInv, NEW t \in Task, WorkerStep(t)
    PROVE  LifeInv'
  <1>1. task[t].pc # "idle"
    BY DEF WorkerStep, WorkerStart, WorkerRead, UpsertPoints, DeleteOldChunks,
           InsertChunks, InsertFails, Compensate, MarkIndexed, MarkFailed, Unstage
  <1>0. PICK d \in Doc : d = task[t].doc
    BY <1>1, TaskArgs
  <1>2. /\ d = task[t].doc
        /\ Progress(d, t) /\ OwnBatches(d) /\ TrueOutcome(d) /\ RowsBacked(d)
        /\ task[t].pc \notin Ended => doc[d].status \notin {"INDEXED", "FAILED"}
        /\ task[t].content # None => task[t].content = doc[d].hash
    BY <1>0, <1>1, OwnDocument
  <1>3. ASSUME WorkerMoves(t), task'[t].pc # "idle",
               (Progress(d, t) /\ OwnBatches(d) /\ TrueOutcome(d) /\ RowsBacked(d))'
        PROVE  LifeInv'
    BY <1>1, <1>2, <1>3, WorkerFrame
  <1>4. CASE WorkerStart(t)
    <2>1. WorkerMoves(t) /\ task'[t].pc = "read"
      BY <1>2, <1>4, TaskGotoKeeps, SetStatusKeeps
         DEF WorkerStart, WorkerMoves, TaskPc, Status
    <2>2. doc'[d].status \notin {"INDEXED", "FAILED"}
      BY <1>2, <1>4, SetStatusKeeps DEF WorkerStart, Status, Ended
    <2>3. /\ UNCHANGED <<chunks, qdrant, req, faults>>
          /\ task[t].pc = "queued"
      BY <1>4 DEF WorkerStart
    <2>4. Progress(d, t)' /\ TrueOutcome(d)'
      BY <1>2, <2>1, <2>2, <2>3 DEF WorkerMoves, Progress, TrueOutcome
    <2>5. OwnBatches(d)' /\ RowsBacked(d)'
      BY <1>2, <2>1, <2>3 DEF WorkerMoves, OwnBatches, RowsBacked, Purged
    <2>. QED  BY <1>3, <2>1, <2>4, <2>5
  <1>5. CASE WorkerRead(t)
    <2>1. /\ UNCHANGED <<doc, chunks, qdrant, req, faults, staged>>
          /\ task[t].pc = "read"
          /\ task'[t].pc \in {"fail", "upsert"}
      BY <1>5 DEF WorkerRead, TypeInv, TypeOK, TaskRun
    <2>2. WorkerMoves(t)
      BY <1>5 DEF WorkerRead, WorkerMoves, TypeInv, TypeOK, TaskRun
    <2>4. Progress(d, t)' /\ TrueOutcome(d)'
      BY <1>2, <2>1, <2>2 DEF WorkerMoves, Progress, TrueOutcome, Ended
    <2>5. OwnBatches(d)' /\ RowsBacked(d)'
      BY <1>2, <2>1, <2>2 DEF WorkerMoves, OwnBatches, RowsBacked, Purged
    <2>. QED  BY <1>3, <2>1, <2>2, <2>4, <2>5
  <1>6. CASE UpsertPoints(t)
    <2>1. /\ UNCHANGED <<doc, chunks, req, faults, staged>>
          /\ task[t].pc = "upsert"
          /\ task'[t].pc = IF task[t].inline THEN "index" ELSE "delete"
      BY <1>6, TaskGotoKeeps DEF UpsertPoints, TaskPc
    <2>2. WorkerMoves(t)
      BY <1>6, TaskGotoKeeps DEF UpsertPoints, WritePoints, WorkerMoves, TaskPc, TypeInv, TypeOK
    <2>3. qdrant'[d] = qdrant[d] \cup {BatchOf(t)}
      BY <1>2, <1>6 DEF UpsertPoints, WritePoints, TypeInv, TypeOK
    <2>4. Progress(d, t)' /\ TrueOutcome(d)'
      BY <1>2, <2>1, <2>2, <2>3 DEF WorkerMoves, Progress, TrueOutcome, Ended, Backed, Purged
    <2>5. OwnBatches(d)'
      BY <1>2, <2>1, <2>2, <2>3, OwnBatch DEF WorkerMoves, OwnBatches
    <2>6. RowsBacked(d)'
      BY <2>3 DEF RowsBacked
    <2>. QED  BY <1>3, <2>1, <2>2, <2>4, <2>5, <2>6
  <1>7. CASE DeleteOldChunks(t)
    <2>1. /\ UNCHANGED <<doc, chunks, qdrant, req, faults, staged>>
          /\ task[t].pc = "delete"
          /\ task'[t].pc = "insert"
          /\ task'[t].stale = chunks[d]
      BY <1>7 DEF DeleteOldChunks, TypeInv, TypeOK, TaskRun
    <2>2. WorkerMoves(t)
      BY <1>7 DEF DeleteOldChunks, WorkerMoves, TypeInv, TypeOK, TaskRun
    <2>4. Progress(d, t)' /\ TrueOutcome(d)'
      BY <1>2, <2>1, <2>2 DEF WorkerMoves, Progress, TrueOutcome, Ended, Purged
    <2>5. OwnBatches(d)' /\ RowsBacked(d)'
      BY <1>2, <2>1, <2>2 DEF WorkerMoves, OwnBatches, RowsBacked, Purged
    <2>. QED  BY <1>3, <2>1, <2>2, <2>4, <2>5
  <1>8. CASE InsertChunks(t)
    <2>1. /\ UNCHANGED <<doc, qdrant, req, faults, staged>>
          /\ task[t].pc = "insert"
          /\ task'[t].pc = "index"
      BY <1>8, TaskGotoKeeps DEF InsertChunks, TaskPc
    <2>2. WorkerMoves(t)
      BY <1>8, TaskGotoKeeps DEF InsertChunks, WorkerMoves, TaskPc, TypeInv, TypeOK
    <2>3. chunks'[d] = {BatchOf(t)}
      BY <1>2, <1>8 DEF InsertChunks, TypeInv, TypeOK, Progress
    <2>4. Progress(d, t)' /\ TrueOutcome(d)'
      BY <1>2, <2>1, <2>2, <2>3 DEF WorkerMoves, Progress, TrueOutcome, Ended, Backed, Purged
    <2>5. OwnBatches(d)'
      BY <1>2, <2>1, <2>2, <2>3, OwnBatch DEF WorkerMoves, OwnBatches
    <2>6. RowsBacked(d)'
      BY <1>2, <2>1, <2>3 DEF RowsBacked, Progress, Purged
    <2>. QED  BY <1>3, <2>1, <2>2, <2>4, <2>5, <2>6
  <1>9. CASE InsertFails(t)
    <2>1. /\ UNCHANGED <<doc, chunks, qdrant, req, faults, staged>>
          /\ task[t].pc = "insert"
          /\ task'[t].pc = "compensate"
      BY <1>9, TaskGotoKeeps DEF InsertFails, TaskPc
    <2>2. WorkerMoves(t)
      BY <1>9, TaskGotoKeeps DEF InsertFails, WorkerMoves, TaskPc
    <2>4. Progress(d, t)' /\ TrueOutcome(d)'
      BY <1>2, <2>1, <2>2 DEF WorkerMoves, Progress, TrueOutcome, Ended
    <2>5. OwnBatches(d)' /\ RowsBacked(d)'
      BY <1>2, <2>1, <2>2 DEF WorkerMoves, OwnBatches, RowsBacked, Purged
    <2>. QED  BY <1>3, <2>1, <2>2, <2>4, <2>5
  <1>10. CASE Compensate(t)
    <2>1. /\ UNCHANGED <<doc, chunks, req, staged>>
          /\ task[t].pc = "compensate"
          /\ task'[t].pc = "fail"
      BY <1>10, TaskGotoKeeps DEF Compensate, TaskPc
    <2>2. WorkerMoves(t)
      BY <1>10, TaskGotoKeeps DEF Compensate, Fault, WorkerMoves, TaskPc, TypeInv, TypeOK
    <2>3. /\ qdrant'[d] \in {{}, qdrant[d]}
          /\ faults' = 0 => qdrant'[d] = {}
      BY <1>2, <1>10 DEF Compensate, Fault, TypeInv, TypeOK
    <2>4. Progress(d, t)' /\ TrueOutcome(d)'
      BY <1>2, <2>1, <2>2, <2>3 DEF WorkerMoves, Progress, TrueOutcome, Ended
    <2>5. OwnBatches(d)' /\ RowsBacked(d)'
      BY <1>2, <2>1, <2>2, <2>3 DEF WorkerMoves, OwnBatches, RowsBacked, Purged, Progress
    <2>. QED  BY <1>3, <2>1, <2>2, <2>4, <2>5
  <1>11. CASE MarkIndexed(t)
    <2>1. /\ UNCHANGED <<chunks, qdrant, req, staged, faults>>
          /\ task[t].pc = "index"
          /\ task'[t].pc = IF task[t].inline THEN "done" ELSE "unstage"
      BY <1>11, TaskGotoKeeps DEF MarkIndexed, TaskPc
    <2>2. WorkerMoves(t)
      BY <1>2, <1>11, TaskGotoKeeps, SetStatusKeeps
         DEF MarkIndexed, WorkerMoves, TaskPc, Status
    <2>3. IF Live(d) THEN doc'[d].status = "INDEXED"
                     ELSE doc'[d].status = doc[d].status
      BY <1>2, <1>11, SetStatusKeeps DEF MarkIndexed, Status
    <2>4. Progress(d, t)'
      BY <1>2, <2>1, <2>2, <2>3 DEF WorkerMoves, Progress, Settled, Live
    <2>5. TrueOutcome(d)'
      BY <1>2, <2>1, <2>2, <2>3
         DEF WorkerMoves, Progress, TrueOutcome, Ended, Backed, Purged
    <2>6. OwnBatches(d)' /\ RowsBacked(d)'
      BY <1>2, <2>1, <2>2 DEF WorkerMoves, OwnBatches, RowsBacked, Purged
    <2>. QED  BY <1>3, <2>1, <2>2, <2>4, <2>5, <2>6
  <1>12. CASE MarkFailed(t)
    <2>1. /\ UNCHANGED <<chunks, qdrant, req, staged, faults>>
          /\ task[t].pc = "fail"
          /\ task'[t].pc = "unstage"
      BY <1>12, TaskGotoKeeps DEF MarkFailed, TaskPc
    <2>2. WorkerMoves(t)
      BY <1>2, <1>12, TaskGotoKeeps, SetStatusKeeps
         DEF MarkFailed, WorkerMoves, TaskPc, Status
    <2>3. IF Live(d) THEN doc'[d].status = "FAILED"
                     ELSE doc'[d].status = doc[d].status
      BY <1>2, <1>12, SetStatusKeeps DEF MarkFailed, Status
    <2>4. Progress(d, t)'
      BY <1>2, <2>1, <2>2, <2>3 DEF WorkerMoves, Progress, Settled, Live
    <2>5. TrueOutcome(d)'
      BY <1>2, <2>1, <2>2, <2>3 DEF WorkerMoves, Progress, TrueOutcome, Ended
    <2>6. OwnBatches(d)' /\ RowsBacked(d)'
      BY <1>2, <2>1, <2>2 DEF WorkerMoves, OwnBatches, RowsBacked, Purged
    <2>. QED  BY <1>3, <2>1, <2>2, <2>4, <2>5, <2>6
  <1>13. CASE Unstage(t)
    <2>1. /\ UNCHANGED <<doc, chunks, qdrant, req, faults>>
          /\ task[t].pc = "unstage"
          /\ task'[t].pc = "done"
      BY <1>13, TaskGotoKeeps DEF Unstage, TaskPc
    <2>2. WorkerMoves(t)
      BY <1>2, <1>13, TaskGotoKeeps DEF Unstage, WorkerMoves, TaskPc, TypeInv, TypeOK
    <2>4. Progress(d, t)'
      BY <1>2, <2>1, <2>2 DEF WorkerMoves, Progress
    <2>5. TrueOutcome(d)'
      BY <1>2, <2>1, <2>2 DEF WorkerMoves, TrueOutcome, Ended, Backed, Purged
    <2>6. OwnBatches(d)' /\ RowsBacked(d)'
      BY <1>2, <2>1, <2>2 DEF WorkerMoves, OwnBatches, RowsBacked, Purged
    <2>. QED  BY <1>3, <2>1, <2>2, <2>4, <2>5, <2>6
  <1>. QED
    BY <1>4, <1>5, <1>6, <1>7, <1>8, <1>9, <1>10, <1>11, <1>12, <1>13 DEF WorkerStep

-----------------------------------------------------------------------------
(* Requests.                                                               *)

\* A step of handler r works on its own document, and starts no ingestion.
HandlerMoves(r) ==
    /\ task' = task
    /\ faults' = 0 => faults = 0
    /\ \A q \in Request :
          /\ req'[q].doc = req[q].doc
          /\ req'[q].op = req[q].op
          /\ req'[q].content = req[q].content
          /\ q # r => req'[q].pc = req[q].pc
    /\ \A e \in Doc :
          /\ doc'[e].hash = doc[e].hash
          /\ Born(e)' <=> Born(e)
          /\ \/ staged'[e] \in {staged[e], None}
             \/ req[r].pc = "stage" /\ req[r].doc = e /\ staged'[e] = req[r].content
          /\ e # req[r].doc => /\ doc'[e].status = doc[e].status
                               /\ doc'[e].state = doc[e].state
                               /\ chunks'[e] = chunks[e]
                               /\ qdrant'[e] = qdrant[e]

\* The next step of a handler is one of its own endpoint.
OwnPath(r) ==
    /\ req[r].pc # "idle" /\ req'[r].pc \notin {"idle", "stage"}
    /\ req'[r].pc = "enqueue" => req[r].pc = "stage"
    /\ req'[r].pc \in {"staged", "row"} => req[r].op = "delete"
    /\ req'[r].pc = "status" => req[r].op = "reindex"

\* Every endpoint but upload acts on a document that exists; so only that
\* document is at stake.
LEMMA HandlerFrame ==
    ASSUME TypeInv, LifeInv, NEW r \in Request, HandlerMoves(r), OwnPath(r),
           NEW d \in Doc, req[r].doc = d,
           OwnBatches(d)', TrueOutcome(d)', RowsBacked(d)',
           doc'[d].status = doc[d].status \/ doc'[d].status = "PROCESSING",
           \A t \in Task : task[t].doc = d => Progress(d, t)'
    PROVE  LifeInv'
  <1>. USE DEF LifeInv, HandlerMoves, OwnPath
  <1>0. \A e \in Doc : Purged(e)' <=> Purged(e)
    BY DEF Purged
  <1>1. UnbornIsUntouched'
    BY DEF UnbornIsUntouched
  <1>2. RequestsInOrder'
    <2>. SUFFICES ASSUME NEW q \in Request
                  PROVE  /\ req'[q].pc = "idle" => req'[q].doc = None
                         /\ req'[q].pc \in {"stage", "enqueue"} =>
                               /\ req'[q].op = "upload"
                               /\ req'[q].content = doc'[req'[q].doc].hash
                         /\ req'[q].pc \in {"staged", "row"} => req'[q].op = "delete"
                         /\ req'[q].pc = "status" => req'[q].op = "reindex"
      BY DEF RequestsInOrder
    <2>. QED  BY DEF RequestsInOrder, TypeInv, RequestsCarry
  <1>3. OneUpload' /\ OneIngestion'
    BY DEF OneUpload, OneIngestion
  <1>4. BytesAgree'
    BY DEF BytesAgree, RequestsInOrder
  <1>5. IngestionsInOrder'
    <2>. SUFFICES ASSUME NEW u \in Task, NEW e \in Doc, task[u].doc = e, e # d
                  PROVE  Progress(e, u)'
      BY DEF IngestionsInOrder
    <2>1. Progress(e, u)
      BY DEF IngestionsInOrder
    <2>. QED
      BY <1>0, <2>1 DEF Progress, Backed, Settled, Live
  <1>6. StoresInOrder'
    <2>. SUFFICES ASSUME NEW e \in Doc, e # d
                  PROVE  (OwnBatches(e) /\ TrueOutcome(e) /\ RowsBacked(e))'
      BY DEF StoresInOrder
    <2>1. OwnBatches(e)' /\ RowsBacked(e)'
      BY <1>0 DEF StoresInOrder, OwnBatches, RowsBacked
    <2>2. TrueOutcome(e)'
      BY <1>0 DEF StoresInOrder, TrueOutcome, Backed
    <2>. QED  BY <2>1, <2>2
  <1>. QED  BY <1>1, <1>2, <1>3, <1>4, <1>5, <1>6

\* Emptying stores of a document whose purge was asked for breaks nothing
\* (delete_document, reindex_document).
LEMMA PurgeKeeps ==
    ASSUME TypeInv, LifeInv, NEW r \in Request, HandlerMoves(r), OwnPath(r),
           NEW d \in Doc, req[r].doc = d, req[r].op \in {"delete", "reindex"},
           qdrant'[d] \in {{}, qdrant[d]}, chunks'[d] \in {{}, chunks[d]},
           doc'[d].status \in {doc[d].status, "PROCESSING"}
    PROVE  LifeInv'
  <1>1. Purged(d) /\ Purged(d)'
    BY DEF Purged, HandlerMoves
  <1>2. OwnBatches(d) /\ TrueOutcome(d)
    BY DEF LifeInv, StoresInOrder
  <1>3. OwnBatches(d)' /\ RowsBacked(d)'
    BY <1>1, <1>2 DEF HandlerMoves, OwnBatches, RowsBacked
  <1>4. TrueOutcome(d)'
    BY <1>1, <1>2 DEF HandlerMoves, TrueOutcome
  <1>5. ASSUME NEW t \in Task, task[t].doc = d PROVE Progress(d, t)'
    <2>1. Progress(d, t)
      BY <1>5 DEF LifeInv, IngestionsInOrder
    <2>. QED  BY <1>1, <2>1 DEF HandlerMoves, Progress
  <1>. QED  BY <1>3, <1>4, <1>5, HandlerFrame

\* Relabelling neither adds nor removes a batch, nor changes what it is of.
LEMMA RelabelKeeps ==
    ASSUME NEW S \in SUBSET Batch, NEW a
    PROVE  /\ Relabel(S, a) = {} <=> S = {}
           /\ \A b \in Relabel(S, a) :
                 \E c \in S : b.task = c.task /\ b.content = c.content
  BY DEF Relabel, Batch

\* A change of the access fields of the batches of a document breaks
\* nothing (update_document).
LEMMA UpdateKeeps ==
    ASSUME TypeInv, LifeInv, NEW r \in Request, HandlerMoves(r), OwnPath(r),
           NEW d \in Doc, req[r].doc = d, NEW a,
           qdrant'[d] \in {qdrant[d], Relabel(qdrant[d], a)},
           chunks'[d] \in {chunks[d], Relabel(chunks[d], a)},
           doc'[d].status = doc[d].status, doc'[d].state = doc[d].state
    PROVE  LifeInv'
  <1>0. qdrant[d] \in SUBSET Batch /\ chunks[d] \in SUBSET Batch
    BY DEF TypeInv, TypeOK
  <1>1. Purged(d)' <=> Purged(d)
    BY DEF Purged, HandlerMoves
  <1>2. OwnBatches(d) /\ TrueOutcome(d) /\ RowsBacked(d)
    BY DEF LifeInv, StoresInOrder
  <1>3. (qdrant'[d] = {} <=> qdrant[d] = {}) /\ (chunks'[d] = {} <=> chunks[d] = {})
    BY <1>0, RelabelKeeps
  <1>4. OwnBatches(d)'
    <2>1. ASSUME NEW b \in qdrant'[d] \cup chunks'[d]
          PROVE  \E c \in qdrant[d] \cup chunks[d] :
                    b.task = c.task /\ b.content = c.content
      BY <1>0, <2>1, RelabelKeeps
    <2>. QED  BY <1>2, <2>1 DEF HandlerMoves, OwnBatches
  <1>5. TrueOutcome(d)' /\ RowsBacked(d)'
    BY <1>1, <1>2, <1>3 DEF HandlerMoves, TrueOutcome, Backed, RowsBacked
  <1>6. ASSUME NEW t \in Task, task[t].doc = d PROVE Progress(d, t)'
    <2>1. Progress(d, t)
      BY <1>6 DEF LifeInv, IngestionsInOrder
    <2>. QED
      BY <1>1, <1>3, <2>1 DEF HandlerMoves, Progress, Backed, Settled, Live
  <1>. QED  BY <1>4, <1>5, <1>6, HandlerFrame

\* The one dispatch of an upload: nothing was ingested of this document.
LEMMA DispatchLife ==
    ASSUME TypeInv, LifeInv, NEW r \in Request, NEW t \in Task,
           NEW c \in Content \cup {None}, NEW inline \in BOOLEAN,
           req[r].pc = "enqueue", c # None => c = req[r].content,
           Dispatch(t, req[r].doc, req[r].acl, c, inline), ReqGoto(r, "done"),
           UNCHANGED <<doc, chunks, qdrant, staged>>,
           faults' = 0 => faults = 0
    PROVE  LifeInv'
  <1>. USE DEF LifeInv
  <1>0. PICK d \in Doc : d = req[r].doc
    BY DEF TypeInv, RequestsCarry
  <1>1. /\ task[t].pc = "idle"
        /\ task'[t].doc = d /\ task'[t].inline = inline /\ task'[t].content = c
        /\ task'[t].pc = IF inline THEN "upsert" ELSE "queued"
        /\ \A u \in Task : u # t => task'[u] = task[u]
    BY <1>0 DEF Dispatch, TypeInv, TypeOK
  <1>2. /\ req'[r].pc = "done"
        /\ \A q \in Request :
              /\ req'[q].doc = req[q].doc
              /\ req'[q].op = req[q].op
              /\ req'[q].content = req[q].content
              /\ q # r => req'[q].pc = req[q].pc
    BY ReqGotoKeeps DEF ReqPc
  <1>3. \A e \in Doc : Purged(e)' <=> Purged(e)
    BY <1>2 DEF Purged
  <1>4. /\ \A u \in Task : task[u].doc # d
        /\ req[r].content = doc[d].hash
        /\ Born(d)
    BY <1>0 DEF OneUpload, RequestsInOrder, UnbornIsUntouched
  <1>5. \A e \in Doc : OwnBatches(e) /\ TrueOutcome(e) /\ RowsBacked(e)
    BY DEF StoresInOrder
  <1>6. qdrant[d] = {} /\ chunks[d] = {}
    BY <1>4, <1>5 DEF OwnBatches
  <1>7. UnbornIsUntouched'
    BY <1>1, <1>2, <1>4 DEF UnbornIsUntouched, Born
  <1>8. RequestsInOrder'
    BY <1>2 DEF RequestsInOrder
  <1>9. OneUpload'
    BY <1>0, <1>1, <1>2 DEF OneUpload
  <1>10. OneIngestion'
    BY <1>1, <1>4 DEF OneIngestion
  <1>11. BytesAgree'
    BY <1>1, <1>4 DEF BytesAgree
  <1>12. IngestionsInOrder'
    <2>1. Progress(d, t)'
      BY <1>1, <1>6 DEF Progress
    <2>2. ASSUME NEW u \in Task, u # t, NEW e \in Doc, task[u].doc = e
          PROVE  Progress(e, u)'
      <3>1. Progress(e, u) /\ task'[u] = task[u]
        BY <1>1, <2>2 DEF IngestionsInOrder
      <3>. QED  BY <1>3, <3>1 DEF Progress, Backed, Settled, Live
    <2>. QED  BY <1>1, <2>1, <2>2 DEF IngestionsInOrder
  <1>13. StoresInOrder'
    <2>. SUFFICES ASSUME NEW e \in Doc
                  PROVE  (OwnBatches(e) /\ TrueOutcome(e) /\ RowsBacked(e))'
      BY DEF StoresInOrder
    <2>0. task[t].doc = None
      BY <1>1 DEF OneIngestion
    <2>1. OwnBatches(e)' /\ RowsBacked(e)'
      BY <1>1, <1>3, <1>5, <2>0, ConstantsAssumption DEF OwnBatches, RowsBacked
    <2>2. TrueOutcome(e)'
      BY <1>1, <1>3, <1>5, <2>0, ConstantsAssumption DEF TrueOutcome, Backed
    <2>. QED  BY <2>1, <2>2
  <1>. QED  BY <1>7, <1>8, <1>9, <1>10, <1>11, <1>12, <1>13

\* The first step of a request keeps the invariant.
LEMMA ArriveLife ==
    ASSUME TypeInv, LifeInv, NEW r \in Request, NEW d \in Doc, Arrive(r, d)
    PROVE  LifeInv'
  <1>. USE DEF LifeInv
  <1>1. \A e \in Doc : OwnBatches(e) /\ TrueOutcome(e) /\ RowsBacked(e)
    BY DEF StoresInOrder
  <1>2. ASSUME NEW a \in Acl, NEW c \in Content, UploadCreate(r, d, a, c)
        PROVE  LifeInv'
    <2>1. /\ UNCHANGED <<chunks, qdrant, staged, task, faults>>
          /\ ~Born(d) /\ req[r].pc = "idle"
          /\ doc'[d].state = "live" /\ doc'[d].status = "PENDING"
          /\ doc'[d].hash = c
          /\ \A e \in Doc : e # d => doc'[e] = doc[e]
          /\ req'[r].pc = "stage" /\ req'[r].doc = d /\ req'[r].op = "upload"
          /\ req'[r].content = c
          /\ \A q \in Request : q # r => req'[q] = req[q]
      BY <1>2 DEF UploadCreate, Born, TypeInv, TypeOK
    <2>2. /\ \A u \in Task : task[u].doc # d
          /\ \A q \in Request : req[q].doc # d
          /\ staged[d] = None
      BY <2>1 DEF UnbornIsUntouched
    <2>3. qdrant[d] = {} /\ chunks[d] = {} /\ req[r].doc = None
      BY <1>1, <2>1, <2>2 DEF OwnBatches, RequestsInOrder
    <2>4. \A e \in Doc : Purged(e)' <=> Purged(e)
      BY <2>1, <2>3, ConstantsAssumption DEF Purged
    <2>5. UnbornIsUntouched' /\ OneUpload' /\ OneIngestion'
      BY <2>1, <2>2 DEF UnbornIsUntouched, Born, OneUpload, OneIngestion
    <2>6. RequestsInOrder'
      BY <2>1, <2>2 DEF RequestsInOrder, TypeInv, RequestsCarry
    <2>7. BytesAgree'
      BY <2>1, <2>2 DEF BytesAgree
    <2>8. IngestionsInOrder'
      <3>. SUFFICES ASSUME NEW u \in Task, NEW e \in Doc, task[u].doc = e
                    PROVE  Progress(e, u)'
        BY <2>1 DEF IngestionsInOrder
      <3>1. Progress(e, u) /\ e # d
        BY <2>2 DEF IngestionsInOrder
      <3>. QED  BY <2>1, <2>4, <3>1 DEF Progress, Backed, Settled, Live
    <2>9. StoresInOrder'
      <3>. SUFFICES ASSUME NEW e \in Doc
                    PROVE  (OwnBatches(e) /\ TrueOutcome(e) /\ RowsBacked(e))'
        BY DEF StoresInOrder
      <3>1. CASE e = d
        BY <2>1, <2>3, <3>1 DEF OwnBatches, TrueOutcome, RowsBacked
      <3>2. CASE e # d
        BY <1>1, <2>1, <2>4, <3>2 DEF OwnBatches, TrueOutcome, RowsBacked, Backed
      <3>. QED  BY <3>1, <3>2
    <2>. QED  BY <2>5, <2>6, <2>7, <2>8, <2>9
  <1>3. ASSUME /\ UNCHANGED <<chunks, qdrant, staged, task, faults>>
               /\ \A e \in Doc : /\ doc'[e].state = doc[e].state
                                 /\ doc'[e].status = doc[e].status
                                 /\ doc'[e].hash = doc[e].hash
               /\ Born(d) /\ req[r].pc = "idle"
               /\ req'[r].pc = "vectors" /\ req'[r].doc = d
               /\ \A q \in Request : q # r => req'[q] = req[q]
        PROVE  LifeInv'
    <2>1. req[r].doc = None
      BY <1>3 DEF RequestsInOrder
    <2>2. \A e \in Doc : Purged(e) => Purged(e)'
      BY <1>3, <2>1, ConstantsAssumption DEF Purged
    <2>3. UnbornIsUntouched'
      BY <1>3 DEF UnbornIsUntouched, Born
    <2>4. OneUpload' /\ OneIngestion' /\ BytesAgree'
      BY <1>3 DEF OneUpload, OneIngestion, BytesAgree
    <2>5. RequestsInOrder'
      BY <1>3 DEF RequestsInOrder, TypeInv, RequestsCarry
    <2>6. IngestionsInOrder'
      <3>. SUFFICES ASSUME NEW u \in Task, NEW e \in Doc, task[u].doc = e
                    PROVE  Progress(e, u)'
        BY <1>3 DEF IngestionsInOrder
      <3>1. Progress(e, u)
        BY DEF IngestionsInOrder
      <3>. QED  BY <1>3, <2>2, <3>1 DEF Progress, Backed, Settled, Live
    <2>7. StoresInOrder'
      BY <1>1, <1>3, <2>2
         DEF StoresInOrder, OwnBatches, TrueOutcome, RowsBacked, Backed
    <2>. QED  BY <2>3, <2>4, <2>5, <2>6, <2>7
  <1>4. ASSUME NEW op \in Ops, PurgeStart(r, d, op) PROVE LifeInv'
    BY <1>3, <1>4 DEF PurgeStart, Live, Born, TypeInv, TypeOK
  <1>5. ASSUME NEW a \in Acl, UpdateRow(r, d, a) PROVE LifeInv'
    BY <1>3, <1>5 DEF UpdateRow, Live, Born, TypeInv, TypeOK, DocRow
  <1>. QED  BY <1>2, <1>4, <1>5 DEF Arrive

\* So does every further step of a handler.
LEMMA HandlerStepLife ==
    ASSUME TypeInv, LifeInv, NEW r \in Request, HandlerStep(r)
    PROVE  LifeInv'
  <1>1. req[r].pc # "idle"
    BY DEF HandlerStep, UploadStage, UploadEnqueue, PurgeVectors, PurgeChunks,
           DeleteStaged, DeleteRow, ReindexStatus, UpdateVectors, UpdateChunks
  <1>2. PICK d \in Doc : d = req[r].doc
    BY <1>1 DEF TypeInv, RequestsCarry
  <1>3. /\ OwnBatches(d) /\ TrueOutcome(d) /\ RowsBacked(d)
        /\ \A t \in Task : task[t].doc = d => Progress(d, t)
    BY DEF LifeInv, StoresInOrder, IngestionsInOrder
  <1>4. CASE UploadStage(r)
    <2>1. HandlerMoves(r) /\ OwnPath(r)
      BY <1>2, <1>4, ReqGotoKeeps
         DEF UploadStage, HandlerMoves, OwnPath, ReqPc, Born, TypeInv, TypeOK
    <2>2. UNCHANGED <<doc, chunks, qdrant, task, faults>>
      BY <1>4 DEF UploadStage
    <2>3. Purged(d)' <=> Purged(d)
      BY <2>1 DEF HandlerMoves, Purged
    <2>4. OwnBatches(d)' /\ TrueOutcome(d)' /\ RowsBacked(d)'
      BY <1>3, <2>2, <2>3 DEF OwnBatches, TrueOutcome, RowsBacked, Backed
    <2>5. \A t \in Task : task[t].doc = d => Progress(d, t)'
      BY <1>3, <2>2, <2>3 DEF Progress, Backed, Settled, Live
    <2>. QED  BY <1>2, <2>1, <2>2, <2>4, <2>5, HandlerFrame
  <1>5. ASSUME NEW t \in Task, UploadEnqueue(r, t) PROVE LifeInv'
    BY <1>5, DispatchLife DEF UploadEnqueue
  <1>6. CASE PurgeVectors(r)
    <2>1. HandlerMoves(r) /\ OwnPath(r)
      BY <1>2, <1>6, ReqGotoKeeps
         DEF PurgeVectors, Fault, HandlerMoves, OwnPath, ReqPc, Born, TypeInv, TypeOK
    <2>2. qdrant'[d] \in {{}, qdrant[d]}
      BY <1>2, <1>6 DEF PurgeVectors, TypeInv, TypeOK
    <2>. QED  BY <1>2, <1>6, <2>1, <2>2, PurgeKeeps DEF PurgeVectors
  <1>7. CASE PurgeChunks(r)
    <2>1. HandlerMoves(r) /\ OwnPath(r)
      BY <1>2, <1>7, ReqGotoKeeps
         DEF PurgeChunks, HandlerMoves, OwnPath, ReqPc, Born, TypeInv, TypeOK
    <2>2. chunks'[d] = {}
      BY <1>2, <1>7 DEF PurgeChunks, TypeInv, TypeOK
    <2>. QED  BY <1>2, <1>7, <2>1, <2>2, PurgeKeeps DEF PurgeChunks
  <1>8. CASE DeleteStaged(r)
    <2>1. HandlerMoves(r) /\ OwnPath(r) /\ req[r].op = "delete"
      BY <1>2, <1>8, ReqGotoKeeps
         DEF DeleteStaged, HandlerMoves, OwnPath, ReqPc, Born, TypeInv, TypeOK,
             LifeInv, RequestsInOrder
    <2>. QED  BY <1>2, <1>8, <2>1, PurgeKeeps DEF DeleteStaged
  <1>9. CASE DeleteRow(r)
    <2>1. HandlerMoves(r) /\ OwnPath(r) /\ req[r].op = "delete"
      BY <1>2, <1>9, ReqGotoKeeps
         DEF DeleteRow, DropRow, Live, HandlerMoves, OwnPath, ReqPc, Born,
             TypeInv, TypeOK, DocRow, LifeInv, RequestsInOrder
    <2>2. /\ chunks'[d] \in {{}, chunks[d]}
          /\ doc'[d].status = doc[d].status
      BY <1>2, <1>9 DEF DeleteRow, DropRow, TypeInv, TypeOK, DocRow
    <2>. QED  BY <1>2, <1>9, <2>1, <2>2, PurgeKeeps DEF DeleteRow
  <1>10. CASE ReindexStatus(r)
    <2>1. HandlerMoves(r) /\ OwnPath(r) /\ req[r].op = "reindex"
      BY <1>2, <1>10, ReqGotoKeeps, SetStatusKeeps
         DEF ReindexStatus, HandlerMoves, OwnPath, ReqPc, Born, Status,
             LifeInv, RequestsInOrder
    <2>2. doc'[d].status \in {doc[d].status, "PROCESSING"}
      BY <1>2, <1>10, SetStatusKeeps DEF ReindexStatus, Status
    <2>. QED  BY <1>2, <1>10, <2>1, <2>2, PurgeKeeps DEF ReindexStatus
  <1>11. CASE UpdateVectors(r)
    <2>1. HandlerMoves(r) /\ OwnPath(r)
      BY <1>2, <1>11, ReqGotoKeeps
         DEF UpdateVectors, Fault, HandlerMoves, OwnPath, ReqPc, Born, TypeInv, TypeOK
    <2>2. qdrant'[d] \in {qdrant[d], Relabel(qdrant[d], req[r].acl)}
      BY <1>2, <1>11 DEF UpdateVectors, TypeInv, TypeOK
    <2>. QED  BY <1>2, <1>11, <2>1, <2>2, UpdateKeeps DEF UpdateVectors
  <1>12. CASE UpdateChunks(r)
    <2>1. HandlerMoves(r) /\ OwnPath(r)
      BY <1>2, <1>12, ReqGotoKeeps
         DEF UpdateChunks, HandlerMoves, OwnPath, ReqPc, Born, TypeInv, TypeOK
    <2>2. chunks'[d] \in {chunks[d], Relabel(chunks[d], req[r].acl)}
      BY <1>2, <1>12 DEF UpdateChunks, TypeInv, TypeOK
    <2>. QED  BY <1>2, <1>12, <2>1, <2>2, UpdateKeeps DEF UpdateChunks
  <1>. QED
    BY <1>4, <1>5, <1>6, <1>7, <1>8, <1>9, <1>10, <1>11, <1>12 DEF HandlerStep

\* And every error.
LEMMA ErrorLife ==
    ASSUME TypeInv, LifeInv, Error
    PROVE  LifeInv'
  <1>1. ASSUME NEW t \in Task, IngestFails(t) PROVE LifeInv'
    <2>1. /\ UNCHANGED <<doc, chunks, qdrant, req, faults, staged>>
          /\ task[t].pc = "upsert"
          /\ task'[t].pc = IF task[t].inline THEN "lost" ELSE "fail"
      BY <1>1, TaskGotoKeeps DEF IngestFails, Raise, TaskPc
    <2>2. WorkerMoves(t)
      BY <1>1, TaskGotoKeeps DEF IngestFails, Raise, WorkerMoves, TaskPc
    <2>3. PICK d \in Doc : d = task[t].doc
      BY <2>1, TaskArgs
    <2>4. /\ Progress(d, t) /\ OwnBatches(d) /\ TrueOutcome(d) /\ RowsBacked(d)
          /\ doc[d].status \notin {"INDEXED", "FAILED"}
      BY <2>1, <2>3, OwnDocument DEF Ended
    <2>5. Progress(d, t)' /\ TrueOutcome(d)'
      BY <2>1, <2>2, <2>4 DEF WorkerMoves, Progress, TrueOutcome
    <2>6. OwnBatches(d)' /\ RowsBacked(d)'
      BY <2>1, <2>2, <2>4 DEF WorkerMoves, OwnBatches, RowsBacked, Purged
    <2>. QED  BY <2>1, <2>2, <2>3, <2>5, <2>6, WorkerFrame
  <1>2. ASSUME NEW t \in Task, UpsertTimesOut(t) PROVE LifeInv'
    <2>1. /\ UNCHANGED <<doc, chunks, req, staged>>
          /\ faults' # 0
          /\ task[t].pc = "upsert"
          /\ task'[t].pc = IF task[t].inline THEN "lost" ELSE "fail"
      BY <1>2, TaskGotoKeeps DEF UpsertTimesOut, Fault, Raise, TaskPc, TypeInv, TypeOK
    <2>2. WorkerMoves(t)
      BY <1>2, <2>1, TaskGotoKeeps
         DEF UpsertTimesOut, WritePoints, Raise, WorkerMoves, TaskPc, TypeInv, TypeOK
    <2>3. PICK d \in Doc : d = task[t].doc
      BY <2>1, TaskArgs
    <2>4. /\ Progress(d, t) /\ OwnBatches(d) /\ TrueOutcome(d) /\ RowsBacked(d)
          /\ doc[d].status \notin {"INDEXED", "FAILED"}
      BY <2>1, <2>3, OwnDocument DEF Ended
    <2>5. qdrant'[d] = qdrant[d] \cup {BatchOf(t)}
      BY <1>2, <2>3 DEF UpsertTimesOut, WritePoints, TypeInv, TypeOK
    <2>6. Progress(d, t)' /\ TrueOutcome(d)'
      BY <2>1, <2>2, <2>4 DEF WorkerMoves, Progress, TrueOutcome
    <2>7. OwnBatches(d)'
      BY <2>1, <2>2, <2>3, <2>4, <2>5, OwnBatch DEF WorkerMoves, OwnBatches
    <2>8. RowsBacked(d)'
      BY <2>5 DEF RowsBacked
    <2>. QED  BY <2>1, <2>2, <2>3, <2>6, <2>7, <2>8, WorkerFrame
  <1>3. ASSUME NEW t \in Task, WorkerDies(t) PROVE LifeInv'
    <2>1. /\ UNCHANGED <<doc, chunks, qdrant, req, staged>>
          /\ faults' # 0
          /\ task[t].pc # "idle"
          /\ task'[t].pc = "lost"
      BY <1>3, TaskGotoKeeps DEF WorkerDies, Fault, TaskPc, TypeInv, TypeOK
    <2>2. WorkerMoves(t)
      BY <1>3, <2>1, TaskGotoKeeps DEF WorkerDies, WorkerMoves, TaskPc
    <2>3. PICK d \in Doc : d = task[t].doc
      BY <2>1, TaskArgs
    <2>4. Progress(d, t) /\ OwnBatches(d) /\ TrueOutcome(d) /\ RowsBacked(d)
      BY <2>1, <2>3, OwnDocument
    <2>5. Progress(d, t)'
      BY <2>1, <2>2, <2>4 DEF Progress
    <2>6. TrueOutcome(d)'
      BY <2>1, <2>2, <2>4 DEF WorkerMoves, TrueOutcome, Ended, Backed, Purged
    <2>7. OwnBatches(d)' /\ RowsBacked(d)'
      BY <2>1, <2>2, <2>4 DEF WorkerMoves, OwnBatches, RowsBacked, Purged
    <2>. QED  BY <2>1, <2>2, <2>3, <2>5, <2>6, <2>7, WorkerFrame
  <1>4. ASSUME NEW r \in Request, HandlerDies(r) PROVE LifeInv'
    <2>1. /\ UNCHANGED <<doc, chunks, qdrant, task, staged>>
          /\ faults' # 0
          /\ HandlerMoves(r) /\ OwnPath(r)
      BY <1>4, ReqGotoKeeps
         DEF HandlerDies, Fault, HandlerMoves, OwnPath, ReqPc, Born, TypeInv, TypeOK
    <2>2. PICK d \in Doc : d = req[r].doc
      BY <1>4 DEF HandlerDies, TypeInv, RequestsCarry
    <2>3. /\ OwnBatches(d) /\ TrueOutcome(d) /\ RowsBacked(d)
          /\ \A t \in Task : task[t].doc = d => Progress(d, t)
      BY DEF LifeInv, StoresInOrder, IngestionsInOrder
    <2>4. Purged(d)' <=> Purged(d)
      BY <2>1 DEF HandlerMoves, Purged
    <2>5. OwnBatches(d)' /\ TrueOutcome(d)' /\ RowsBacked(d)'
      BY <2>1, <2>3, <2>4 DEF OwnBatches, TrueOutcome, RowsBacked, Backed
    <2>6. \A t \in Task : task[t].doc = d => Progress(d, t)'
      BY <2>1, <2>3, <2>4 DEF Progress, Backed, Settled, Live
    <2>. QED  BY <2>1, <2>2, <2>5, <2>6, HandlerFrame
  <1>5. ASSUME NEW r \in Request, NEW t \in Task, UploadInline(r, t) PROVE LifeInv'
    <2>1. faults' # 0
      BY <1>5 DEF UploadInline, Fault, TypeInv, TypeOK
    <2>. QED
      BY <1>5, <2>1, DispatchLife DEF UploadInline, TypeInv, RequestsCarry
  <1>. QED  BY <1>1, <1>2, <1>3, <1>4, <1>5 DEF Error

\* The initial state satisfies the invariant.
LEMMA InitLife == Init => LifeInv
  BY ConstantsAssumption
     DEF Init, LifeInv, UnbornIsUntouched, Born, RequestsInOrder, OneUpload,
         OneIngestion, BytesAgree, IngestionsInOrder, StoresInOrder, OwnBatches,
         TrueOutcome, RowsBacked

\* Every step keeps it.
LEMMA NextLife == TypeInv /\ LifeInv /\ [Next]_vars => LifeInv'
  <1>. SUFFICES ASSUME TypeInv, LifeInv, [Next]_vars PROVE LifeInv'
    OBVIOUS
  <1>1. CASE UNCHANGED vars
    <2>. USE <1>1 DEF vars, LifeInv
    <2>1. UnbornIsUntouched' /\ RequestsInOrder'
      BY DEF UnbornIsUntouched, Born, RequestsInOrder
    <2>2. OneUpload' /\ OneIngestion' /\ BytesAgree'
      BY DEF OneUpload, OneIngestion, BytesAgree
    <2>3. IngestionsInOrder'
      <3>. SUFFICES ASSUME NEW u \in Task, NEW e \in Doc, task[u].doc = e
                    PROVE  Progress(e, u)'
        BY DEF IngestionsInOrder
      <3>1. Progress(e, u)
        BY DEF IngestionsInOrder
      <3>. QED  BY <3>1 DEF Progress, Backed, Purged, Settled, Live
    <2>4. StoresInOrder'
      BY DEF StoresInOrder, OwnBatches, TrueOutcome, RowsBacked, Backed, Purged
    <2>. QED  BY <2>1, <2>2, <2>3, <2>4
  <1>. QED
    BY <1>1, ArriveLife, HandlerStepLife, WorkerStepLife, ErrorLife
       DEF Next, Step, AtRest

\* Every reachable state is in order.
THEOREM LifeInvariance == Spec => []LifeInv
  BY InitLife, NextLife, TypeInvariance, PTL DEF Spec

-----------------------------------------------------------------------------
(* What follows from it.                                                   *)

\* The batches of a document with one ingestion have one id.
LEMMA OneId ==
    ASSUME LifeInv, NEW d \in Doc, NEW t \in Task, task[t].doc = d,
           NEW S \in SUBSET (qdrant[d] \cup chunks[d])
    PROVE  Ids(S) = IF S = {} THEN {} ELSE {t}
  <1>1. \A b \in S : b.task = t
    BY DEF LifeInv, StoresInOrder, OwnBatches, OneIngestion
  <1>. QED  BY <1>1 DEF Ids

\* An INDEXED document is backed by both stores, whatever crashed, timed out
\* or was compensated on the way (ingest_document).
THEOREM IndexedIsBackedAlways == Spec => []IndexedIsBacked
  <1>1. LifeInv => IndexedIsBacked
    <2>. SUFFICES ASSUME LifeInv, NEW d \in Doc, Live(d),
                         doc[d].status = "INDEXED", ~Purged(d)
                  PROVE  \E t \in Task :
                            /\ task[t].doc = d
                            /\ Ids(qdrant[d]) = {t}
                            /\ Ids(chunks[d]) = IF task[t].inline THEN {} ELSE {t}
                            /\ \A b \in qdrant[d] \cup chunks[d] :
                                  b.content = doc[d].hash
      BY DEF IndexedIsBacked
    <2>1. PICK t \in Task : task[t].doc = d /\ Backed(d, t)
      BY DEF LifeInv, StoresInOrder, TrueOutcome
    <2>2. /\ Ids(qdrant[d]) = {t}
          /\ Ids(chunks[d]) = IF task[t].inline THEN {} ELSE {t}
      BY <2>1, OneId DEF Backed
    <2>3. \A b \in qdrant[d] \cup chunks[d] : b.content = doc[d].hash
      BY DEF LifeInv, StoresInOrder, OwnBatches
    <2>. QED  BY <2>1, <2>2, <2>3
  <1>. QED  BY <1>1, LifeInvariance, PTL

\* Chunk rows never outlive their points (the order of the dual write).
THEOREM RowsHavePointsAlways == Spec => []RowsHavePoints
  <1>1. LifeInv => RowsHavePoints
    <2>. SUFFICES ASSUME LifeInv, NEW d \in Doc, ~Purged(d), chunks[d] # {}
                  PROVE  Ids(chunks[d]) \subseteq Ids(qdrant[d])
      BY DEF RowsHavePoints, Ids
    <2>1. qdrant[d] # {}
      BY DEF LifeInv, StoresInOrder, RowsBacked
    <2>2. PICK t \in Task : task[t].doc = d
      BY <2>1 DEF LifeInv, StoresInOrder, OwnBatches
    <2>. QED  BY <2>1, <2>2, OneId
  <1>. QED  BY <1>1, LifeInvariance, PTL

\* A FAILED document left nothing in either store, unless a call to Qdrant
\* failed silently (the compensation of the dual write).
THEOREM FailedIsCleanAlways == Spec => []FailedIsClean
  <1>1. LifeInv => FailedIsClean
    BY DEF FailedIsClean, LifeInv, StoresInOrder, TrueOutcome
  <1>. QED  BY <1>1, LifeInvariance, PTL

\* A document whose outcome is on record changes its status in the last step
\* of a re-index only.
LEMMA OutcomeStep ==
    ASSUME TypeInv, LifeInv, Next, NEW d \in Doc,
           Settled(d), doc'[d].status # doc[d].status
    PROVE  \E r \in Request : /\ req[r].doc = d
                              /\ req[r].op = "reindex"
                              /\ req[r].pc = "status"
  <1>1. ASSUME NEW t \in Task, WorkerStep(t) PROVE FALSE
    <2>1. CASE WorkerStart(t) \/ MarkIndexed(t) \/ MarkFailed(t)
      <3>1. /\ task[t].pc \in {"queued", "index", "fail"}
            /\ \E s \in Status : SetStatus(task[t].doc, s)
        BY <2>1 DEF WorkerStart, MarkIndexed, MarkFailed, Status
      <3>2. task[t].doc \in Doc /\ task[t].doc # d
        BY <3>1, OwnDocument DEF Settled, Ended
      <3>. QED  BY <3>1, <3>2, SetStatusKeeps
    <2>2. CASE ~(WorkerStart(t) \/ MarkIndexed(t) \/ MarkFailed(t))
      BY <1>1, <2>2
         DEF WorkerStep, WorkerRead, UpsertPoints, DeleteOldChunks, InsertChunks,
             InsertFails, Compensate, Unstage
    <2>. QED  BY <2>1, <2>2
  <1>2. ASSUME NEW r \in Request, HandlerStep(r)
        PROVE  req[r].doc = d /\ req[r].op = "reindex" /\ req[r].pc = "status"
    <2>1. CASE ReindexStatus(r)
      <3>1. req[r].pc = "status" /\ req[r].op = "reindex" /\ req[r].doc \in Doc
        BY <2>1 DEF ReindexStatus, LifeInv, RequestsInOrder, TypeInv, RequestsCarry
      <3>2. SetStatus(req[r].doc, "PROCESSING")
        BY <2>1 DEF ReindexStatus
      <3>. QED  BY <3>1, <3>2, SetStatusKeeps DEF Status
    <2>2. CASE DeleteRow(r)
      BY <2>2 DEF DeleteRow, DropRow, TypeInv, TypeOK, DocRow
    <2>3. CASE ~(ReindexStatus(r) \/ DeleteRow(r))
      BY <1>2, <2>3
         DEF HandlerStep, UploadStage, UploadEnqueue, PurgeVectors, PurgeChunks,
             DeleteStaged, UpdateVectors, UpdateChunks
    <2>. QED  BY <2>1, <2>2, <2>3
  <1>3. ASSUME NEW r \in Request, NEW e \in Doc, Arrive(r, e) PROVE FALSE
    <2>1. ASSUME NEW a \in Acl, NEW c \in Content, UploadCreate(r, e, a, c)
          PROVE  FALSE
      BY <2>1 DEF UploadCreate, TypeInv, TypeOK, Settled, LifeInv,
                  UnbornIsUntouched, Born
    <2>2. ASSUME NEW op \in Ops, PurgeStart(r, e, op) PROVE FALSE
      BY <2>2 DEF PurgeStart
    <2>3. ASSUME NEW a \in Acl, UpdateRow(r, e, a) PROVE FALSE
      BY <2>3 DEF UpdateRow, TypeInv, TypeOK, DocRow
    <2>. QED  BY <1>3, <2>1, <2>2, <2>3 DEF Arrive
  <1>4. CASE Error
    BY <1>4 DEF Error, IngestFails, UpsertTimesOut, WorkerDies, HandlerDies,
                UploadInline
  <1>. QED  BY <1>1, <1>2, <1>3, <1>4 DEF Next, Step, AtRest, vars

\* An outcome, once reported, is withdrawn by a re-index only.
THEOREM OutcomeIsFinalAlways == Spec => OutcomeIsFinal
  <1>1. TypeInv /\ LifeInv /\ [Next]_vars =>
          [\A d \in Doc :
              Settled(d) /\ doc'[d].status # doc[d].status =>
                  \E r \in Request : /\ req[r].doc = d
                                     /\ req[r].op = "reindex"
                                     /\ req[r].pc = "status"]_vars
    BY OutcomeStep
  <1>. QED  BY <1>1, TypeInvariance, LifeInvariance, PTL DEF Spec, OutcomeIsFinal

\* Only an ended ingestion, or a deletion, removes a staged file.
LEMMA StagedStep ==
    ASSUME TypeInv, LifeInv, Next, NEW d \in Doc,
           staged[d] # None, staged'[d] = None
    PROVE  Settled(d) \/ ~Live(d) \/ Purged(d)
  <1>1. ASSUME NEW t \in Task, WorkerStep(t)
        PROVE  Settled(d) \/ ~Live(d) \/ Purged(d)
    <2>1. CASE Unstage(t)
      <3>1. task[t].pc = "unstage" /\ task[t].doc = d
        BY <2>1 DEF Unstage, TypeInv, TypeOK
      <3>. QED  BY <3>1, OwnDocument DEF Progress
    <2>2. CASE ~Unstage(t)
      BY <1>1, <2>2
         DEF WorkerStep, WorkerStart, WorkerRead, UpsertPoints, DeleteOldChunks,
             InsertChunks, InsertFails, Compensate, MarkIndexed, MarkFailed
    <2>. QED  BY <2>1, <2>2
  <1>2. ASSUME NEW r \in Request, HandlerStep(r) PROVE Purged(d)
    <2>1. CASE DeleteStaged(r)
      BY <2>1 DEF DeleteStaged, TypeInv, TypeOK, LifeInv, RequestsInOrder, Purged
    <2>2. CASE UploadStage(r)
      BY <2>2, ConstantsAssumption DEF UploadStage, TypeInv, TypeOK, RequestsCarry
    <2>3. CASE ~(DeleteStaged(r) \/ UploadStage(r))
      BY <1>2, <2>3
         DEF HandlerStep, UploadEnqueue, PurgeVectors, PurgeChunks, DeleteRow,
             ReindexStatus, UpdateVectors, UpdateChunks
    <2>. QED  BY <2>1, <2>2, <2>3
  <1>3. ASSUME NEW r \in Request, NEW e \in Doc, Arrive(r, e) PROVE FALSE
    BY <1>3 DEF Arrive, UploadCreate, PurgeStart, UpdateRow
  <1>4. CASE Error
    BY <1>4 DEF Error, IngestFails, UpsertTimesOut, WorkerDies, HandlerDies,
                UploadInline
  <1>. QED  BY <1>1, <1>2, <1>3, <1>4 DEF Next, Step, AtRest, vars

\* The staged file, the only copy of the bytes, is not removed before the
\* outcome is on record, unless the document is purged.
THEOREM StagedFileKeptAlways == Spec => StagedFileKept
  <1>1. TypeInv /\ LifeInv /\ [Next]_vars =>
          [\A d \in Doc :
              staged[d] # None /\ staged'[d] = None =>
                  Settled(d) \/ ~Live(d) \/ Purged(d)]_vars
    BY StagedStep
  <1>. QED  BY <1>1, TypeInvariance, LifeInvariance, PTL DEF Spec, StagedFileKept

=============================================================================
