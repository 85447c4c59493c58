---------------------------- MODULE Quiet_proofs ----------------------------
(***************************************************************************)
(* What the stores hold when administrators act on quiet documents only    *)
(* and nothing fails silently: the three invariants of the quiet run, for  *)
(* any set of documents, tasks and requests.                               *)
(***************************************************************************)
EXTENDS MCIngestion, Ingestion_proofs

-----------------------------------------------------------------------------
(* The inductive invariant, document by document.                          *)

\* The request was sent by an administrator and is being served.
Administers(r) == Serving(r) /\ req[r].op # "upload"

\* The upload has created the row and not yet sent the message.
Uploads(r) == req[r].pc \in {"stage", "enqueue"}

\* Only the administrator's requests reach the stores from a handler.
RequestsApart ==
    \A r \in Request : req[r].pc \in {"vectors", "chunks"} => req[r].op # "upload"

\* An administrator's request has the document for itself.
Alone(d) ==
    \A r \in Request : req[r].doc = d /\ Administers(r) =>
        /\ \A t \in Task : task[t].doc = d => ~Active(t)
        /\ \A q \in Request : req[q].doc = d /\ Serving(q) => q = r

\* While d is uploaded or ingested it is live, was never purged, and has the
\* access fields the upload and the message carry.
Untroubled(d) ==
    /\ \A t \in Task : task[t].doc = d /\ Active(t) =>
          Live(d) /\ ~Purged(d) /\ ~task[t].inline /\ task[t].acl = doc[d].acl
    /\ \A r \in Request : req[r].doc = d /\ Uploads(r) =>
          Live(d) /\ ~Purged(d) /\ req[r].acl = doc[d].acl

\* A purge has emptied the stores it has passed.
Emptied(d) ==
    \A r \in Request : req[r].doc = d /\ req[r].op \in {"delete", "reindex"} =>
        /\ req[r].pc \in {"chunks", "staged", "row", "status"} => qdrant[d] = {}
        /\ req[r].pc \in {"staged", "row", "status"} => chunks[d] = {}

\* An update of d is at one of these steps.
Relabelling(d, pcs) ==
    \E r \in Request : /\ req[r].doc = d /\ req[r].op = "update"
                       /\ req[r].pc \in pcs

\* Points and rows have the access fields of the document, unless an update
\* has yet to reach them; the update carries the fields of the document.
Labelled(d) ==
    Live(d) =>
        /\ (\A b \in qdrant[d] : b.acl = doc[d].acl) \/ Relabelling(d, {"vectors"})
        /\ \/ \A b \in chunks[d] : b.acl = doc[d].acl
           \/ Relabelling(d, {"vectors", "chunks"})
        /\ \A r \in Request : /\ req[r].doc = d /\ req[r].op = "update"
                              /\ req[r].pc \in {"vectors", "chunks"}
                              => req[r].acl = doc[d].acl

\* d is in both stores or in neither, unless an ingestion or a purge is
\* between the two.
Even(d) == qdrant[d] = {} <=> chunks[d] = {}

Halfway(d) ==
    \/ \E t \in Task : /\ task[t].doc = d
                       /\ task[t].pc \in {"delete", "insert", "compensate"}
    \/ \E r \in Request : /\ req[r].doc = d /\ req[r].pc = "chunks"
                          /\ req[r].op \in {"delete", "reindex"}

\* Nobody works on a deleted document, and nothing is left of it.
GoneIsClean(d) == doc[d].state = "gone" => Quiet(d) /\ qdrant[d] = {}

QuietDoc(d) ==
    /\ Alone(d)
    /\ Untroubled(d)
    /\ Emptied(d)
    /\ Labelled(d)
    /\ Even(d) \/ Halfway(d)
    /\ GoneIsClean(d)

QuietInv == RequestsApart /\ \A d \in Doc : QuietDoc(d)

-----------------------------------------------------------------------------
(* Documents a step does not touch.                                        *)

\* Rows, stores, tasks and requests of d are what they were.
Untouched(d) ==
    /\ doc'[d].state = doc[d].state /\ doc'[d].acl = doc[d].acl
    /\ chunks'[d] = chunks[d] /\ qdrant'[d] = qdrant[d]
    /\ \A t \in Task :
          \/ task'[t] = task[t]
          \/ task[t].doc # d /\ task'[t].doc # d
    /\ \A r \in Request :
          \/ req'[r] = req[r]
          \/ req[r].doc # d /\ req'[r].doc # d

\* Such a document is as much in order as it was.
LEMMA UntouchedKeeps ==
    ASSUME NEW d \in Doc, QuietDoc(d), Untouched(d) PROVE QuietDoc(d)'
  <1>. USE DEF Untouched, QuietDoc
  <1>1. Purged(d)' <=> Purged(d)
    BY DEF Purged
  <1>2. Alone(d)'
    BY DEF Alone, Administers, Serving, Active
  <1>3. Untroubled(d)'
    BY <1>1 DEF Untroubled, Active, Uploads, Live
  <1>4. Emptied(d)'
    BY DEF Emptied
  <1>5. Labelled(d)'
    <2>1. /\ Relabelling(d, {"vectors"}) => Relabelling(d, {"vectors"})'
          /\ Relabelling(d, {"vectors", "chunks"})
                => Relabelling(d, {"vectors", "chunks"})'
      BY DEF Relabelling
    <2>. QED  BY <2>1 DEF Labelled, Live
  <1>6. Even(d)' \/ Halfway(d)'
    BY DEF Even, Halfway
  <1>7. GoneIsClean(d)'
    BY DEF GoneIsClean, Quiet, Active, Serving
  <1>. QED  BY <1>2, <1>3, <1>4, <1>5, <1>6, <1>7

-----------------------------------------------------------------------------
(* Ingestions.                                                             *)

\* Nothing fails silently without a budget of faults.
LEMMA NoFault == ASSUME TypeInv, MaxFaults = 0 PROVE ~Fault /\ faults = 0
  BY ConstantsAssumption DEF TypeInv, TypeOK, Fault

\* A step of ingestion t: what it may do to the stores of its document, and
\* that it does nothing else.
Ingests(t) ==
    LET d == task[t].doc IN
    /\ req' = req
    /\ \A u \in Task : u # t => task'[u] = task[u]
    /\ task'[t].doc = d
    /\ task'[t].inline = task[t].inline
    /\ task'[t].acl = task[t].acl
    /\ \A e \in Doc :
          /\ doc'[e].state = doc[e].state
          /\ doc'[e].acl = doc[e].acl
          /\ e # d => chunks'[e] = chunks[e] /\ qdrant'[e] = qdrant[e]
    /\ \A b \in qdrant'[d] : b \in qdrant[d] \/ b.acl = task[t].acl
    /\ \A b \in chunks'[d] : b \in chunks[d] \/ b.acl = task[t].acl

\* The pcs between the two stores.
Between == {"delete", "insert", "compensate"}

\* A step of an ingestion that does not write the stores enters the part
\* between the two stores only from it.
Passes(t) ==
    LET d == task[t].doc IN
    /\ chunks'[d] = chunks[d] /\ qdrant'[d] = qdrant[d]
    /\ task[t].pc \in Between => task'[t].pc \in Between

\* A task that moves on keeps all its arguments.
LEMMA TaskGotoAll ==
    ASSUME TypeInv, NEW t \in Task, NEW pc \in TaskPc, TaskGoto(t, pc)
    PROVE  /\ task'[t].pc = pc
           /\ task'[t].doc = task[t].doc
           /\ task'[t].inline = task[t].inline
           /\ task'[t].acl = task[t].acl
           /\ \A u \in Task : u # t => task'[u] = task[u]
  BY DEF TypeInv, TypeOK, TaskGoto, TaskRun

\* A new status changes neither the state nor the access fields of a row.
LEMMA SetStatusAll ==
    ASSUME TypeInv, NEW d \in Doc, NEW s \in Status, SetStatus(d, s)
    PROVE  \A e \in Doc : doc'[e].state = doc[e].state /\ doc'[e].acl = doc[e].acl
  BY DEF TypeInv, TypeOK, SetStatus, DocRow

\* Every step of an ingestion, failures included, is one of these.
LEMMA WorkerIngests ==
    ASSUME TypeInv, LifeInv, MaxFaults = 0, NEW t \in Task,
           WorkerStep(t) \/ IngestFails(t)
    PROVE  /\ Active(t) /\ Ingests(t)
           /\ \/ Passes(t)
              \/ task'[t].pc \in Between
              \/ InsertChunks(t) \/ Compensate(t)
              \/ UpsertPoints(t) /\ task[t].inline
  <1>0. Active(t)
    BY DEF Active, WorkerStep, WorkerStart, WorkerRead, UpsertPoints,
           DeleteOldChunks, InsertChunks, InsertFails, Compensate, MarkIndexed,
           MarkFailed, Unstage, IngestFails
  <1>1. task[t].doc \in Doc
    BY <1>0, TaskArgs DEF Active
  <1>2. CASE WorkerStart(t)
    BY <1>0, <1>1, <1>2, TaskGotoAll, SetStatusAll
       DEF WorkerStart, Ingests, Passes, TaskPc, Status, Between
  <1>3. CASE WorkerRead(t)
    BY <1>0, <1>1, <1>3
       DEF WorkerRead, Ingests, Passes, Between, TypeInv, TypeOK, TaskRun
  <1>4. CASE UpsertPoints(t)
    <2>1. \A e \in Doc : qdrant'[e] = IF e = task[t].doc
                                        THEN qdrant[e] \cup {BatchOf(t)}
                                        ELSE qdrant[e]
      BY <1>4 DEF UpsertPoints, WritePoints, TypeInv, TypeOK
    <2>2. BatchOf(t).acl = task[t].acl
      BY DEF BatchOf
    <2>3. /\ \A e \in Doc : e # task[t].doc => qdrant'[e] = qdrant[e]
          /\ \A b \in qdrant'[task[t].doc] :
                b \in qdrant[task[t].doc] \/ b.acl = task[t].acl
      BY <1>1, <2>1, <2>2
    <2>4. /\ req' = req /\ doc' = doc /\ chunks' = chunks
          /\ task[t].inline \/ TaskGoto(t, "delete")
          /\ task[t].inline => TaskGoto(t, "index")
      BY <1>4 DEF UpsertPoints
    <2>5. Ingests(t)
      BY <1>0, <1>1, <2>3, <2>4, TaskGotoAll DEF Ingests, TaskPc
    <2>6. task[t].inline \/ task'[t].pc \in Between
      BY <1>0, <2>4, TaskGotoAll DEF TaskPc, Between
    <2>. QED
      BY <1>0, <1>4, <2>5, <2>6
  <1>5. CASE DeleteOldChunks(t)
    BY <1>0, <1>1, <1>5
       DEF DeleteOldChunks, Ingests, Between, TypeInv, TypeOK, TaskRun
  <1>6. CASE InsertChunks(t)
    <2>1. \A e \in Doc : chunks'[e] = IF e = task[t].doc
                            THEN (chunks[e] \ task[t].stale) \cup {BatchOf(t)}
                            ELSE chunks[e]
      BY <1>6 DEF InsertChunks, TypeInv, TypeOK
    <2>2. BatchOf(t).acl = task[t].acl
      BY DEF BatchOf
    <2>. QED
      BY <1>0, <1>1, <1>6, <2>1, <2>2, TaskGotoAll DEF InsertChunks, Ingests, TaskPc
  <1>7. CASE InsertFails(t)
    BY <1>0, <1>1, <1>7, TaskGotoAll DEF InsertFails, Ingests, Between, TaskPc
  <1>8. CASE Compensate(t)
    <2>1. \A e \in Doc : qdrant'[e] = IF e = task[t].doc THEN {} ELSE qdrant[e]
      BY <1>8, NoFault DEF Compensate, TypeInv, TypeOK
    <2>. QED
      BY <1>0, <1>1, <1>8, <2>1, TaskGotoAll DEF Compensate, Ingests, TaskPc
  <1>9. CASE MarkIndexed(t)
    BY <1>0, <1>1, <1>9, TaskGotoAll, SetStatusAll
       DEF MarkIndexed, Ingests, Passes, TaskPc, Status, Between
  <1>10. CASE MarkFailed(t)
    BY <1>0, <1>1, <1>10, TaskGotoAll, SetStatusAll
       DEF MarkFailed, Ingests, Passes, TaskPc, Status, Between
  <1>11. CASE Unstage(t)
    BY <1>0, <1>1, <1>11, TaskGotoAll DEF Unstage, Ingests, Passes, TaskPc, Between
  <1>12. CASE IngestFails(t)
    BY <1>0, <1>1, <1>12, TaskGotoAll
       DEF IngestFails, Raise, Ingests, Passes, TaskPc, Between
  <1>. QED
    BY <1>2, <1>3, <1>4, <1>5, <1>6, <1>7, <1>8, <1>9, <1>10, <1>11, <1>12
       DEF WorkerStep

\* An ingestion keeps the invariant: no administrator is at work on its
\* document, and it labels what it writes with the fields of the document.
LEMMA WorkerQuiet ==
    ASSUME TypeInv, LifeInv, LifeInv', QuietInv, MaxFaults = 0, NEW t \in Task,
           WorkerStep(t) \/ IngestFails(t), faults' = 0
    PROVE  QuietInv'
  <1>1. Active(t) /\ Ingests(t)
    BY WorkerIngests
  <1>2. PICK d \in Doc : d = task[t].doc
    BY <1>1, TaskArgs DEF Active
  <1>3. ASSUME NEW e \in Doc, e # d PROVE QuietDoc(e)'
    BY <1>1, <1>2, <1>3, UntouchedKeeps DEF Ingests, Untouched, QuietInv
  <1>4. QuietDoc(d)
    BY DEF QuietInv
  <1>5. /\ Live(d) /\ ~Purged(d) /\ ~task[t].inline /\ task[t].acl = doc[d].acl
        /\ \A r \in Request : req[r].doc = d => ~Administers(r)
        /\ \A u \in Task : task[u].doc = d => u = t
    BY <1>1, <1>2, <1>4 DEF QuietDoc, Untroubled, Alone, LifeInv, OneIngestion
  <1>6. Alone(d)'
    BY <1>1, <1>5 DEF Ingests, Alone, Administers, Serving
  <1>7. Live(d)' /\ ~Purged(d)'
    BY <1>1, <1>5 DEF Ingests, Live, Purged
  <1>8. Untroubled(d)'
    BY <1>1, <1>2, <1>4, <1>5, <1>7 DEF Ingests, QuietDoc, Untroubled, Uploads
  <1>9. Emptied(d)'
    BY <1>1, <1>5 DEF Ingests, Emptied, Purged
  <1>10. \A r \in Request : req[r].doc = d => ~(req[r].op = "update"
                                /\ req[r].pc \in {"vectors", "chunks"})
    BY <1>5 DEF Administers, Serving
  <1>11. Labelled(d)'
    BY <1>1, <1>2, <1>4, <1>5, <1>10
       DEF Ingests, QuietDoc, Labelled, Relabelling
  <1>12. Even(d)' \/ Halfway(d)'
    <2>1. CASE task'[t].pc \in Between
      BY <1>1, <1>2, <2>1 DEF Ingests, Halfway, Between
    <2>2. CASE Passes(t) /\ task'[t].pc \notin Between
      <3>1. ~Halfway(d)
        BY <1>2, <1>5, <2>2 DEF Passes, Halfway, Between, Administers, Serving
      <3>. QED  BY <1>2, <1>4, <2>2, <3>1 DEF QuietDoc, Passes, Even
    <2>3. CASE InsertChunks(t)
      <3>1. chunks'[d] = (chunks[d] \ task[t].stale) \cup {BatchOf(t)}
        BY <1>2, <2>3 DEF InsertChunks, TypeInv, TypeOK
      <3>2. qdrant'[d] # {}
        BY <1>2, <1>5, <2>3 DEF InsertChunks, LifeInv, IngestionsInOrder, Progress
      <3>. QED  BY <3>1, <3>2 DEF Even
    <2>4. CASE Compensate(t)
      <3>1. qdrant'[d] = {}
        BY <1>2, <2>4, NoFault DEF Compensate, TypeInv, TypeOK
      <3>2. chunks'[d] = {}
        BY <1>2, <2>4 DEF Compensate, LifeInv, IngestionsInOrder, Progress
      <3>. QED  BY <3>1, <3>2 DEF Even
    <2>. QED  BY <1>5, <2>1, <2>2, <2>3, <2>4, WorkerIngests
  <1>13. GoneIsClean(d)'
    BY <1>7 DEF GoneIsClean, Live
  <1>14. RequestsApart'
    BY <1>1 DEF Ingests, QuietInv, RequestsApart
  <1>15. QuietDoc(d)'
    BY <1>6, <1>8, <1>9, <1>11, <1>12, <1>13 DEF QuietDoc
  <1>. QED  BY <1>3, <1>14, <1>15 DEF QuietInv


-----------------------------------------------------------------------------
(* Handlers.                                                               *)

\* A handler that moves on keeps all its arguments.
LEMMA ReqGotoAll ==
    ASSUME TypeInv, NEW r \in Request, NEW pc \in ReqPc, ReqGoto(r, pc)
    PROVE  /\ req'[r].pc = pc
           /\ req'[r].doc = req[r].doc
           /\ req'[r].op = req[r].op
           /\ req'[r].acl = req[r].acl
           /\ \A q \in Request : q # r => req'[q] = req[q]
  BY DEF TypeInv, TypeOK, ReqGoto, Handler

\* A step of handler r that starts no ingestion: it stays with its own
\* document, whose access fields it keeps.
Handles(r) ==
    LET d == req[r].doc IN
    /\ task' = task
    /\ \A q \in Request : q # r => req'[q] = req[q]
    /\ req'[r].doc = d /\ req'[r].op = req[r].op /\ req'[r].acl = req[r].acl
    /\ \A e \in Doc :
          /\ doc'[e].acl = doc[e].acl
          /\ e # d => /\ doc'[e].state = doc[e].state
                      /\ chunks'[e] = chunks[e] /\ qdrant'[e] = qdrant[e]

\* So only that document is at stake.
LEMMA HandlerQuietFrame ==
    ASSUME TypeInv, QuietInv, NEW r \in Request, Handles(r), Serving(r),
           req'[r].pc \in {"vectors", "chunks"} => req[r].op # "upload",
           NEW d \in Doc, req[r].doc = d, QuietDoc(d)'
    PROVE  QuietInv'
  <1>1. ASSUME NEW e \in Doc, e # d PROVE QuietDoc(e)'
    BY <1>1, UntouchedKeeps DEF Handles, Untouched, QuietInv
  <1>2. RequestsApart'
    BY DEF Handles, QuietInv, RequestsApart
  <1>. QED  BY <1>1, <1>2 DEF QuietInv

\* An administrator's request has its document for itself, and nobody is
\* uploading or ingesting it.
LEMMA AloneIsQuiet ==
    ASSUME QuietInv, NEW r \in Request, Administers(r),
           NEW d \in Doc, req[r].doc = d
    PROVE  /\ \A t \in Task : task[t].doc = d => ~Active(t)
           /\ \A q \in Request : req[q].doc = d /\ Serving(q) => q = r
           /\ QuietDoc(d) /\ doc[d].state # "gone"
  BY DEF QuietInv, QuietDoc, Alone, GoneIsClean, Quiet, Administers

\* A step of an administrator's request keeps the document in order if what
\* it leaves in the stores fits the place it reaches.
LEMMA AdminKeeps ==
    ASSUME TypeInv, QuietInv, NEW r \in Request, Handles(r), Administers(r),
           req'[r].pc \notin {"idle", "stage", "enqueue"},
           NEW d \in Doc, req[r].doc = d,
           Emptied(d)', Labelled(d)', Even(d)' \/ Halfway(d)',
           doc'[d].state = "gone" => req'[r].pc = "done" /\ qdrant'[d] = {}
    PROVE  QuietInv'
  <1>1. /\ \A t \in Task : task[t].doc = d => ~Active(t)
        /\ \A q \in Request : req[q].doc = d /\ Serving(q) => q = r
        /\ QuietDoc(d)
    BY AloneIsQuiet
  <1>2. Alone(d)'
    BY <1>1 DEF Handles, Alone, Administers, Active, Serving
  <1>3. Untroubled(d)'
    BY <1>1 DEF Handles, Untroubled, Uploads, Active, Serving
  <1>4. GoneIsClean(d)'
    BY <1>1 DEF Handles, GoneIsClean, Quiet, Active, Serving
  <1>5. QuietDoc(d)'
    BY <1>2, <1>3, <1>4 DEF QuietDoc
  <1>. QED  BY <1>5, HandlerQuietFrame DEF Administers

\* Labels after a step that adds no batch and no update.
LEMMA LabelledKeeps ==
    ASSUME QuietInv, NEW r \in Request, Handles(r), Administers(r),
           req[r].op # "update", NEW d \in Doc, req[r].doc = d,
           qdrant'[d] \subseteq qdrant[d], chunks'[d] \subseteq chunks[d],
           doc'[d].state \in {doc[d].state, "gone"}
    PROVE  Labelled(d)'
  <1>1. /\ \A q \in Request : req[q].doc = d /\ Serving(q) => q = r
        /\ Labelled(d)
    BY AloneIsQuiet DEF QuietDoc
  <1>2. ~Relabelling(d, {"vectors"}) /\ ~Relabelling(d, {"vectors", "chunks"})
    BY <1>1 DEF Relabelling, Serving
  <1>3. \A q \in Request : ~(/\ req'[q].doc = d /\ req'[q].op = "update"
                             /\ req'[q].pc \in {"vectors", "chunks"})
    BY <1>1 DEF Handles, Serving
  <1>4. CASE ~Live(d)
    BY <1>4, AloneIsQuiet DEF Labelled, Live
  <1>5. CASE Live(d)
    BY <1>1, <1>2, <1>3, <1>5 DEF Handles, Labelled, Live
  <1>. QED  BY <1>4, <1>5

\* The dispatch of an upload: the first ingestion of this document, with the
\* access fields of its row.
LEMMA EnqueueQuiet ==
    ASSUME TypeInv, LifeInv, QuietInv, NEW r \in Request, NEW t \in Task,
           UploadEnqueue(r, t)
    PROVE  QuietInv'
  <1>1. PICK d \in Doc : d = req[r].doc
    BY DEF UploadEnqueue, TypeInv, RequestsCarry
  <1>2. /\ req[r].pc = "enqueue" /\ req[r].op = "upload"
        /\ task[t].pc = "idle" /\ task[t].doc = None
        /\ \A u \in Task : task[u].doc # d
        /\ UNCHANGED <<doc, chunks, qdrant>>
    BY <1>1 DEF UploadEnqueue, Dispatch, LifeInv, OneUpload, OneIngestion, RequestsInOrder
  <1>3. /\ task'[t].doc = d /\ task'[t].pc = "queued" /\ ~task'[t].inline
        /\ task'[t].acl = req[r].acl
        /\ \A u \in Task : u # t => task'[u] = task[u]
    BY <1>1 DEF UploadEnqueue, Dispatch, TypeInv, TypeOK
  <1>4. /\ req'[r].pc = "done" /\ req'[r].doc = d /\ req'[r].op = "upload"
        /\ \A q \in Request : q # r => req'[q] = req[q]
    BY <1>1, <1>2, ReqGotoAll DEF UploadEnqueue, ReqPc
  <1>5. None \notin Doc
    BY ConstantsAssumption
  <1>6. ASSUME NEW e \in Doc, e # d PROVE QuietDoc(e)'
    BY <1>1, <1>2, <1>3, <1>4, <1>5, <1>6, UntouchedKeeps DEF Untouched, QuietInv
  <1>7. QuietDoc(d)
    BY DEF QuietInv
  <1>8. Live(d) /\ ~Purged(d) /\ req[r].acl = doc[d].acl
    BY <1>1, <1>2, <1>7 DEF QuietDoc, Untroubled, Uploads
  <1>9. \A q \in Request : req[q].doc = d => ~Administers(q)
    BY <1>1, <1>2, <1>7 DEF QuietDoc, Alone, Serving, Administers
  <1>10. Live(d)' /\ ~Purged(d)'
    BY <1>1, <1>2, <1>4, <1>8 DEF Live, Purged
  <1>11. Alone(d)'
    BY <1>4, <1>9 DEF Alone, Administers, Serving
  <1>12. Untroubled(d)'
    BY <1>1, <1>2, <1>3, <1>4, <1>7, <1>8, <1>10 DEF QuietDoc, Untroubled, Uploads
  <1>13. Emptied(d)'
    BY <1>10 DEF Emptied, Purged
  <1>14. Labelled(d)'
    BY <1>1, <1>2, <1>4, <1>7, <1>8 DEF QuietDoc, Labelled, Relabelling, Live
  <1>15. Even(d)'
    BY <1>1, <1>2, <1>7, <1>9 DEF QuietDoc, Even, Halfway, Administers, Serving
  <1>16. GoneIsClean(d)'
    BY <1>10 DEF GoneIsClean, Live
  <1>17. RequestsApart'
    BY <1>4 DEF QuietInv, RequestsApart
  <1>18. QuietDoc(d)'
    BY <1>11, <1>12, <1>13, <1>14, <1>15, <1>16 DEF QuietDoc
  <1>. QED  BY <1>6, <1>17, <1>18 DEF QuietInv

\* Relabelled batches carry the new access fields (set_payload, UPDATE).
LEMMA RelabelLabels ==
    ASSUME NEW S \in SUBSET Batch, NEW a
    PROVE  \A b \in Relabel(S, a) : b.acl = a
  BY DEF Relabel, Batch

\* Every step of a handler keeps the invariant.
LEMMA HandlerQuiet ==
    ASSUME TypeInv, LifeInv, QuietInv, MaxFaults = 0, NEW r \in Request,
           HandlerStep(r)
    PROVE  QuietInv'
  <1>1. Serving(r)
    BY DEF Serving, HandlerStep, UploadStage, UploadEnqueue, PurgeVectors,
           PurgeChunks, DeleteStaged, DeleteRow, ReindexStatus, UpdateVectors,
           UpdateChunks
  <1>2. PICK d \in Doc : d = req[r].doc
    BY <1>1 DEF Serving, TypeInv, RequestsCarry
  <1>3. QuietDoc(d)
    BY DEF QuietInv
  <1>4. CASE UploadStage(r)
    <2>1. Handles(r) /\ req'[r].pc = "enqueue" /\ req[r].pc = "stage"
      BY <1>4, ReqGotoAll DEF UploadStage, Handles, ReqPc
    <2>2. req[r].op = "upload"
      BY <2>1 DEF LifeInv, RequestsInOrder
    <2>3. UNCHANGED <<doc, chunks, qdrant, task>>
      BY <1>4 DEF UploadStage
    <2>4. \A q \in Request : req[q].doc = d => ~Administers(q)
      BY <1>1, <1>2, <1>3, <2>2 DEF QuietDoc, Alone, Administers
    <2>5. Purged(d)' <=> Purged(d)
      BY <2>1 DEF Handles, Purged
    <2>6. Alone(d)' /\ Emptied(d)'
      BY <1>2, <1>3, <2>1, <2>2, <2>3, <2>4
         DEF Handles, Alone, Administers, Serving, QuietDoc, Emptied
    <2>7. Untroubled(d)'
      BY <1>2, <1>3, <2>1, <2>3, <2>5
         DEF Handles, QuietDoc, Untroubled, Uploads, Active, Live
    <2>8. Labelled(d)'
      BY <1>2, <1>3, <2>1, <2>2, <2>3 DEF Handles, QuietDoc, Labelled, Relabelling, Live
    <2>9. Even(d)' \/ Halfway(d)'
      BY <1>2, <1>3, <2>1, <2>2, <2>3 DEF Handles, QuietDoc, Even, Halfway
    <2>10. GoneIsClean(d)'
      BY <1>1, <1>2, <1>3, <2>3 DEF QuietDoc, GoneIsClean, Quiet
    <2>11. QuietDoc(d)'
      BY <2>6, <2>7, <2>8, <2>9, <2>10 DEF QuietDoc
    <2>. QED  BY <1>1, <1>2, <2>1, <2>11, HandlerQuietFrame
  <1>5. ASSUME NEW t \in Task, UploadEnqueue(r, t) PROVE QuietInv'
    BY <1>5, EnqueueQuiet
  <1>6. ASSUME Administers(r), Handles(r),
               req'[r].pc \notin {"idle", "stage", "enqueue"},
               Emptied(d)', Labelled(d)', Even(d)' \/ Halfway(d)',
               doc'[d].state = "gone" => req'[r].pc = "done" /\ qdrant'[d] = {}
        PROVE  QuietInv'
    BY <1>2, <1>6, AdminKeeps
  <1>7. ASSUME Administers(r)
        PROVE  /\ \A t \in Task : task[t].doc = d => ~Active(t)
               /\ \A q \in Request : req[q].doc = d /\ Serving(q) => q = r
               /\ doc[d].state # "gone"
    BY <1>2, <1>7, AloneIsQuiet
  <1>8. CASE PurgeVectors(r)
    <2>1. Handles(r) /\ req'[r].pc = "chunks" /\ Administers(r)
      BY <1>1, <1>2, <1>8, NoFault, ReqGotoAll
         DEF PurgeVectors, Handles, Administers, ReqPc, TypeInv, TypeOK
    <2>2. /\ qdrant'[d] = {} /\ UNCHANGED <<doc, chunks>>
          /\ req[r].op \in {"delete", "reindex"}
      BY <1>2, <1>8, NoFault DEF PurgeVectors, TypeInv, TypeOK
    <2>3. Emptied(d)'
      BY <1>2, <1>7, <2>1, <2>2 DEF Handles, Emptied, Serving
    <2>4. Labelled(d)'
      BY <1>2, <2>1, <2>2, LabelledKeeps
    <2>5. Halfway(d)'
      BY <1>2, <2>1, <2>2 DEF Handles, Halfway
    <2>. QED  BY <1>6, <1>7, <2>1, <2>2, <2>3, <2>4, <2>5
  <1>9. CASE PurgeChunks(r)
    <2>1. /\ Handles(r) /\ Administers(r)
          /\ req'[r].pc \in {"staged", "status"}
      BY <1>1, <1>2, <1>9, ReqGotoAll
         DEF PurgeChunks, Handles, Administers, ReqPc, TypeInv, TypeOK
    <2>2. /\ chunks'[d] = {} /\ UNCHANGED <<doc, qdrant>>
          /\ req[r].op \in {"delete", "reindex"} /\ req[r].pc = "chunks"
      BY <1>2, <1>9 DEF PurgeChunks, TypeInv, TypeOK
    <2>3. qdrant'[d] = {}
      BY <1>2, <1>3, <2>2 DEF QuietDoc, Emptied
    <2>4. Emptied(d)' /\ Even(d)'
      BY <2>2, <2>3 DEF Emptied, Even
    <2>5. Labelled(d)'
      BY <1>2, <2>1, <2>2, LabelledKeeps
    <2>. QED  BY <1>6, <1>7, <2>1, <2>2, <2>4, <2>5
  <1>10. CASE DeleteStaged(r) \/ DeleteRow(r) \/ ReindexStatus(r)
    <2>1. /\ req[r].pc \in {"staged", "row", "status"}
          /\ req[r].op \in {"delete", "reindex"}
          /\ qdrant[d] = {} /\ chunks[d] = {}
      BY <1>2, <1>3, <1>10
         DEF DeleteStaged, DeleteRow, ReindexStatus, QuietDoc, Emptied, LifeInv,
             RequestsInOrder
    <2>2. Administers(r)
      BY <1>1, <2>1 DEF Administers
    <2>3. /\ Handles(r) /\ req'[r].pc \in {"row", "done"}
          /\ qdrant'[d] = {} /\ chunks'[d] = {}
          /\ doc'[d].state \in {doc[d].state, "gone"}
          /\ doc'[d].state # doc[d].state => req'[r].pc = "done"
      <3>1. CASE DeleteStaged(r)
        BY <2>1, <3>1, ReqGotoAll DEF DeleteStaged, Handles, ReqPc
      <3>2. CASE DeleteRow(r)
        BY <1>2, <2>1, <3>2, ReqGotoAll
           DEF DeleteRow, DropRow, Handles, ReqPc, TypeInv, TypeOK, DocRow
      <3>3. CASE ReindexStatus(r)
        BY <1>2, <2>1, <3>3, ReqGotoAll, SetStatusAll
           DEF ReindexStatus, Handles, ReqPc, Status
      <3>. QED  BY <1>10, <3>1, <3>2, <3>3
    <2>4. Emptied(d)' /\ Even(d)'
      BY <2>3 DEF Emptied, Even
    <2>5. Labelled(d)'
      BY <1>2, <2>1, <2>2, <2>3, LabelledKeeps
    <2>. QED  BY <1>6, <1>7, <2>2, <2>3, <2>4, <2>5
  <1>11. CASE UpdateVectors(r)
    <2>1. /\ Handles(r) /\ Administers(r) /\ req'[r].pc = "chunks"
          /\ req[r].pc = "vectors" /\ req[r].op = "update" /\ UNCHANGED <<doc, chunks>>
      BY <1>1, <1>2, <1>11, NoFault, ReqGotoAll
         DEF UpdateVectors, Handles, Administers, ReqPc, TypeInv, TypeOK
    <2>2. qdrant'[d] = Relabel(qdrant[d], req[r].acl)
      BY <1>2, <1>11, NoFault DEF UpdateVectors, TypeInv, TypeOK
    <2>3. /\ qdrant'[d] = {} <=> qdrant[d] = {}
          /\ \A b \in qdrant'[d] : b.acl = req[r].acl
      BY <2>2, RelabelKeeps, RelabelLabels DEF TypeInv, TypeOK
    <2>4. Emptied(d)'
      BY <1>2, <1>7, <2>1 DEF Handles, Emptied, Serving
    <2>5. Labelled(d)'
      BY <1>2, <1>3, <1>7, <2>1, <2>3
         DEF Handles, QuietDoc, Labelled, Relabelling, Live
    <2>6. Even(d)'
      BY <1>2, <1>3, <1>7, <2>1, <2>3 DEF QuietDoc, Even, Halfway, Active, Serving
    <2>. QED  BY <1>6, <1>7, <2>1, <2>4, <2>5, <2>6
  <1>12. CASE UpdateChunks(r)
    <2>1. /\ Handles(r) /\ Administers(r) /\ req'[r].pc = "done"
          /\ req[r].pc = "chunks" /\ req[r].op = "update" /\ UNCHANGED <<doc, qdrant>>
      BY <1>1, <1>2, <1>12, ReqGotoAll
         DEF UpdateChunks, Handles, Administers, ReqPc, TypeInv, TypeOK
    <2>2. chunks'[d] = Relabel(chunks[d], req[r].acl)
      BY <1>2, <1>12 DEF UpdateChunks, TypeInv, TypeOK
    <2>3. /\ chunks'[d] = {} <=> chunks[d] = {}
          /\ \A b \in chunks'[d] : b.acl = req[r].acl
      BY <2>2, RelabelKeeps, RelabelLabels DEF TypeInv, TypeOK
    <2>4. Emptied(d)'
      BY <1>2, <1>7, <2>1 DEF Handles, Emptied, Serving
    <2>5. Labelled(d)'
      <3>1. ~Relabelling(d, {"vectors"})
        BY <1>2, <1>7, <2>1 DEF Relabelling, Serving
      <3>2. Live(d)' => Live(d) /\ req[r].acl = doc[d].acl
        BY <1>2, <1>3, <2>1 DEF QuietDoc, Labelled, Live
      <3>3. \A q \in Request : ~(/\ req'[q].doc = d /\ req'[q].op = "update"
                                 /\ req'[q].pc \in {"vectors", "chunks"})
        BY <1>7, <2>1 DEF Handles, Serving
      <3>. QED  BY <1>3, <2>1, <2>3, <3>1, <3>2, <3>3 DEF QuietDoc, Labelled
    <2>6. Even(d)'
      BY <1>2, <1>3, <1>7, <2>1, <2>3 DEF QuietDoc, Even, Halfway, Active, Serving
    <2>. QED  BY <1>6, <1>7, <2>1, <2>4, <2>5, <2>6
  <1>. QED
    BY <1>4, <1>5, <1>8, <1>9, <1>10, <1>11, <1>12 DEF HandlerStep

-----------------------------------------------------------------------------
(* Requests that begin.                                                    *)

\* An upload finds nothing of its document; an administrator finds it quiet.
LEMMA ArriveQuiet ==
    ASSUME TypeInv, LifeInv, QuietInv, QuietRequests,
           NEW r \in Request, NEW d \in Doc, Arrive(r, d)
    PROVE  QuietInv'
  <1>0. QuietDoc(d) /\ None \notin Doc
    BY ConstantsAssumption DEF QuietInv
  <1>1. ASSUME /\ req[r].pc = "idle"
               /\ \A q \in Request : q # r => req'[q] = req[q]
               /\ req'[r].doc = d /\ UNCHANGED <<chunks, qdrant, task>>
               /\ \A e \in Doc : e # d => doc'[e] = doc[e]
               /\ QuietDoc(d)'
               /\ req'[r].pc = "vectors" => req'[r].op # "upload"
               /\ req'[r].pc # "chunks"
        PROVE  QuietInv'
    <2>1. req[r].doc = None
      BY <1>1 DEF LifeInv, RequestsInOrder
    <2>2. ASSUME NEW e \in Doc, e # d PROVE QuietDoc(e)'
      BY <1>0, <1>1, <2>1, <2>2, UntouchedKeeps DEF Untouched, QuietInv
    <2>3. RequestsApart'
      BY <1>1 DEF QuietInv, RequestsApart
    <2>. QED  BY <1>1, <2>2, <2>3 DEF QuietInv
  <1>2. ASSUME NEW a \in Acl, NEW c \in Content, UploadCreate(r, d, a, c)
        PROVE  QuietInv'
    <2>1. /\ UNCHANGED <<chunks, qdrant, task>>
          /\ ~Born(d) /\ req[r].pc = "idle"
          /\ doc'[d].state = "live" /\ doc'[d].acl = a
          /\ \A e \in Doc : e # d => doc'[e] = doc[e]
          /\ req'[r].pc = "stage" /\ req'[r].doc = d /\ req'[r].op = "upload"
          /\ req'[r].acl = a
          /\ \A q \in Request : q # r => req'[q] = req[q]
      BY <1>2 DEF UploadCreate, Born, TypeInv, TypeOK
    <2>2. /\ \A u \in Task : task[u].doc # d
          /\ \A q \in Request : req[q].doc # d
      BY <2>1 DEF LifeInv, UnbornIsUntouched
    <2>3. qdrant[d] = {} /\ chunks[d] = {}
      BY <2>2 DEF LifeInv, StoresInOrder, OwnBatches
    <2>4. Alone(d)' /\ Emptied(d)' /\ Even(d)'
      BY <2>1, <2>2, <2>3 DEF Alone, Administers, Serving, Emptied, Even
    <2>5. ~Purged(d)' /\ Live(d)'
      BY <2>1, <2>2 DEF Purged, Live
    <2>6. Untroubled(d)'
      BY <2>1, <2>2, <2>5 DEF Untroubled, Uploads
    <2>7. Labelled(d)'
      BY <2>1, <2>2, <2>3 DEF Labelled
    <2>8. GoneIsClean(d)'
      BY <2>1 DEF GoneIsClean
    <2>. QED  BY <1>1, <2>1, <2>4, <2>6, <2>7, <2>8 DEF QuietDoc
  <1>3. ASSUME /\ UNCHANGED <<chunks, qdrant, task>>
               /\ Live(d) /\ Live(d)' /\ req[r].pc = "idle"
               /\ \A e \in Doc : e # d => doc'[e] = doc[e]
               /\ req'[r].pc = "vectors" /\ req'[r].doc = d
               /\ req'[r].op \in {"delete", "reindex", "update"}
               /\ \A q \in Request : q # r => req'[q] = req[q]
               /\ doc'[d].acl = IF req'[r].op = "update" THEN req'[r].acl
                                                         ELSE doc[d].acl
        PROVE  QuietInv'
    <2>1. Quiet(d)
      BY <1>3 DEF QuietRequests
    <2>2. Alone(d)' /\ Untroubled(d)' /\ Emptied(d)'
      BY <1>0, <1>3, <2>1
         DEF Alone, Untroubled, Emptied, QuietDoc, Quiet, Active, Serving, Administers,
             Uploads
    <2>3. ~Halfway(d)
      BY <2>1 DEF Halfway, Quiet, Active, Serving
    <2>4. Even(d)'
      BY <1>0, <1>3, <2>3 DEF QuietDoc, Even
    <2>5. Labelled(d)'
      <3>1. \A q \in Request : req[q].doc = d => ~(/\ req[q].op = "update"
                                    /\ req[q].pc \in {"vectors", "chunks"})
        BY <2>1 DEF Quiet, Serving
      <3>2. CASE req'[r].op = "update"
        BY <1>3, <3>1, <3>2 DEF Labelled, Relabelling
      <3>3. CASE req'[r].op # "update"
        <4>1. \A b \in qdrant[d] \cup chunks[d] : b.acl = doc[d].acl
          BY <1>0, <1>3, <3>1 DEF QuietDoc, Labelled, Relabelling
        <4>. QED  BY <1>3, <3>1, <3>3, <4>1 DEF Labelled
      <3>. QED  BY <3>2, <3>3
    <2>6. GoneIsClean(d)'
      BY <1>3 DEF GoneIsClean, Live
    <2>. QED  BY <1>1, <1>3, <2>2, <2>4, <2>5, <2>6 DEF QuietDoc
  <1>4. ASSUME NEW op \in Ops, PurgeStart(r, d, op) PROVE QuietInv'
    BY <1>3, <1>4 DEF PurgeStart, Live, TypeInv, TypeOK
  <1>5. ASSUME NEW a \in Acl, UpdateRow(r, d, a) PROVE QuietInv'
    BY <1>3, <1>5 DEF UpdateRow, Live, TypeInv, TypeOK, DocRow
  <1>. QED  BY <1>2, <1>4, <1>5 DEF Arrive

-----------------------------------------------------------------------------
(* The three invariants of the quiet run.                                  *)

\* The initial state satisfies the invariant.
LEMMA InitQuiet == Init => QuietInv
  BY ConstantsAssumption
     DEF Init, QuietInv, RequestsApart, QuietDoc, Alone, Untroubled, Emptied,
         Labelled, Live, Even, GoneIsClean, Administers, Serving, Active, Uploads

\* Every step that begins an administrator's request on a quiet document
\* only, if it begins one at all, keeps it.
LEMMA NextQuiet ==
    ASSUME TypeInv, LifeInv, QuietInv, MaxFaults = 0, [Next /\ QuietRequests]_vars
    PROVE  QuietInv'
  <1>1. CASE UNCHANGED vars
    <2>1. \A d \in Doc : Untouched(d)
      BY <1>1 DEF vars, Untouched
    <2>. QED  BY <1>1, <2>1, UntouchedKeeps DEF vars, QuietInv, RequestsApart
  <1>2. ASSUME Next, QuietRequests PROVE QuietInv'
    <2>0. TypeInv' /\ LifeInv' /\ faults' = 0
      <3>1. TypeInv' /\ LifeInv'
        BY <1>2, NextType, NextLife
      <3>. QED  BY <3>1, ConstantsAssumption DEF TypeInv, TypeOK
    <2>1. ASSUME NEW t \in Task, WorkerStep(t) \/ IngestFails(t) PROVE QuietInv'
      BY <2>0, <2>1, WorkerQuiet
    <2>2. CASE Error
      BY <2>1, <2>2, NoFault
         DEF Error, UpsertTimesOut, WorkerDies, HandlerDies, UploadInline
    <2>. QED
      BY <1>1, <1>2, <2>1, <2>2, ArriveQuiet, HandlerQuiet DEF Next, Step, AtRest
  <1>. QED  BY <1>1, <1>2

\* The stores are in order in every state that can be reached without
\* faults when administrators act on quiet documents only.
THEOREM QuietInvariance ==
    MaxFaults = 0 => (QuietSpec => [](TypeInv /\ LifeInv /\ QuietInv))
  <1>. SUFFICES ASSUME MaxFaults = 0
                PROVE  QuietSpec => [](TypeInv /\ LifeInv /\ QuietInv)
    OBVIOUS
  <1>. DEFINE I == TypeInv /\ LifeInv /\ QuietInv
  <1>1. Init => I
    BY InitType, InitLife, InitQuiet
  <1>2. I /\ [Next /\ QuietRequests]_vars => I'
    BY NextType, NextLife, NextQuiet
  <1>. QED  BY <1>1, <1>2, PTL DEF QuietSpec

\* A deleted document leaves no point behind (delete_document).
THEOREM NoOrphanPointsWhenQuiet ==
    MaxFaults = 0 => (QuietSpec => []NoOrphanPoints)
  <1>1. TypeInv /\ LifeInv /\ QuietInv => NoOrphanPoints
    BY DEF QuietInv, QuietDoc, GoneIsClean, NoOrphanPoints
  <1>. QED  BY <1>1, QuietInvariance, PTL

\* Rows and points of a document nobody works on carry its own access fields
\* (update_document, ingest_document).
THEOREM MetadataAgreesWhenQuiet ==
    MaxFaults = 0 => (QuietSpec => []MetadataAgrees)
  <1>1. TypeInv /\ LifeInv /\ QuietInv => MetadataAgrees
    <2>. SUFFICES ASSUME QuietInv, NEW d \in Doc, Live(d), Quiet(d)
                  PROVE  \A b \in qdrant[d] \cup chunks[d] : b.acl = doc[d].acl
      BY DEF MetadataAgrees
    <2>1. ~Relabelling(d, {"vectors"}) /\ ~Relabelling(d, {"vectors", "chunks"})
      BY DEF Relabelling, Quiet, Serving
    <2>. QED  BY <2>1 DEF QuietInv, QuietDoc, Labelled
  <1>. QED  BY <1>1, QuietInvariance, PTL

\* A document nobody works on is in both stores or in neither (the dual write
\* of ingest_document with its compensation, and the purge).
THEOREM NoPartialWriteWhenQuiet ==
    MaxFaults = 0 => (QuietSpec => []NoPartialWrite)
  <1>1. TypeInv /\ LifeInv /\ QuietInv => NoPartialWrite
    <2>. SUFFICES ASSUME QuietInv, NEW d \in Doc, Quiet(d) PROVE Even(d)
      BY DEF NoPartialWrite, Even
    <2>1. ~Halfway(d)
      BY DEF Halfway, Quiet, Active, Serving
    <2>. QED  BY <2>1 DEF QuietInv, QuietDoc
  <1>. QED  BY <1>1, QuietInvariance, PTL

-----------------------------------------------------------------------------
(* The refinement: rows and points behave as a DocumentIndex.              *)

\* A step that shows nothing new of d.
Same(d) == Phase(d)' = Phase(d) /\ Given(d)' = Given(d) /\ Hits(d)' = Hits(d)

\* What the phases are, before and after a step.
LEMMA PhaseOf ==
    ASSUME NEW d \in Doc
    PROVE  /\ doc[d].state = "unborn" => Phase(d) = "absent"
           /\ Live(d) /\ BeingPurged(d) => Phase(d) = "purging"
           /\ Live(d) /\ ~BeingPurged(d) =>
                 Phase(d) = IF doc[d].status = "INDEXED" THEN "indexed"
                            ELSE IF doc[d].status = "FAILED" THEN "failed" ELSE "pending"
           /\ doc'[d].state = "gone" => Phase(d)' = "removed"
           /\ Live(d)' /\ BeingPurged(d)' => Phase(d)' = "purging"
           /\ Live(d)' /\ ~BeingPurged(d)' =>
                 Phase(d)' = IF doc'[d].status = "INDEXED" THEN "indexed"
                             ELSE IF doc'[d].status = "FAILED" THEN "failed" ELSE "pending"
  BY DEF Phase, Live, Settled

\* A step that leaves the row and the points of d alone, and neither begins
\* nor ends a purge of it, shows nothing.
LEMMA NothingShown ==
    ASSUME NEW d \in Doc, doc'[d] = doc[d], qdrant'[d] = qdrant[d],
           BeingPurged(d)' <=> BeingPurged(d)
    PROVE  Same(d)
  BY DEF Same, Phase, Given, Hits, Live, Settled

\* The mapped variables change where d is concerned, if no other document shows
\* anything.
LEMMA OneDocument ==
    ASSUME NEW d \in Doc, \A e \in Doc : e # d => Same(e)
    PROVE  /\ [e \in Doc |-> Phase(e)]' = [[e \in Doc |-> Phase(e)] EXCEPT ![d] = Phase(d)']
           /\ [e \in Doc |-> Given(e)]' = [[e \in Doc |-> Given(e)] EXCEPT ![d] = Given(d)']
           /\ [e \in Doc |-> Hits(e)]' = [[e \in Doc |-> Hits(e)] EXCEPT ![d] = Hits(d)']
  BY DEF Same

\* A step that shows nothing of any document is a stutter of the index.
LEMMA Stutters ==
    ASSUME \A e \in Doc : Same(e) PROVE UNCHANGED Index!indexVars
  BY DEF Same, Index!indexVars

\* The row of a live document gets the new status, and nothing else happens.
LEMMA SetStatusShows ==
    ASSUME TypeInv, NEW d \in Doc, NEW s \in Status, SetStatus(d, s)
    PROVE  /\ \A e \in Doc : e # d => doc'[e] = doc[e]
           /\ Live(d) => doc'[d].status = s
           /\ doc'[d].state = doc[d].state /\ Given(d)' = Given(d)
  BY DEF TypeInv, TypeOK, SetStatus, DocRow, Live, Given

\* The document of a running ingestion is live and nobody else works on it;
\* it is pending until the ingestion reports its outcome.
LEMMA IngestedIsPending ==
    ASSUME TypeInv, LifeInv, QuietInv, NEW t \in Task, Active(t),
           NEW d \in Doc, d = task[t].doc
    PROVE  /\ Live(d) /\ ~Purged(d) /\ ~task[t].inline /\ task[t].acl = doc[d].acl
           /\ \A r \in Request : req[r].doc = d => ~Administers(r)
           /\ \A u \in Task : task[u].doc = d => u = t
           /\ ~BeingPurged(d)
           /\ task[t].pc # "unstage" => Phase(d) = "pending"
  <1>1. QuietDoc(d)
    BY DEF QuietInv
  <1>2. /\ Live(d) /\ ~Purged(d) /\ ~task[t].inline /\ task[t].acl = doc[d].acl
        /\ \A r \in Request : req[r].doc = d => ~Administers(r)
        /\ \A u \in Task : task[u].doc = d => u = t
    BY <1>1 DEF QuietDoc, Untroubled, Alone, LifeInv, OneIngestion
  <1>3. ~BeingPurged(d)
    BY <1>2 DEF BeingPurged, Administers
  <1>4. task[t].pc # "unstage" => ~Settled(d)
    BY <1>2 DEF LifeInv, StoresInOrder, TrueOutcome, Settled, Active, Ended
  <1>5. task[t].pc # "unstage" => Phase(d) = "pending"
    BY <1>2, <1>3, <1>4, PhaseOf DEF Settled
  <1>. QED  BY <1>2, <1>3, <1>5

\* The points of a document carry its bytes, and its access fields unless an
\* update has yet to reach them.
LEMMA HitsAgree ==
    ASSUME LifeInv, QuietInv, NEW d \in Doc, Live(d), ~Relabelling(d, {"vectors"})
    PROVE  Hits(d) \subseteq {Given(d)} /\ (Hits(d) = {} <=> qdrant[d] = {})
  <1>1. \A b \in qdrant[d] : b.content = doc[d].hash /\ b.acl = doc[d].acl
    BY DEF LifeInv, StoresInOrder, OwnBatches, QuietInv, QuietDoc, Labelled
  <1>. QED  BY <1>1 DEF Hits, Given

\* A step of an ingestion is one of the index: the points are published, the
\* compensation withdraws them, the outcome fits what is there.
LEMMA WorkerShows ==
    ASSUME TypeInv, LifeInv, QuietInv, MaxFaults = 0, NEW t \in Task,
           WorkerStep(t) \/ IngestFails(t)
    PROVE  Index!Next \/ UNCHANGED Index!indexVars
  <1>1. Active(t) /\ Ingests(t)
    BY WorkerIngests
  <1>2. PICK d \in Doc : d = task[t].doc
    BY <1>1, TaskArgs DEF Active
  <1>3. /\ Live(d) /\ ~Purged(d) /\ ~task[t].inline /\ task[t].acl = doc[d].acl
        /\ \A r \in Request : req[r].doc = d => ~Administers(r)
        /\ ~BeingPurged(d)
        /\ task[t].pc # "unstage" => Phase(d) = "pending"
    BY <1>1, <1>2, IngestedIsPending
  <1>4. /\ Hits(d) \subseteq {Given(d)} /\ (Hits(d) = {} <=> qdrant[d] = {})
    BY <1>3, HitsAgree DEF Relabelling, Administers, Serving
  <1>5. \A e \in Doc : BeingPurged(e)' <=> BeingPurged(e)
    BY <1>1 DEF Ingests, BeingPurged, Serving
  <1>6. Live(d)' /\ ~BeingPurged(d)'
    BY <1>1, <1>2, <1>3, <1>5 DEF Ingests, Live
  <1>7. CASE UNCHANGED <<doc, qdrant>>
    BY <1>5, <1>7, NothingShown, Stutters
  <1>8. CASE WorkerStart(t)
    <2>1. /\ \A e \in Doc : e # d => doc'[e] = doc[e]
          /\ doc'[d].status = "PROCESSING" /\ Given(d)' = Given(d)
          /\ qdrant' = qdrant /\ task[t].pc # "unstage"
      BY <1>2, <1>3, <1>8, SetStatusShows DEF WorkerStart, Status
    <2>2. Same(d)
      BY <1>3, <1>6, <2>1, PhaseOf DEF Same, Hits
    <2>3. \A e \in Doc : Same(e)
      BY <1>5, <2>1, <2>2, NothingShown
    <2>. QED  BY <2>3, Stutters
  <1>9. CASE UpsertPoints(t)
    <2>1. /\ doc' = doc /\ task[t].pc = "upsert"
          /\ \A e \in Doc : qdrant'[e] = IF e = d THEN qdrant[e] \cup {BatchOf(t)}
                                                ELSE qdrant[e]
      BY <1>2, <1>9 DEF UpsertPoints, WritePoints, TypeInv, TypeOK
    <2>2. qdrant[d] = {} /\ task[t].content = doc[d].hash
      BY <1>2, <2>1, ConstantsAssumption
         DEF LifeInv, IngestionsInOrder, Progress, BytesAgree, TypeInv, TasksCarry
    <2>3. Hits(d)' = {Given(d)} /\ Given(d)' = Given(d) /\ Phase(d)' = "pending"
      <3>1. qdrant'[d] = {BatchOf(t)}
        BY <2>1, <2>2
      <3>2. Hits(d)' = {Given(d)}
        BY <1>3, <2>2, <3>1 DEF Hits, Given, BatchOf
      <3>3. Phase(d)' = "pending"
        BY <1>3, <1>6, <2>1, PhaseOf
      <3>. QED  BY <2>1, <3>2, <3>3 DEF Given
    <2>4. \A e \in Doc : e # d => Same(e)
      BY <1>5, <2>1, NothingShown
    <2>5. Index!Publish(d)
      BY <1>3, <1>4, <2>1, <2>2, <2>3, <2>4, OneDocument DEF Index!Publish
    <2>. QED  BY <2>5 DEF Index!Next
  <1>10. CASE Compensate(t)
    <2>1. /\ doc' = doc /\ task[t].pc = "compensate"
          /\ \A e \in Doc : qdrant'[e] = IF e = d THEN {} ELSE qdrant[e]
      BY <1>2, <1>10, NoFault DEF Compensate, TypeInv, TypeOK
    <2>2. Hits(d)' = {} /\ Given(d)' = Given(d) /\ Phase(d)' = Phase(d)
      BY <1>3, <1>6, <2>1, PhaseOf DEF Hits, Given
    <2>3. \A e \in Doc : e # d => Same(e)
      BY <1>5, <2>1, NothingShown
    <2>4. Index!Withdraw(d)
      BY <1>3, <2>1, <2>2, <2>3, OneDocument DEF Index!Withdraw
    <2>. QED  BY <2>4 DEF Index!Next
  <1>11. CASE MarkIndexed(t) \/ MarkFailed(t)
    <2>1. PICK s \in {"INDEXED", "FAILED"} :
             /\ SetStatus(d, s) /\ qdrant' = qdrant
             /\ task[t].pc = IF s = "INDEXED" THEN "index" ELSE "fail"
      BY <1>2, <1>11 DEF MarkIndexed, MarkFailed
    <2>2. /\ \A e \in Doc : e # d => doc'[e] = doc[e]
          /\ doc'[d].status = s /\ Given(d)' = Given(d) /\ Hits(d)' = Hits(d)
      BY <1>3, <2>1, SetStatusShows DEF Status, Hits
    <2>3. Hits(d) = IF s = "INDEXED" THEN {Given(d)} ELSE {}
      <3>1. (qdrant[d] # {}) <=> s = "INDEXED"
        BY <1>2, <1>3, <2>1, NoFault DEF LifeInv, IngestionsInOrder, Progress, Backed
      <3>. QED  BY <1>4, <3>1
    <2>4. Phase(d)' = IF s = "INDEXED" THEN "indexed" ELSE "failed"
      BY <1>6, <2>2, PhaseOf
    <2>5. \A e \in Doc : e # d => Same(e)
      BY <1>5, <2>1, <2>2, NothingShown
    <2>6. Index!Succeed(d) \/ Index!Fail(d)
      BY <1>3, <2>1, <2>2, <2>3, <2>4, <2>5, OneDocument
         DEF Index!Succeed, Index!Fail, Index!Turns
    <2>. QED  BY <2>6 DEF Index!Next
  <1>. QED
    BY <1>7, <1>8, <1>9, <1>10, <1>11
       DEF WorkerStep, WorkerRead, DeleteOldChunks, InsertChunks, InsertFails, Unstage,
           IngestFails

\* The document of an administrator's request is live, and being purged exactly
\* if that request purges it.
LEMMA AdministeredIsLive ==
    ASSUME TypeInv, LifeInv, QuietInv, NEW r \in Request, Administers(r),
           NEW d \in Doc, d = req[r].doc
    PROVE  /\ Live(d)
           /\ \A q \in Request : req[q].doc = d /\ Serving(q) => q = r
           /\ BeingPurged(d) <=> req[r].op \in {"delete", "reindex"}
  <1>1. /\ \A q \in Request : req[q].doc = d /\ Serving(q) => q = r
        /\ doc[d].state # "gone"
    BY AloneIsQuiet
  <1>2. Live(d)
    BY <1>1 DEF LifeInv, UnbornIsUntouched, Born, TypeInv, TypeOK, DocRow, Live
  <1>. QED  BY <1>1, <1>2 DEF BeingPurged, Administers

\* A step of a handler is one of the index: a purge withdraws the points before
\* the document is removed or pending again, an update relabels them.
LEMMA HandlerShows ==
    ASSUME TypeInv, LifeInv, QuietInv, MaxFaults = 0, NEW r \in Request,
           HandlerStep(r)
    PROVE  Index!Next \/ UNCHANGED Index!indexVars
  <1>1. Serving(r)
    BY DEF Serving, HandlerStep, UploadStage, UploadEnqueue, PurgeVectors,
           PurgeChunks, DeleteStaged, DeleteRow, ReindexStatus, UpdateVectors,
           UpdateChunks
  <1>2. PICK d \in Doc : d = req[r].doc
    BY <1>1 DEF Serving, TypeInv, RequestsCarry
  <1>3. QuietDoc(d)
    BY DEF QuietInv
  <1>4. PICK pc \in ReqPc \ {"idle"} : ReqGoto(r, pc)
    BY DEF HandlerStep, UploadStage, UploadEnqueue, PurgeVectors, PurgeChunks, DeleteStaged,
           DeleteRow, ReindexStatus, UpdateVectors, UpdateChunks, ReqPc
  <1>5. /\ req'[r].pc = pc /\ req'[r].doc = d /\ req'[r].op = req[r].op
        /\ \A q \in Request : q # r => req'[q] = req[q]
    BY <1>2, <1>4, ReqGotoAll
  <1>6. \A e \in Doc : e # d => (BeingPurged(e)' <=> BeingPurged(e))
    BY <1>2, <1>5 DEF BeingPurged, Serving
  <1>7. CASE UploadStage(r) \/ \E t \in Task : UploadEnqueue(r, t)
    <2>1. /\ UNCHANGED <<doc, qdrant>> /\ req[r].op = "upload"
      BY <1>7 DEF UploadStage, UploadEnqueue, LifeInv, RequestsInOrder
    <2>2. BeingPurged(d)' <=> BeingPurged(d)
      BY <1>5, <2>1 DEF BeingPurged, Serving
    <2>. QED  BY <1>6, <2>1, <2>2, NothingShown, Stutters
  <1>8. ASSUME req[r].op \in {"delete", "reindex"}
        PROVE  /\ Live(d) /\ Phase(d) = "purging"
               /\ BeingPurged(d)' <=> pc \notin {"done", "dead"}
    <2>1. Administers(r)
      BY <1>1, <1>8 DEF Administers
    <2>2. Live(d) /\ BeingPurged(d)
      BY <1>2, <1>8, <2>1, AdministeredIsLive
    <2>3. BeingPurged(d)' <=> pc \notin {"done", "dead"}
      BY <1>2, <1>5, <1>8, <2>1, AdministeredIsLive DEF BeingPurged, Serving
    <2>. QED  BY <2>2, <2>3, PhaseOf
  <1>9. ASSUME req[r].op = "update", UNCHANGED doc
        PROVE  /\ Live(d) /\ Phase(d) \in {"pending", "indexed", "failed"}
               /\ BeingPurged(d)' <=> BeingPurged(d)
               /\ Phase(d)' = Phase(d)
    <2>1. Administers(r)
      BY <1>1, <1>9 DEF Administers
    <2>2. Live(d) /\ ~BeingPurged(d)
      BY <1>2, <1>9, <2>1, AdministeredIsLive
    <2>3. ~BeingPurged(d)' /\ Live(d)'
      BY <1>5, <1>9, <2>2 DEF BeingPurged, Serving, Live
    <2>. QED  BY <1>9, <2>2, <2>3, PhaseOf
  <1>10. CASE PurgeVectors(r)
    <2>1. /\ req[r].op \in {"delete", "reindex"} /\ pc = "chunks" /\ doc' = doc
          /\ \A e \in Doc : qdrant'[e] = IF e = d THEN {} ELSE qdrant[e]
      BY <1>2, <1>4, <1>5, <1>10, NoFault, ReqGotoAll
         DEF PurgeVectors, TypeInv, TypeOK, ReqPc
    <2>2. Phase(d)' = "purging" /\ Given(d)' = Given(d) /\ Hits(d)' = {}
      BY <1>8, <2>1, PhaseOf DEF Live, Given, Hits
    <2>3. \A e \in Doc : e # d => Same(e)
      BY <1>6, <2>1, NothingShown
    <2>4. Index!Withdraw(d)
      BY <1>8, <2>1, <2>2, <2>3, OneDocument DEF Index!Withdraw
    <2>. QED  BY <2>4 DEF Index!Next
  <1>11. CASE PurgeChunks(r) \/ DeleteStaged(r) \/ UpdateChunks(r)
    <2>1. /\ UNCHANGED <<doc, qdrant>>
          /\ \/ req[r].op = "update"
             \/ req[r].op \in {"delete", "reindex"} /\ req'[r].pc \notin {"done", "dead"}
      BY <1>11, ReqGotoAll DEF PurgeChunks, DeleteStaged, UpdateChunks, ReqPc, LifeInv,
         RequestsInOrder
    <2>2. BeingPurged(d)' <=> BeingPurged(d)
      BY <1>1, <1>2, <1>5, <1>8, <1>9, <2>1 DEF BeingPurged
    <2>. QED  BY <1>6, <2>1, <2>2, NothingShown, Stutters
  <1>12. CASE DeleteRow(r) \/ ReindexStatus(r)
    <2>1. /\ req[r].op \in {"delete", "reindex"} /\ pc = "done"
          /\ req[r].pc \in {"row", "status"} /\ qdrant' = qdrant
      BY <1>5, <1>12, ReqGotoAll
         DEF DeleteRow, ReindexStatus, LifeInv, RequestsInOrder, ReqPc
    <2>2. qdrant[d] = {} /\ ~BeingPurged(d)'
      BY <1>2, <1>3, <1>8, <2>1 DEF QuietDoc, Emptied
    <2>3. /\ \A e \in Doc : e # d => doc'[e] = doc[e]
          /\ Given(d)' = Given(d)
          /\ \/ doc'[d].state = "gone"
             \/ Live(d)' /\ doc'[d].status = "PROCESSING"
      <3>1. CASE DeleteRow(r)
        BY <1>2, <1>8, <2>1, <3>1 DEF DeleteRow, DropRow, Given, TypeInv, TypeOK, DocRow
      <3>2. CASE ReindexStatus(r)
        BY <1>2, <1>8, <2>1, <3>2, SetStatusShows DEF ReindexStatus, Status, Live
      <3>. QED  BY <1>12, <3>1, <3>2
    <2>4. Phase(d)' \in {"removed", "pending"}
      BY <2>2, <2>3, PhaseOf
    <2>5. Hits(d) = {} /\ Hits(d)' = Hits(d)
      BY <2>1, <2>2 DEF Hits
    <2>6. \A e \in Doc : e # d => Same(e)
      BY <1>6, <2>1, <2>3, NothingShown
    <2>7. Index!Remove(d) \/ Index!Reindex(d)
      BY <1>8, <2>1, <2>3, <2>4, <2>5, <2>6, OneDocument
         DEF Index!Remove, Index!Reindex, Index!Turns
    <2>. QED  BY <2>7 DEF Index!Next
  <1>13. CASE UpdateVectors(r)
    <2>1. /\ req[r].op = "update" /\ req[r].pc = "vectors" /\ UNCHANGED doc
          /\ \A e \in Doc : qdrant'[e] = IF e = d THEN Relabel(qdrant[e], req[r].acl)
                                                ELSE qdrant[e]
      BY <1>2, <1>13, NoFault DEF UpdateVectors, TypeInv, TypeOK
    <2>2. req[r].acl = doc[d].acl /\ Given(d)' = Given(d)
      BY <1>2, <1>3, <1>9, <2>1 DEF QuietDoc, Labelled, Given
    <2>3. \A e \in Doc : e # d => Same(e)
      BY <1>6, <2>1, NothingShown
    <2>4. CASE qdrant[d] = {}
      <3>1. Hits(d) = {} /\ Hits(d)' = {}
        BY <2>1, <2>4 DEF Hits, Relabel
      <3>2. Same(d)
        BY <1>9, <2>1, <2>2, <3>1 DEF Same
      <3>. QED  BY <2>3, <3>2, Stutters
    <2>5. CASE qdrant[d] # {}
      <3>1. /\ qdrant[d] \in SUBSET Batch
            /\ \A b \in qdrant[d] : b.content = doc[d].hash
        BY DEF TypeInv, TypeOK, LifeInv, StoresInOrder, OwnBatches
      <3>2. /\ qdrant'[d] # {}
            /\ \A b \in qdrant'[d] : b.content = doc[d].hash /\ b.acl = doc[d].acl
        <4>1. qdrant'[d] = Relabel(qdrant[d], doc[d].acl)
          BY <2>1, <2>2
        <4>. QED  BY <2>5, <3>1, <4>1, RelabelKeeps, RelabelLabels
      <3>3. Hits(d) # {} /\ Hits(d)' = {Given(d)}
        BY <2>1, <2>5, <3>2 DEF Hits, Given
      <3>4. Index!Relabel(d)
        BY <1>9, <2>1, <2>2, <2>3, <3>3, OneDocument DEF Index!Relabel
      <3>. QED  BY <3>4 DEF Index!Next
    <2>. QED  BY <2>4, <2>5
  <1>. QED
    BY <1>7, <1>10, <1>11, <1>12, <1>13 DEF HandlerStep

\* A request that begins is an upload, a change of access fields or a purge of
\* the index, the latter two of a document whose points are as they should be.
LEMMA ArriveShows ==
    ASSUME TypeInv, LifeInv, QuietInv, QuietRequests,
           NEW r \in Request, NEW d \in Doc, Arrive(r, d)
    PROVE  Index!Next \/ UNCHANGED Index!indexVars
  <1>1. ASSUME /\ req[r].pc = "idle" /\ qdrant' = qdrant
               /\ \A q \in Request : q # r => req'[q] = req[q]
               /\ req'[r].doc = d
               /\ \A e \in Doc : e # d => doc'[e] = doc[e]
        PROVE  \A e \in Doc : e # d => Same(e)
    <2>1. req[r].doc = None /\ None \notin Doc
      BY <1>1, ConstantsAssumption DEF LifeInv, RequestsInOrder
    <2>2. \A e \in Doc : e # d => (BeingPurged(e)' <=> BeingPurged(e))
      BY <1>1, <2>1 DEF BeingPurged, Serving
    <2>. QED  BY <1>1, <2>2, NothingShown
  <1>2. ASSUME NEW a \in Acl, NEW c \in Content, UploadCreate(r, d, a, c)
        PROVE  Index!Next
    <2>1. /\ req[r].pc = "idle" /\ qdrant' = qdrant
          /\ \A q \in Request : q # r => req'[q] = req[q]
          /\ req'[r].doc = d /\ req'[r].op = "upload"
          /\ \A e \in Doc : e # d => doc'[e] = doc[e]
          /\ doc[d].state = "unborn"
          /\ doc'[d] = [state |-> "live", status |-> "PENDING", acl |-> a, hash |-> c]
      BY <1>2 DEF UploadCreate, TypeInv, TypeOK
    <2>2. /\ \A u \in Task : task[u].doc # d
          /\ \A q \in Request : req[q].doc # d
      BY <2>1 DEF LifeInv, UnbornIsUntouched, Born
    <2>3. Hits(d) = {} /\ Hits(d)' = Hits(d)
      BY <2>1, <2>2 DEF LifeInv, StoresInOrder, OwnBatches, Hits
    <2>4. ~BeingPurged(d)' /\ Live(d)'
      BY <2>1, <2>2 DEF BeingPurged, Live
    <2>5. /\ Phase(d) = "absent" /\ Phase(d)' = "pending"
          /\ Given(d)' \in [content : Content, acl : Acl]
      BY <2>1, <2>4, PhaseOf DEF Given
    <2>6. Index!Upload(d)
      BY <1>1, <2>1, <2>3, <2>5, OneDocument DEF Index!Upload, Index!Turns, Index!Version
    <2>. QED  BY <2>6 DEF Index!Next
  <1>3. ASSUME req[r].pc = "idle", req'[r].pc = "vectors", req'[r].doc = d,
               req'[r].op # "upload", Live(d)
        PROVE  /\ \A q \in Request : req[q].doc = d => ~Serving(q)
               /\ Phase(d) \in {"pending", "indexed", "failed"} /\ ~BeingPurged(d)
               /\ Hits(d) \subseteq {Given(d)}
    <2>1. Quiet(d)
      BY <1>3 DEF QuietRequests
    <2>2. ~BeingPurged(d) /\ ~Relabelling(d, {"vectors"})
      BY <2>1 DEF Quiet, BeingPurged, Relabelling, Serving
    <2>. QED  BY <1>3, <2>1, <2>2, HitsAgree, PhaseOf DEF Quiet
  <1>4. ASSUME NEW op \in Ops, PurgeStart(r, d, op) PROVE Index!Next
    <2>1. /\ req[r].pc = "idle" /\ UNCHANGED <<doc, qdrant>> /\ Live(d)
          /\ \A q \in Request : q # r => req'[q] = req[q]
          /\ req'[r].doc = d /\ req'[r].pc = "vectors"
          /\ req'[r].op \in {"delete", "reindex"}
      BY <1>4 DEF PurgeStart, TypeInv, TypeOK
    <2>2. BeingPurged(d)' /\ Live(d)'
      BY <2>1 DEF BeingPurged, Serving, Live
    <2>3. Phase(d)' = "purging" /\ Given(d)' = Given(d) /\ Hits(d)' = Hits(d)
      BY <2>1, <2>2, PhaseOf DEF Given, Hits
    <2>4. Index!Purge(d)
      BY <1>1, <1>3, <2>1, <2>3, OneDocument DEF Index!Purge, Index!Turns, Index!Agrees
    <2>. QED  BY <2>4 DEF Index!Next
  <1>5. ASSUME NEW a \in Acl, UpdateRow(r, d, a) PROVE Index!Next
    <2>1. /\ req[r].pc = "idle" /\ qdrant' = qdrant /\ Live(d)
          /\ \A q \in Request : q # r => req'[q] = req[q]
          /\ req'[r].doc = d /\ req'[r].pc = "vectors" /\ req'[r].op = "update"
          /\ \A e \in Doc : e # d => doc'[e] = doc[e]
          /\ doc'[d] = [doc[d] EXCEPT !.acl = a]
      BY <1>5 DEF UpdateRow, TypeInv, TypeOK
    <2>2. /\ Given(d)' = [Given(d) EXCEPT !.acl = a] /\ Hits(d)' = Hits(d)
          /\ doc'[d].status = doc[d].status /\ Live(d)'
      BY <2>1 DEF Given, Hits, Live, TypeInv, TypeOK, DocRow
    <2>3. ~BeingPurged(d)'
      BY <1>3, <2>1 DEF BeingPurged, Serving
    <2>4. Phase(d)' = Phase(d)
      BY <1>3, <2>1, <2>2, <2>3, PhaseOf
    <2>5. \A e \in Doc : e # d => Same(e)
      BY <1>1, <2>1
    <2>6. /\ [e \in Doc |-> Given(e)]' = [[e \in Doc |-> Given(e)] EXCEPT ![d].acl = a]
          /\ [e \in Doc |-> Phase(e)]' = [e \in Doc |-> Phase(e)]
          /\ [e \in Doc |-> Hits(e)]' = [e \in Doc |-> Hits(e)]
      BY <2>2, <2>4, <2>5, OneDocument
    <2>7. Index!Reclassify(d)
      BY <1>3, <2>1, <2>6 DEF Index!Reclassify, Index!Agrees
    <2>. QED  BY <2>7 DEF Index!Next
  <1>. QED  BY <1>2, <1>4, <1>5 DEF Arrive

\* The initial state is an empty index.
LEMMA InitShows == Init => Index!Init
  BY DEF Init, Index!Init, Phase, Given, Hits, Live

\* Every quiet step is a step of the index or a stutter.
LEMMA NextShows ==
    ASSUME TypeInv, LifeInv, QuietInv, MaxFaults = 0, [Next /\ QuietRequests]_vars
    PROVE  [Index!Next]_(Index!indexVars)
  <1>1. CASE UNCHANGED vars
    <2>1. \A e \in Doc : Same(e)
      BY <1>1, NothingShown DEF vars, BeingPurged, Serving
    <2>. QED  BY <2>1, Stutters
  <1>2. ASSUME NEW t \in Task, WorkerStep(t) \/ IngestFails(t)
        PROVE  [Index!Next]_(Index!indexVars)
    BY <1>2, WorkerShows
  <1>3. CASE Error
    BY <1>2, <1>3, NoFault DEF Error, UpsertTimesOut, WorkerDies, HandlerDies, UploadInline
  <1>. QED
    BY <1>1, <1>2, <1>3, ArriveShows, HandlerShows DEF Next, Step, AtRest

\* The rows, points and workers behind the document API implement the index,
\* for any set of documents, ingestions and requests.
THEOREM QuietImplementsIndex == MaxFaults = 0 => (QuietSpec => ImplementsIndex)
  <1>. SUFFICES ASSUME MaxFaults = 0 PROVE QuietSpec => ImplementsIndex
    OBVIOUS
  <1>1. TypeInv /\ LifeInv /\ QuietInv /\ [Next /\ QuietRequests]_vars
           => [Index!Next]_(Index!indexVars)
    BY NextShows
  <1>. QED
    BY <1>1, InitShows, QuietInvariance, PTL DEF QuietSpec, ImplementsIndex, Index!Spec

-----------------------------------------------------------------------------
(* What follows from the abstract specification alone.                     *)

\* A change of the mapped variables at d, document by document.
LEMMA Pointwise ==
    ASSUME NEW d \in Doc, NEW x
    PROVE  /\ [e \in Doc |-> Phase(e)]' = [[e \in Doc |-> Phase(e)] EXCEPT ![d] = x] =>
                 \A e \in Doc : Phase(e)' = IF e = d THEN x ELSE Phase(e)
           /\ [e \in Doc |-> Given(e)]' = [[e \in Doc |-> Given(e)] EXCEPT ![d] = x] =>
                 \A e \in Doc : Given(e)' = IF e = d THEN x ELSE Given(e)
           /\ [e \in Doc |-> Hits(e)]' = [[e \in Doc |-> Hits(e)] EXCEPT ![d] = x] =>
                 \A e \in Doc : Hits(e)' = IF e = d THEN x ELSE Hits(e)
  OBVIOUS

\* Mapped variables that do not change.
LEMMA Frozen ==
    /\ UNCHANGED [e \in Doc |-> Phase(e)] => \A e \in Doc : Phase(e)' = Phase(e)
    /\ UNCHANGED [e \in Doc |-> Given(e)] => \A e \in Doc : Given(e)' = Given(e)
    /\ UNCHANGED [e \in Doc |-> Hits(e)] => \A e \in Doc : Hits(e)' = Hits(e)
  OBVIOUS

\* Every step of the index keeps its promise.
LEMMA IndexStepKeeps ==
    ASSUME Index!Found, [Index!Next]_(Index!indexVars) PROVE Index!Found'
  <1>. DEFINE Good(e) ==
                /\ Phase(e) = "indexed" => Hits(e) # {}
                /\ Phase(e) \in {"absent", "failed", "removed"} => Hits(e) = {}
                /\ \A v \in Hits(e) : v.content = Given(e).content
  <1>1. \A e \in Doc : Good(e)
    BY DEF Index!Found
  <1>2. SUFFICES \A e \in Doc : Good(e)'
    BY DEF Index!Found
  <1>3. CASE UNCHANGED Index!indexVars
    BY <1>1, <1>3, Frozen DEF Index!indexVars
  <1>4. ASSUME NEW d \in Doc, Index!Upload(d) PROVE \A e \in Doc : Good(e)'
    <2>1. /\ \A e \in Doc : Phase(e)' = IF e = d THEN "pending" ELSE Phase(e)
          /\ \A e \in Doc : Hits(e)' = Hits(e)
          /\ \A e \in Doc : e # d => Given(e)' = Given(e)
          /\ Hits(d) = {}
      BY <1>4, Pointwise, Frozen DEF Index!Upload, Index!Turns
    <2>. QED  BY <1>1, <2>1
  <1>5. ASSUME NEW d \in Doc, Index!Publish(d) \/ Index!Withdraw(d) \/ Index!Relabel(d)
        PROVE  \A e \in Doc : Good(e)'
    <2>1. PICK S \in {{}, {Given(d)}} :
             /\ \A e \in Doc : Hits(e)' = IF e = d THEN S ELSE Hits(e)
             /\ \A e \in Doc : Phase(e)' = Phase(e) /\ Given(e)' = Given(e)
             /\ \/ Phase(d) \in {"pending", "purging"}
                \/ Hits(d) # {} /\ S = {Given(d)}
      BY <1>5, Pointwise, Frozen DEF Index!Publish, Index!Withdraw, Index!Relabel
    <2>. QED  BY <1>1, <2>1
  <1>6. ASSUME NEW d \in Doc, Index!Reclassify(d) PROVE \A e \in Doc : Good(e)'
    <2>1. PICK a \in Acl :
             /\ \A e \in Doc : Given(e)' = IF e = d THEN [Given(d) EXCEPT !.acl = a]
                                                    ELSE Given(e)
             /\ \A e \in Doc : Phase(e)' = Phase(e) /\ Hits(e)' = Hits(e)
      BY <1>6, Pointwise, Frozen DEF Index!Reclassify
    <2>2. \A e \in Doc : Given(e)'.content = Given(e).content
      BY <2>1 DEF Given
    <2>. QED  BY <1>1, <2>1, <2>2
  <1>7. ASSUME NEW d \in Doc,
               \/ Index!Succeed(d) \/ Index!Fail(d) \/ Index!Purge(d)
               \/ Index!Remove(d) \/ Index!Reindex(d)
        PROVE  \A e \in Doc : Good(e)'
    <2>1. PICK q \in {"indexed", "failed", "purging", "removed", "pending"} :
             /\ \A e \in Doc : Phase(e)' = IF e = d THEN q ELSE Phase(e)
             /\ \A e \in Doc : Given(e)' = Given(e) /\ Hits(e)' = Hits(e)
             /\ q = "indexed" => Hits(d) = {Given(d)}
             /\ q \in {"failed", "removed"} => Hits(d) = {}
      BY <1>7, Pointwise, Frozen
         DEF Index!Succeed, Index!Fail, Index!Purge, Index!Remove, Index!Reindex, Index!Turns
    <2>. QED  BY <1>1, <2>1
  <1>. QED  BY <1>3, <1>4, <1>5, <1>6, <1>7 DEF Index!Next

\* An index keeps its promise, hence so does the document API in quiet times:
\* what is reported INDEXED is found, what failed or was removed is not.
THEOREM IndexKeepsPromise == ImplementsIndex => []Index!Found
  <1>1. Index!Init => Index!Found
    BY DEF Index!Init, Index!Found
  <1>. QED  BY <1>1, IndexStepKeeps, PTL DEF ImplementsIndex, Index!Spec

=============================================================================
