------------------------ MODULE ConnectorSync_proofs ------------------------
(***************************************************************************)
(* Proofs about ConnectorSync, for any number of pages, documents, tasks,  *)
(* requests and executions of the job: type correctness; what a run purges *)
(* when the listing of the connector is true; and, when runs are serial,   *)
(* what a deleted job and a completed run leave behind without faults and  *)
(* what the next run skips with any number of them.                        *)
(***************************************************************************)
EXTENDS MCConnectorSync, Ingestion_proofs

-----------------------------------------------------------------------------
(* Type correctness.  What a run or a deletion acts on, it was given.      *)

RunCarries(n) ==
    /\ run[n].pc = "record" => run[n].page \in Page
    /\ run[n].pc \in {"record", "stage"} => run[n].content \in Content
    /\ run[n].pc \in {"stage", "purgeRows"} => run[n].found \in Doc

DeletionCarries == del.pc \in {"chunks", "staged", "row"} => del.doc \in Doc

SyncTypeInv ==
    /\ TypeInv
    /\ SyncTypeOK
    /\ \A n \in Run : RunCarries(n)
    /\ DeletionCarries

\* The initial state is well typed.
LEMMA SyncInitType == SyncInit => SyncTypeInv
<1> SUFFICES ASSUME SyncInit PROVE SyncTypeInv
  OBVIOUS
<1>1. TypeInv
  BY InitType DEF SyncInit
<1>2. SyncTypeOK
  BY DEF SyncInit, SyncTypeOK, JobStatus, Execution, RunPc, JobDeletion
<1>3. (\A n \in Run : RunCarries(n)) /\ DeletionCarries
  BY DEF SyncInit, RunCarries, DeletionCarries
<1> QED  BY <1>1, <1>2, <1>3 DEF SyncTypeInv

\* A run that moves on keeps what it holds.
LEMMA RunGotoType ==
    ASSUME SyncTypeInv, NEW n \in Run, NEW pc \in RunPc, RunGoto(n, pc),
           pc \notin {"record", "stage", "purgeRows"}
    PROVE  run' \in [Run -> Execution] /\ \A m \in Run : RunCarries(m)'
<1>1. run' \in [Run -> Execution]
  BY DEF SyncTypeInv, SyncTypeOK, RunGoto, Execution
<1>2. \A m \in Run : RunCarries(m)'
  BY DEF SyncTypeInv, SyncTypeOK, RunGoto, Execution, RunCarries
<1> QED  BY <1>1, <1>2

\* A commit leaves tables of rows.
LEMMA CommitType ==
    ASSUME TypeInv, NEW S, NEW C, Commit(S, C)
    PROVE  doc' \in [Doc -> DocRow] /\ chunks' \in [Doc -> SUBSET Batch]
<1>1. doc' \in [Doc -> DocRow]
  BY DEF TypeInv, TypeOK, Commit, DocRow
<1>2. chunks' \in [Doc -> SUBSET Batch]
  BY DEF TypeInv, TypeOK, Commit
<1> QED  BY <1>1, <1>2

\* Rows, points, files and faults that keep their types, with the tasks and
\* the requests left alone.
LEMMA StoresType ==
    ASSUME TypeInv, UNCHANGED <<task, req>>, doc' \in [Doc -> DocRow],
           chunks' \in [Doc -> SUBSET Batch], qdrant' \in [Doc -> SUBSET Batch],
           staged' \in [Doc -> Content \cup {None}], faults' \in 0..MaxFaults
    PROVE  TypeInv'
  BY DEF TypeInv, TypeOK, TasksCarry, RequestsCarry

\* The stores of the documents are typed, from the type invariant of the
\* ingestion.
LEMMA StoresTyped ==
    ASSUME TypeInv
    PROVE  /\ doc \in [Doc -> DocRow] /\ chunks \in [Doc -> SUBSET Batch]
           /\ qdrant \in [Doc -> SUBSET Batch] /\ staged \in [Doc -> Content \cup {None}]
           /\ faults \in 0..MaxFaults
  BY DEF TypeInv, TypeOK

-----------------------------------------------------------------------------
(* Type correctness, action by action.                                     *)

\* The requests on the job (trigger_job, delete_job) and changes of the source.
LEMMA RequestTypes ==
    ASSUME SyncTypeInv,
           \/ \E p \in Page, c \in Content \cup {None} : SourceChanges(p, c)
           \/ \E n \in Run : Trigger(n)
           \/ DeleteJobStart \/ DeleteJobStep \/ DeleteJobDies
    PROVE  SyncTypeInv'
<1>1. ASSUME NEW p \in Page, NEW c \in Content \cup {None}, SourceChanges(p, c)
      PROVE  SyncTypeInv'
  <2>1. UNCHANGED <<vars, page, job, run, del>> /\ source' \in [Page -> Content \cup {None}]
    BY <1>1 DEF SourceChanges, SyncTypeInv, SyncTypeOK
  <2>2. TypeInv'
    BY <2>1, NextType DEF SyncTypeInv
  <2> QED  BY <2>1, <2>2 DEF SyncTypeInv, SyncTypeOK, RunCarries, DeletionCarries
<1>2. ASSUME NEW n \in Run, Trigger(n)
      PROVE  SyncTypeInv'
  <2>1. UNCHANGED <<vars, source, page, job, del>> /\ RunGoto(n, "queued")
    BY <1>2 DEF Trigger
  <2>2. TypeInv'
    BY <2>1, NextType DEF SyncTypeInv
  <2>3. run' \in [Run -> Execution] /\ \A m \in Run : RunCarries(m)'
    BY <2>1, RunGotoType DEF RunPc
  <2> QED  BY <2>1, <2>2, <2>3 DEF SyncTypeInv, SyncTypeOK, DeletionCarries
<1>3. CASE DeleteJobStart \/ DeleteJobRaises \/ DeleteJobRow
  <2>1. UNCHANGED <<vars, source, page, run>>
    BY <1>3 DEF DeleteJobStart, DeleteJobRaises, DeleteJobRow
  <2>2. del' \in JobDeletion
    <3>1. JobDocs \in SUBSET Doc
      BY DEF JobDocs
    <3> QED  BY <1>3, <3>1 DEF DeleteJobStart, DeleteJobRaises, DeleteJobRow, SyncTypeInv, SyncTypeOK,
                      JobDeletion
  <2>3. DeletionCarries'
    BY <1>3 DEF DeleteJobStart, DeleteJobRaises, DeleteJobRow, SyncTypeInv, SyncTypeOK, JobDeletion,
                DeletionCarries
  <2>4. job' \in [live : BOOLEAN, status : JobStatus, acl : Acl]
    BY <1>3 DEF DeleteJobStart, DeleteJobRaises, DeleteJobRow, SyncTypeInv, SyncTypeOK
  <2>5. TypeInv'
    BY <2>1, NextType DEF SyncTypeInv
  <2> QED  BY <2>1, <2>2, <2>3, <2>4, <2>5 DEF SyncTypeInv, SyncTypeOK, RunCarries
<1>4. ASSUME NEW d \in Doc, DeleteJobPoints(d)
      PROVE  SyncTypeInv'
  <2>1. /\ UNCHANGED <<doc, chunks, staged, task, req, source, page, job, run>>
        /\ del' \in JobDeletion /\ DeletionCarries'
    BY <1>4 DEF DeleteJobPoints, SyncTypeInv, SyncTypeOK, JobDeletion, DeletionCarries
  <2>2. qdrant' \in [Doc -> SUBSET Batch] /\ faults' \in 0..MaxFaults
    BY <1>4, FaultType DEF DeleteJobPoints, SyncTypeInv, TypeInv, TypeOK
  <2>3. TypeInv'
    BY <2>1, <2>2, StoresType, StoresTyped DEF SyncTypeInv
  <2> QED  BY <2>1, <2>3 DEF SyncTypeInv, SyncTypeOK, RunCarries
<1>5. CASE DeleteJobChunks \/ DeleteJobStaged \/ DeleteJobDoc
  <2>1. UNCHANGED <<qdrant, task, req, faults, source, page, job, run>>
        /\ del' \in JobDeletion /\ DeletionCarries' /\ del.doc \in Doc
    BY <1>5 DEF DeleteJobChunks, DeleteJobStaged, DeleteJobDoc, SyncTypeInv, SyncTypeOK,
                JobDeletion, DeletionCarries
  <2>2. /\ doc' \in [Doc -> DocRow] /\ chunks' \in [Doc -> SUBSET Batch]
        /\ staged' \in [Doc -> Content \cup {None}]
    BY <1>5, <2>1, DropRowType DEF DeleteJobChunks, DeleteJobStaged, DeleteJobDoc, SyncTypeInv,
       TypeInv, TypeOK
  <2>3. TypeInv'
    BY <2>1, <2>2, StoresType, StoresTyped DEF SyncTypeInv
  <2> QED  BY <2>1, <2>3 DEF SyncTypeInv, SyncTypeOK, RunCarries
<1>6. CASE DeleteJobDies
  <2>1. UNCHANGED <<doc, chunks, qdrant, staged, task, req, source, page, job, run>>
        /\ faults' \in 0..MaxFaults /\ del' \in JobDeletion /\ DeletionCarries'
    BY <1>6, FaultType DEF DeleteJobDies, SyncTypeInv, TypeInv, SyncTypeOK, JobDeletion,
                           DeletionCarries
  <2>2. TypeInv'
    BY <2>1, StoresType, StoresTyped DEF SyncTypeInv
  <2> QED  BY <2>1, <2>2 DEF SyncTypeInv, SyncTypeOK, RunCarries
<1> QED  BY <1>1, <1>2, <1>3, <1>4, <1>5, <1>6 DEF DeleteJobStep

\* A run that changes as a whole.
LEMMA RunType ==
    ASSUME SyncTypeInv, NEW n \in Run, NEW e \in Execution, run' = [run EXCEPT ![n] = e],
           e.pc = "record" => e.page \in Page,
           e.pc \in {"record", "stage"} => e.content \in Content,
           e.pc \in {"stage", "purgeRows"} => e.found \in Doc
    PROVE  run' \in [Run -> Execution] /\ \A m \in Run : RunCarries(m)'
<1>1. run' \in [Run -> Execution]
  BY DEF SyncTypeInv, SyncTypeOK
<1>2. \A m \in Run : RunCarries(m)'
  BY DEF SyncTypeInv, SyncTypeOK, RunCarries
<1> QED  BY <1>1, <1>2

\* Steps of a run that leave the stores alone.
LEMMA ListingTypes ==
    ASSUME SyncTypeInv, NEW n \in Run,
           \/ RunStart(n) \/ PurgeList(n) \/ Complete(n)
           \/ \E p \in Page : Fetch(n, p)
    PROVE  SyncTypeInv'
<1>0. UNCHANGED <<vars, source, page, del>>
  BY DEF RunStart, PurgeList, Complete, Fetch
<1>1. TypeInv' /\ DeletionCarries' /\ run \in [Run -> Execution]
  BY <1>0, NextType DEF DeletionCarries, SyncTypeInv, SyncTypeOK
<1>r. ASSUME run' \in [Run -> Execution], \A m \in Run : RunCarries(m)',
             job' \in [live : BOOLEAN, status : JobStatus, acl : Acl]
      PROVE  SyncTypeInv'
  BY <1>0, <1>1, <1>r DEF SyncTypeInv, SyncTypeOK
<1>j. job \in [live : BOOLEAN, status : JobStatus, acl : Acl]
  BY DEF SyncTypeInv, SyncTypeOK
<1>2. CASE RunStart(n)
  <2>1. job' \in [live : BOOLEAN, status : JobStatus, acl : Acl]
    BY <1>2, <1>j DEF RunStart, SetJob, JobStatus
  <2>2. CASE job.live
    <3>1. DEFINE e == [run[n] EXCEPT !.pc = "fetch", !.todo = {p \in Page : source[p] # None}]
    <3>2. e \in Execution /\ e.pc = "fetch"
      BY <1>1 DEF Execution, RunPc
    <3>3. run' = [run EXCEPT ![n] = e]
      BY <1>1, <1>2, <2>2 DEF RunStart
    <3> QED  BY <3>2, <3>3, <2>1, <1>r, RunType
  <2>3. CASE ~job.live
    BY <1>2, <2>3, <2>1, <1>r, RunGotoType DEF RunStart, RunPc
  <2> QED  BY <2>2, <2>3
<1>3. CASE PurgeList(n)
  <2> DEFINE S == {d \in JobDocs : ExternalId(d) \notin run[n].active}
             e == [run[n] EXCEPT !.pc = "purge", !.purge = S]
  <2>1. S \in SUBSET Doc
    BY DEF JobDocs
  <2>2. e \in Execution /\ e.pc = "purge"
    BY <1>1, <2>1 DEF Execution, RunPc
  <2>3. run' = [run EXCEPT ![n] = e] /\ UNCHANGED job
    BY <1>1, <1>3 DEF PurgeList
  <2> QED  BY <2>2, <2>3, <1>r, <1>j, RunType
<1>4. CASE Complete(n)
  <2>1. job' \in [live : BOOLEAN, status : JobStatus, acl : Acl]
    BY <1>4, <1>j DEF Complete, SetJob, JobStatus
  <2>2. RunGoto(n, "done") \/ RunGoto(n, "lost")
    BY <1>4 DEF Complete, Escapes
  <2> QED  BY <1>r, <2>1, <2>2, RunGotoType DEF RunPc
<1>5. ASSUME NEW p \in Page, Fetch(n, p)
      PROVE  SyncTypeInv'
  <2>1. PICK d : /\ d \in Lookup(p)
                 /\ run' = [run EXCEPT
                      ![n].pc = IF Unchanged(d, p) THEN "fetch" ELSE "record",
                      ![n].todo = run[n].todo \ {p},
                      ![n].active = run[n].active \cup IF StableIds THEN {p} ELSE {},
                      ![n].page = p, ![n].content = source[p], ![n].found = d]
    BY <1>5 DEF Fetch
  <2> DEFINE pc == IF Unchanged(d, p) THEN "fetch" ELSE "record"
             rest == run[n].todo \ {p}
             active == run[n].active \cup IF StableIds THEN {p} ELSE {}
             e == [run[n] EXCEPT !.pc = pc, !.todo = rest, !.active = active,
                                 !.page = p, !.content = source[p], !.found = d]
  <2>2. source[p] \in Content /\ d \in Doc \cup {None} /\ pc \in {"fetch", "record"}
    BY <1>5, <2>1 DEF Fetch, SyncTypeInv, SyncTypeOK, Lookup, Existing, JobDocs
  <2>3. rest \in SUBSET Page /\ active \in SUBSET (Page \cup Doc)
    BY <1>1 DEF Execution
  <2>9. run' = [run EXCEPT ![n].pc = pc, ![n].todo = rest, ![n].active = active,
                           ![n].page = p, ![n].content = source[p], ![n].found = d]
    BY <1>1, <2>1 DEF Execution
  <2> HIDE DEF pc, rest, active
  <2>4. run' = [run EXCEPT ![n] = e]
    BY <1>1, <2>9
  <2>5. e \in Execution /\ e.pc = pc /\ e.page = p /\ e.content = source[p]
    BY <1>1, <2>2, <2>3 DEF Execution, RunPc
  <2>6. UNCHANGED job
    BY <1>5 DEF Fetch
  <2> HIDE DEF e
  <2> QED  BY <2>2, <2>4, <2>5, <2>6, <1>r, <1>j, RunType
<1> QED  BY <1>2, <1>3, <1>4, <1>5

\* What a step of a run has to keep.
LEMMA RunStepCloses ==
    ASSUME SyncTypeInv, TypeInv', UNCHANGED <<source, del>>,
           page' \in [Doc -> Page \cup {None}],
           job' \in [live : BOOLEAN, status : JobStatus, acl : Acl],
           run' \in [Run -> Execution], \A m \in Run : RunCarries(m)'
    PROVE  SyncTypeInv'
  BY DEF SyncTypeInv, SyncTypeOK, DeletionCarries

\* Steps of a run that change the rows, the points or the files.
LEMMA WritingTypes ==
    ASSUME SyncTypeInv, NEW n \in Run,
           \/ RecordExisting(n) \/ \E d \in Doc : RecordNew(n, d)
           \/ Stage(n) \/ \E d \in Doc : PurgePoints(n, d)
           \/ PurgeRows(n) \/ PurgeEnd(n) \/ MarkJobFailed(n)
    PROVE  SyncTypeInv'
<1>0. UNCHANGED <<task, req, source, del>>
  BY DEF RecordExisting, RecordNew, Stage, PurgePoints, PurgeRows, PurgeEnd, MarkJobFailed
<1>1. /\ TypeInv /\ TypeOK
      /\ run \in [Run -> Execution] /\ page \in [Doc -> Page \cup {None}]
      /\ job \in [live : BOOLEAN, status : JobStatus, acl : Acl]
  BY DEF SyncTypeInv, TypeInv, SyncTypeOK
<1>2. /\ doc \in [Doc -> DocRow] /\ chunks \in [Doc -> SUBSET Batch]
      /\ qdrant \in [Doc -> SUBSET Batch] /\ staged \in [Doc -> Content \cup {None}]
      /\ faults \in 0..MaxFaults
  BY <1>1, StoresTyped
<1>3. RunCarries(n)
  BY DEF SyncTypeInv
<1>s. ASSUME doc' \in [Doc -> DocRow], chunks' \in [Doc -> SUBSET Batch],
             qdrant' \in [Doc -> SUBSET Batch], staged' \in [Doc -> Content \cup {None}],
             faults' \in 0..MaxFaults
      PROVE  TypeInv'
  BY <1>0, <1>1, <1>s, StoresType
<1>4. CASE RecordExisting(n)
  <2>1. UNCHANGED <<chunks, qdrant, staged, faults, page, job>>
    BY <1>4 DEF RecordExisting
  <2> DEFINE d == run[n].found
  <2>2. d \in Doc /\ run[n].content \in Content /\ run[n].pc = "record"
    BY <1>1, <1>3, <1>4 DEF RecordExisting, RunCarries, Execution
  <2>3. doc' \in [Doc -> DocRow]
    BY <1>2, <1>4, <2>2 DEF RecordExisting, DocRow, Status
  <2>4. CASE Live(d)
    <3> DEFINE e == [run[n] EXCEPT !.pc = "stage"]
    <3>1. run' = [run EXCEPT ![n] = e]
      BY <1>1, <1>4, <2>4 DEF RecordExisting, RunGoto
    <3>2. e \in Execution /\ e.pc = "stage" /\ e.content \in Content /\ e.found \in Doc
      BY <1>1, <2>2 DEF Execution, RunPc
    <3> HIDE DEF e
    <3>3. run' \in [Run -> Execution] /\ \A m \in Run : RunCarries(m)'
      BY <3>1, <3>2, RunType
    <3> QED  BY <1>0, <1>1, <1>2, <1>s, <2>1, <2>3, <3>3, RunStepCloses
  <2>5. CASE ~Live(d)
    <3>1. RunGoto(n, "lost")
      BY <1>4, <2>5 DEF RecordExisting, Escapes
    <3>2. run' \in [Run -> Execution] /\ \A m \in Run : RunCarries(m)'
      BY <3>1, RunGotoType DEF RunPc
    <3> QED  BY <1>0, <1>1, <1>2, <1>s, <2>1, <2>3, <3>2, RunStepCloses
  <2> QED  BY <2>4, <2>5
<1>5. ASSUME NEW d \in Doc, RecordNew(n, d)
      PROVE  SyncTypeInv'
  <2>1. UNCHANGED <<chunks, qdrant, staged, faults, job>>
    BY <1>5 DEF RecordNew
  <2>2. run[n].content \in Content /\ run[n].page \in Page
    BY <1>1, <1>3, <1>5 DEF RecordNew, RunCarries
  <2>3. doc' \in [Doc -> DocRow] /\ page' \in [Doc -> Page \cup {None}]
    <3> DEFINE row == [state |-> "live", status |-> "PENDING", acl |-> job.acl,
                       hash |-> run[n].content]
    <3>1. row \in DocRow
      BY <1>1, <2>2 DEF DocRow, Status
    <3>2. doc' = doc \/ doc' = [doc EXCEPT ![d] = row]
      BY <1>5 DEF RecordNew
    <3> HIDE DEF row
    <3>3. doc' \in [Doc -> DocRow]
      BY <1>2, <3>1, <3>2
    <3>4. page' \in [Doc -> Page \cup {None}]
      BY <1>1, <1>5, <2>2 DEF RecordNew
    <3> QED  BY <3>3, <3>4
  <2>4. CASE job.live
    <3> DEFINE a == run[n].active \cup IF StableIds THEN {} ELSE {d}
               e == [run[n] EXCEPT !.pc = "stage", !.found = d, !.active = a]
    <3>1. run' = [run EXCEPT ![n].pc = "stage", ![n].found = d, ![n].active = a]
      BY <1>1, <1>5, <2>4 DEF RecordNew
    <3>2. a \in SUBSET (Page \cup Doc)
      BY <1>1 DEF Execution
    <3> HIDE DEF a
    <3>3. run' = [run EXCEPT ![n] = e]
      BY <1>1, <3>1
    <3>4. e \in Execution /\ e.pc = "stage" /\ e.content \in Content /\ e.found \in Doc
      BY <1>1, <2>2, <3>2 DEF Execution, RunPc
    <3> HIDE DEF e
    <3>5. run' \in [Run -> Execution] /\ \A m \in Run : RunCarries(m)'
      BY <3>3, <3>4, RunType
    <3> QED  BY <1>0, <1>1, <1>2, <1>s, <2>1, <2>3, <3>5, RunStepCloses
  <2>5. CASE ~job.live
    <3>1. RunGoto(n, "lost")
      BY <1>5, <2>5 DEF RecordNew, Escapes
    <3>2. run' \in [Run -> Execution] /\ \A m \in Run : RunCarries(m)'
      BY <3>1, RunGotoType DEF RunPc
    <3> QED  BY <1>0, <1>1, <1>2, <1>s, <2>1, <2>3, <3>2, RunStepCloses
  <2> QED  BY <2>4, <2>5
<1>6. CASE Stage(n)
  <2>1. UNCHANGED <<doc, chunks, qdrant, faults, page, job>>
    BY <1>6 DEF Stage
  <2>2. run[n].content \in Content /\ run[n].found \in Doc
    BY <1>1, <1>3, <1>6 DEF Stage, RunCarries
  <2>3. staged' \in [Doc -> Content \cup {None}]
    BY <1>2, <1>6, <2>2 DEF Stage
  <2>4. CASE job.live
    <3> DEFINE S == run[n].subtasks \cup {[doc |-> run[n].found, acl |-> job.acl]}
               e == [run[n] EXCEPT !.pc = "fetch", !.subtasks = S]
    <3>1. run' = [run EXCEPT ![n].pc = "fetch", ![n].subtasks = S]
      BY <1>6, <2>4 DEF Stage
    <3>2. S \in SUBSET Subtask
      BY <1>1, <2>2 DEF Execution, Subtask
    <3> HIDE DEF S
    <3>3. run' = [run EXCEPT ![n] = e]
      BY <1>1, <3>1
    <3>4. e \in Execution /\ e.pc = "fetch"
      BY <1>1, <3>2 DEF Execution, RunPc
    <3> HIDE DEF e
    <3>5. run' \in [Run -> Execution] /\ \A m \in Run : RunCarries(m)'
      BY <3>3, <3>4, RunType
    <3> QED  BY <1>0, <1>1, <1>2, <1>s, <2>1, <2>3, <3>5, RunStepCloses
  <2>5. CASE ~job.live
    <3>1. RunGoto(n, "lost")
      BY <1>6, <2>5 DEF Stage, Escapes
    <3>2. run' \in [Run -> Execution] /\ \A m \in Run : RunCarries(m)'
      BY <3>1, RunGotoType DEF RunPc
    <3> QED  BY <1>0, <1>1, <1>2, <1>s, <2>1, <2>3, <3>2, RunStepCloses
  <2> QED  BY <2>4, <2>5
<1>7. ASSUME NEW d \in Doc, PurgePoints(n, d)
      PROVE  SyncTypeInv'
  <2>1. UNCHANGED <<doc, chunks, staged, page, job>>
    BY <1>7 DEF PurgePoints
  <2>2. qdrant' \in [Doc -> SUBSET Batch] /\ faults' \in 0..MaxFaults
    BY <1>1, <1>2, <1>7, FaultType DEF PurgePoints
  <2>3. CASE run' = [run EXCEPT ![n].pc = "purgeRows", ![n].found = d]
    <3> DEFINE e == [run[n] EXCEPT !.pc = "purgeRows", !.found = d]
    <3>1. run' = [run EXCEPT ![n] = e]
      BY <1>1, <2>3
    <3>2. e \in Execution /\ e.pc = "purgeRows" /\ e.found \in Doc
      BY <1>1 DEF Execution, RunPc
    <3> HIDE DEF e
    <3>3. run' \in [Run -> Execution] /\ \A m \in Run : RunCarries(m)'
      BY <3>1, <3>2, RunType
    <3> QED  BY <1>0, <1>1, <1>2, <1>s, <2>1, <2>2, <3>3, RunStepCloses
  <2>4. CASE RunGoto(n, "failed")
    <3>1. run' \in [Run -> Execution] /\ \A m \in Run : RunCarries(m)'
      BY <2>4, RunGotoType DEF RunPc
    <3> QED  BY <1>0, <1>1, <1>2, <1>s, <2>1, <2>2, <3>1, RunStepCloses
  <2> QED  BY <1>7, <2>3, <2>4 DEF PurgePoints
<1>8. CASE PurgeRows(n)
  <2>1. UNCHANGED <<qdrant, staged, faults, page, job>>
    BY <1>8 DEF PurgeRows
  <2>2. doc' \in [Doc -> DocRow] /\ chunks' \in [Doc -> SUBSET Batch]
    BY <1>1, <1>8, CommitType DEF PurgeRows
  <2> DEFINE S == run[n].purge \ {run[n].found}
             T == {run[n].found}
             e == [run[n] EXCEPT !.pc = "purge", !.purge = S, !.marked = T]
  <2>3. S \in SUBSET Doc /\ T \in SUBSET Doc
    BY <1>1, <1>3, <1>8 DEF PurgeRows, RunCarries, Execution
  <2>4. run' = [run EXCEPT ![n].pc = "purge", ![n].purge = S, ![n].marked = T]
    BY <1>8 DEF PurgeRows
  <2> HIDE DEF S, T
  <2>5. run' = [run EXCEPT ![n] = e]
    BY <1>1, <2>4
  <2>6. e \in Execution /\ e.pc = "purge"
    BY <1>1, <2>3 DEF Execution, RunPc
  <2> HIDE DEF e
  <2>7. run' \in [Run -> Execution] /\ \A m \in Run : RunCarries(m)'
    BY <2>5, <2>6, RunType
  <2> QED  BY <1>0, <1>1, <1>2, <1>s, <2>1, <2>2, <2>7, RunStepCloses
<1>9. CASE PurgeEnd(n)
  <2>1. UNCHANGED <<qdrant, staged, faults, page, job>>
    BY <1>9 DEF PurgeEnd
  <2>2. doc' \in [Doc -> DocRow] /\ chunks' \in [Doc -> SUBSET Batch]
    BY <1>1, <1>9, CommitType DEF PurgeEnd
  <2> DEFINE e == [run[n] EXCEPT !.pc = "fanout", !.marked = {}]
  <2>5. run' = [run EXCEPT ![n] = e]
    BY <1>1, <1>9 DEF PurgeEnd
  <2>6. e \in Execution /\ e.pc = "fanout"
    BY <1>1 DEF Execution, RunPc
  <2> HIDE DEF e
  <2>7. run' \in [Run -> Execution] /\ \A m \in Run : RunCarries(m)'
    BY <2>5, <2>6, RunType
  <2> QED  BY <1>0, <1>1, <1>2, <1>s, <2>1, <2>2, <2>7, RunStepCloses
<1>10. CASE MarkJobFailed(n)
  <2>1. UNCHANGED <<qdrant, staged, faults, page>>
    BY <1>10 DEF MarkJobFailed
  <2>2. /\ doc' \in [Doc -> DocRow] /\ chunks' \in [Doc -> SUBSET Batch]
        /\ job' \in [live : BOOLEAN, status : JobStatus, acl : Acl]
    BY <1>1, <1>2, <1>10, CommitType DEF MarkJobFailed, SetJob, JobStatus
  <2>3. RunGoto(n, "done") \/ RunGoto(n, "lost")
    BY <1>10 DEF MarkJobFailed, Escapes
  <2>4. run' \in [Run -> Execution] /\ \A m \in Run : RunCarries(m)'
    BY <2>3, RunGotoType DEF RunPc
  <2> QED  BY <1>0, <1>1, <1>2, <1>s, <2>1, <2>2, <2>4, RunStepCloses
<1> QED  BY <1>4, <1>5, <1>6, <1>7, <1>8, <1>9, <1>10

\* Sending the subtasks, and the errors of a run.
LEMMA SendingTypes ==
    ASSUME SyncTypeInv, NEW n \in Run,
           \/ \E t \in Task, s \in run[n].subtasks : FanOut(n, t, s)
           \/ \E p \in Page : FetchSwallowed(n, p)
           \/ FetchRaises(n) \/ FanOutFails(n) \/ RunDies(n)
    PROVE  SyncTypeInv'
<1>0. UNCHANGED <<doc, chunks, qdrant, staged, req, source, page, job, del>>
  BY DEF FanOut, FetchSwallowed, FetchRaises, FanOutFails, RunDies
<1>1. /\ TypeInv /\ TypeOK
      /\ run \in [Run -> Execution] /\ page \in [Doc -> Page \cup {None}]
      /\ job \in [live : BOOLEAN, status : JobStatus, acl : Acl]
  BY DEF SyncTypeInv, TypeInv, SyncTypeOK
<1>2. ASSUME NEW t \in Task, NEW s \in run[n].subtasks, FanOut(n, t, s)
      PROVE  SyncTypeInv'
  <2>1. s.doc \in Doc /\ s.acl \in Acl
    BY <1>1 DEF Execution, Subtask
  <2>2. task' \in [Task -> TaskRun] /\ TasksCarry'
    BY <1>1, <1>2, <2>1, DispatchType DEF FanOut
  <2>3. TypeInv'
    BY <1>0, <1>2, <1>1, <2>2 DEF FanOut, TypeInv, TypeOK, RequestsCarry
  <2> DEFINE S == run[n].subtasks \ {s}
             e == [run[n] EXCEPT !.subtasks = S]
  <2>4. S \in SUBSET Subtask /\ run' = [run EXCEPT ![n].subtasks = S]
    BY <1>1, <1>2 DEF FanOut, Execution
  <2> HIDE DEF S
  <2>5. run' = [run EXCEPT ![n] = e]
    BY <1>1, <2>4
  <2>6. e \in Execution /\ e.pc = "fanout"
    BY <1>1, <1>2, <2>4 DEF Execution, FanOut
  <2> HIDE DEF e
  <2>7. run' \in [Run -> Execution] /\ \A m \in Run : RunCarries(m)'
    BY <2>5, <2>6, RunType
  <2> QED  BY <1>0, <1>1, <2>3, <2>7, RunStepCloses
<1>3. ASSUME NEW p \in Page, FetchSwallowed(n, p)
      PROVE  SyncTypeInv'
  <2>1. UNCHANGED task /\ faults' \in 0..MaxFaults
    BY <1>1, <1>3, FaultType DEF FetchSwallowed, TypeOK
  <2>2. PICK rest : rest \in {run[n].todo \ {p}, {}} /\ run' = [run EXCEPT ![n].todo = rest]
    BY <1>3 DEF FetchSwallowed
  <2> DEFINE e == [run[n] EXCEPT !.todo = rest]
  <2>3. rest \in SUBSET Page
    BY <1>1, <2>2 DEF Execution
  <2>4. run' = [run EXCEPT ![n] = e]
    BY <1>1, <2>2
  <2>5. e \in Execution /\ e.pc = "fetch"
    BY <1>1, <1>3, <2>3 DEF Execution, FetchSwallowed
  <2> HIDE DEF e
  <2>6. run' \in [Run -> Execution] /\ \A m \in Run : RunCarries(m)'
    BY <2>4, <2>5, RunType
  <2>7. TypeInv'
    BY <1>0, <1>1, <2>1, StoresType, StoresTyped
  <2> QED  BY <1>0, <1>1, <2>6, <2>7, RunStepCloses
<1>4. CASE FetchRaises(n) \/ FanOutFails(n) \/ RunDies(n)
  <2>1. UNCHANGED task /\ faults' \in 0..MaxFaults
    BY <1>1, <1>4, FaultType DEF FetchRaises, FanOutFails, RunDies
  <2>2. RunGoto(n, "failed") \/ RunGoto(n, "lost")
    BY <1>4 DEF FetchRaises, FanOutFails, RunDies
  <2>3. run' \in [Run -> Execution] /\ \A m \in Run : RunCarries(m)'
    BY <2>2, RunGotoType DEF RunPc
  <2>4. TypeInv'
    BY <1>0, <1>1, <2>1, StoresType, StoresTyped
  <2> QED  BY <1>0, <1>1, <2>3, <2>4, RunStepCloses
<1> QED  BY <1>2, <1>3, <1>4

\* Every step keeps the types.
LEMMA SyncNextType == SyncTypeInv /\ [SyncNext]_allVars => SyncTypeInv'
<1> SUFFICES ASSUME SyncTypeInv, [SyncNext]_allVars PROVE SyncTypeInv'
  OBVIOUS
<1>1. ASSUME [Next]_vars, UNCHANGED syncVars
      PROVE  SyncTypeInv'
  <2>1. TypeInv'
    BY <1>1, NextType DEF SyncTypeInv
  <2> QED  BY <1>1, <2>1 DEF syncVars, SyncTypeInv, SyncTypeOK, RunCarries, DeletionCarries
<1>2. CASE Step /\ UNCHANGED syncVars
  BY <1>1, <1>2 DEF Next
<1>3. CASE UNCHANGED allVars \/ SyncAtRest
  BY <1>1, <1>3 DEF allVars, SyncAtRest
<1>4. ASSUME NEW n \in Run, RunStep(n)
      PROVE  SyncTypeInv'
  BY <1>4, ListingTypes, WritingTypes, SendingTypes DEF RunStep
<1>5. CASE RunError
  BY <1>5, SendingTypes, RequestTypes DEF RunError
<1> QED  BY <1>2, <1>3, <1>4, <1>5, RequestTypes DEF SyncNext

\* The type invariant of ConnectorSync.
THEOREM SyncTypeCorrect == SyncSpec => []SyncTypeOK
<1>1. SyncTypeInv => SyncTypeOK
  BY DEF SyncTypeInv
<1> QED  BY <1>1, SyncInitType, SyncNextType, PTL DEF SyncSpec

-----------------------------------------------------------------------------
(* Purging.  A run purges what it has not seen.  That is what has left the *)
(* source, if the listing was true: the source did not change under it and *)
(* no object was lost on the way.                                          *)

Listing(n) == run[n].pc \in {"fetch", "record", "stage"}

TrueListing ==
    /\ source' # source => \A n \in Run : ~Listing(n)
    /\ \A n \in Run, p \in Page : source[p] # None => ~FetchSwallowed(n, p)

\* What a listing has still to deliver is there, and what is there it has
\* delivered or will deliver.
ListingCovers(n) ==
    Listing(n) =>
        /\ \A p \in run[n].todo : source[p] # None
        /\ \A p \in Page : source[p] # None => p \in run[n].todo \/ p \in run[n].active

ListingInv == SyncTypeInv /\ \A n \in Run : ListingCovers(n)

\* A run that moves on changes nothing but its place.
LEMMA RunGotoKeeps ==
    ASSUME run \in [Run -> Execution], NEW m \in Run, NEW pc \in RunPc, RunGoto(m, pc)
    PROVE  /\ run'[m].pc = pc
           /\ \A n \in Run :
                 /\ n # m => run'[n] = run[n]
                 /\ run'[n].todo = run[n].todo /\ run'[n].active = run[n].active
                 /\ run'[n].purge = run[n].purge /\ run'[n].marked = run[n].marked
                 /\ run'[n].found = run[n].found /\ run'[n].subtasks = run[n].subtasks
  BY DEF RunGoto, Execution

\* A run that changes leaves the others alone.
LEMMA RunKeepsOthers ==
    ASSUME run \in [Run -> Execution], NEW m \in Run, RunStep(m), NEW n \in Run, n # m
    PROVE  run'[n] = run[n]
<1>1. CASE RunStart(m) \/ RecordExisting(m) \/ Stage(m)
  BY <1>1 DEF RunStart, RecordExisting, Stage, RunGoto, Escapes
<1>2. CASE PurgeRows(m) \/ PurgeEnd(m) \/ PurgeList(m)
  BY <1>2 DEF PurgeRows, PurgeEnd, PurgeList
<1>3. CASE Complete(m) \/ MarkJobFailed(m)
  BY <1>3 DEF Complete, MarkJobFailed, RunGoto, Escapes
<1>4. CASE \E d \in Doc : RecordNew(m, d) \/ PurgePoints(m, d)
  BY <1>4 DEF RecordNew, PurgePoints, RunGoto, Escapes
<1>5. CASE \E t \in Task, s \in run[m].subtasks : FanOut(m, t, s)
  BY <1>5 DEF FanOut
<1>6. CASE \E p \in Page : Fetch(m, p)
  BY <1>6 DEF Fetch
<1>7. CASE \E p \in Page : FetchSwallowed(m, p)
  BY <1>7 DEF FetchSwallowed
<1> QED  BY <1>1, <1>2, <1>3, <1>4, <1>5, <1>6, <1>7 DEF RunStep

\* Only the end of the listing decides what to purge.
LEMMA PurgeIsDecidedOnce ==
    ASSUME SyncTypeInv, NEW n \in Run, NEW m \in Run, RunStep(m) \/ RunError,
           ~PurgeList(n)
    PROVE  run'[n].purge \subseteq run[n].purge
<1>1. run \in [Run -> Execution]
  BY DEF SyncTypeInv, SyncTypeOK
<1>a. CASE \E pc \in RunPc : RunGoto(m, pc)
  BY <1>1, <1>a, RunGotoKeeps
<1>2. CASE RunStart(m) \/ RecordExisting(m) \/ Stage(m)
  <2>1. CASE job.live /\ RunStart(m)
    BY <1>1, <2>1 DEF RunStart, Execution
  <2>2. CASE job.live /\ Stage(m)
    BY <1>1, <2>2 DEF Stage, Execution
  <2> QED  BY <1>2, <1>a, <2>1, <2>2 DEF RunStart, RecordExisting, Stage, Escapes, RunPc
<1>3. CASE PurgeRows(m) \/ PurgeEnd(m)
  BY <1>1, <1>3 DEF PurgeRows, PurgeEnd, Execution
<1>8. CASE Complete(m) \/ MarkJobFailed(m)
  BY <1>8, <1>a DEF Complete, MarkJobFailed, Escapes, RunPc
<1>9. CASE \E p \in Page : Fetch(m, p)
  BY <1>1, <1>9 DEF Fetch, Execution
<1>10. ASSUME NEW d \in Doc, RecordNew(m, d) \/ PurgePoints(m, d)
       PROVE  run'[n].purge \subseteq run[n].purge
  <2>1. CASE job.live /\ RecordNew(m, d)
    BY <1>1, <2>1 DEF RecordNew, Execution
  <2>2. CASE run' = [run EXCEPT ![m].pc = "purgeRows", ![m].found = d]
    BY <1>1, <2>2 DEF Execution
  <2> QED  BY <1>10, <1>a, <2>1, <2>2 DEF RecordNew, PurgePoints, Escapes, RunPc
<1>11. CASE \E t \in Task, s \in run[m].subtasks : FanOut(m, t, s)
  BY <1>1, <1>11 DEF FanOut, Execution
<1>4. CASE PurgeList(m)
  <2>1. m # n
    BY <1>4
  <2> QED  BY <1>1, <1>4, <2>1 DEF PurgeList
<1>5. ASSUME NEW k \in Run, NEW p \in Page, FetchSwallowed(k, p)
      PROVE  run'[n].purge \subseteq run[n].purge
  BY <1>1, <1>5 DEF FetchSwallowed
<1>6. ASSUME NEW k \in Run, FetchRaises(k) \/ FanOutFails(k) \/ RunDies(k)
      PROVE  run'[n].purge \subseteq run[n].purge
  BY <1>1, <1>6, RunGotoKeeps DEF FetchRaises, FanOutFails, RunDies, RunPc
<1>7. CASE DeleteJobDies
  BY <1>7 DEF DeleteJobDies
<1> QED  BY <1>2, <1>3, <1>4, <1>5, <1>6, <1>7, <1>8, <1>9, <1>10, <1>11 DEF RunStep, RunError

\* A step of a run, or an error, leaves every listing true.
LEMMA RunCovers ==
    ASSUME ListingInv, StableIds, TrueListing, NEW m \in Run, RunStep(m) \/ RunError,
           NEW n \in Run
    PROVE  ListingCovers(n)'
<1>1. run \in [Run -> Execution] /\ source' = source /\ ListingCovers(n)
  <2>1. run \in [Run -> Execution] /\ ListingCovers(n)
    BY DEF ListingInv, SyncTypeInv, SyncTypeOK
  <2>2. source' = source
    BY DEF RunStep, RunError, RunStart, Fetch, FetchSwallowed, RecordExisting, RecordNew, Stage,
           PurgeList, PurgePoints, PurgeRows, PurgeEnd, FanOut, Complete, MarkJobFailed,
           FetchRaises, FanOutFails, RunDies, DeleteJobDies
  <2> QED  BY <2>1, <2>2
<1>o. CASE RunStep(m) /\ n # m
  BY <1>1, <1>o, RunKeepsOthers DEF ListingCovers, Listing
<1>a. ASSUME NEW k \in Run, NEW pc \in RunPc, RunGoto(k, pc),
             pc \in {"fetch", "record", "stage"} => Listing(k)
      PROVE  ListingCovers(n)'
  <2>1. run'[k].pc = pc /\ run'[n].todo = run[n].todo /\ run'[n].active = run[n].active
        /\ (n # k => run'[n] = run[n])
    BY <1>1, <1>a, RunGotoKeeps
  <2> QED  BY <1>1, <1>a, <2>1 DEF ListingCovers, Listing
<1>2. CASE RunStart(m) /\ n = m
  <2>1. CASE job.live
    <3>1. run'[n].todo = {p \in Page : source[p] # None}
      <4> DEFINE present == {p \in Page : source[p] # None}
      <4>1. run' = [run EXCEPT ![n].pc = "fetch", ![n].todo = present]
        BY <1>2, <2>1 DEF RunStart
      <4> HIDE DEF present
      <4>2. run'[n].todo = present
        BY <1>1, <4>1 DEF Execution
      <4> QED  BY <4>2 DEF present
    <3> QED  BY <1>1, <3>1 DEF ListingCovers
  <2> QED  BY <1>a, <1>2, <2>1 DEF RunStart, RunPc
<1>3. CASE (RecordExisting(m) \/ Stage(m)) /\ n = m
  <2>1. CASE Stage(m) /\ job.live
    <3>1. Listing(n) /\ run'[n].todo = run[n].todo /\ run'[n].active = run[n].active
      BY <1>1, <1>3, <2>1 DEF Stage, Listing, Execution
    <3> QED  BY <1>1, <3>1 DEF ListingCovers
  <2> QED  BY <1>a, <1>3, <2>1 DEF RecordExisting, Stage, Escapes, RunPc, Listing
<1>4. CASE (PurgeList(m) \/ PurgeRows(m) \/ PurgeEnd(m)) /\ n = m
  <2>1. run'[n].pc \in {"purge", "fanout"}
    BY <1>1, <1>4 DEF PurgeList, PurgeRows, PurgeEnd, Execution
  <2> QED  BY <2>1 DEF ListingCovers, Listing
<1>11. CASE Complete(m) \/ MarkJobFailed(m)
  BY <1>a, <1>11 DEF Complete, MarkJobFailed, Escapes, RunPc
<1>12. ASSUME NEW d \in Doc, PurgePoints(m, d), n = m
       PROVE  ListingCovers(n)'
  <2>1. CASE run' = [run EXCEPT ![m].pc = "purgeRows", ![m].found = d]
    <3>1. run'[n].pc = "purgeRows"
      BY <1>1, <1>12, <2>1 DEF Execution
    <3> QED  BY <3>1 DEF ListingCovers, Listing
  <2> QED  BY <1>a, <1>12, <2>1 DEF PurgePoints, RunPc
<1>5. ASSUME NEW t \in Task, NEW s \in run[m].subtasks, FanOut(m, t, s), n = m
      PROVE  ListingCovers(n)'
  <2>1. run'[n].pc = "fanout"
    BY <1>1, <1>5 DEF FanOut, Execution
  <2> QED  BY <2>1 DEF ListingCovers, Listing
<1>6. ASSUME NEW d \in Doc, RecordNew(m, d), n = m
      PROVE  ListingCovers(n)'
  <2>1. CASE job.live
    <3>1. /\ Listing(n) /\ run'[n].todo = run[n].todo
          /\ run'[n].active = run[n].active
      BY <1>1, <1>6, <2>1 DEF RecordNew, Listing, Execution
    <3> QED  BY <1>1, <3>1 DEF ListingCovers
  <2> QED  BY <1>a, <1>6, <2>1 DEF RecordNew, Escapes, RunPc
<1>7. ASSUME NEW p \in Page, Fetch(m, p)
      PROVE  ListingCovers(n)'
  <2>1. CASE n # m
    BY <1>1, <1>7, <2>1 DEF Fetch, ListingCovers, Listing
  <2>2. CASE n = m
    <3>1. /\ run[n].pc = "fetch" /\ run'[n].todo = run[n].todo \ {p}
          /\ run'[n].active = run[n].active \cup {p}
      BY <1>1, <1>7, <2>2 DEF Fetch
    <3> QED  BY <1>1, <3>1 DEF ListingCovers, Listing
  <2> QED  BY <2>1, <2>2
<1>8. ASSUME NEW k \in Run, NEW p \in Page, FetchSwallowed(k, p)
      PROVE  ListingCovers(n)'
  <2>1. source[p] = None
    BY <1>8 DEF TrueListing
  <2>2. p \in run[k].todo /\ Listing(k) /\ ListingCovers(k)
    BY <1>8 DEF FetchSwallowed, Listing, ListingInv
  <2> QED  BY <2>1, <2>2 DEF ListingCovers
<1>9. ASSUME NEW k \in Run, FetchRaises(k) \/ FanOutFails(k) \/ RunDies(k)
      PROVE  ListingCovers(n)'
  BY <1>a, <1>9 DEF FetchRaises, FanOutFails, RunDies, RunPc
<1>10. CASE DeleteJobDies
  BY <1>1, <1>10 DEF DeleteJobDies, ListingCovers, Listing
<1> QED  BY <1>o, <1>2, <1>3, <1>4, <1>5, <1>6, <1>7, <1>8, <1>9, <1>10, <1>11, <1>12
         DEF RunStep, RunError

\* Whoever else acts leaves the runs alone, or queues one.
LEMMA OthersCover ==
    ASSUME ListingInv, TrueListing, SyncNext \/ UNCHANGED allVars,
           ~(\E m \in Run : RunStep(m)), ~RunError, NEW n \in Run
    PROVE  ListingCovers(n)' /\ run'[n].purge = run[n].purge
<1>1. run \in [Run -> Execution] /\ ListingCovers(n)
  BY DEF ListingInv, SyncTypeInv, SyncTypeOK
<1>2. CASE UNCHANGED <<source, run>>
  BY <1>1, <1>2 DEF ListingCovers, Listing
<1>3. ASSUME NEW p \in Page, NEW c \in Content \cup {None}, SourceChanges(p, c)
      PROVE  ListingCovers(n)' /\ run'[n].purge = run[n].purge
  <2>1. source' # source /\ run' = run
    BY <1>3 DEF SourceChanges, ListingInv, SyncTypeInv, SyncTypeOK
  <2>2. ~Listing(n)
    BY <2>1 DEF TrueListing
  <2> QED  BY <2>1, <2>2 DEF ListingCovers, Listing
<1>4. ASSUME NEW m \in Run, Trigger(m)
      PROVE  ListingCovers(n)' /\ run'[n].purge = run[n].purge
  BY <1>1, <1>4 DEF Trigger, RunGoto, ListingCovers, Listing
<1>5. CASE \/ Step /\ UNCHANGED syncVars
           \/ DeleteJobStart \/ DeleteJobStep \/ SyncAtRest \/ UNCHANGED allVars
  <2>1. UNCHANGED <<source, run>>
    BY <1>5 DEF syncVars, allVars, SyncAtRest, DeleteJobStart, DeleteJobStep, DeleteJobPoints,
                DeleteJobChunks, DeleteJobStaged, DeleteJobDoc, DeleteJobRow, DeleteJobRaises
  <2> QED  BY <1>2, <2>1
<1> QED  BY <1>3, <1>4, <1>5 DEF SyncNext

\* Every listing is true, and what it decides to purge has left the source.
LEMMA PurgeStep ==
    ASSUME StableIds, ListingInv, [SyncNext /\ TrueListing]_allVars
    PROVE  /\ ListingInv'
           /\ \A n \in Run : \A d \in run'[n].purge \ run[n].purge : source[page[d]] = None
<1>1. SyncTypeInv'
  BY SyncNextType DEF ListingInv
<1>2. CASE UNCHANGED allVars
  <2>1. UNCHANGED <<source, run>>
    BY <1>2 DEF allVars, syncVars
  <2> QED  BY <1>1, <2>1 DEF ListingInv, ListingCovers, Listing
<1>3. CASE (SyncNext /\ TrueListing) /\ ~(\E m \in Run : RunStep(m)) /\ ~RunError
  BY <1>1, <1>3, OthersCover DEF ListingInv
<1>4. ASSUME TrueListing, NEW m \in Run, RunStep(m) \/ RunError
      PROVE  /\ ListingInv'
             /\ \A n \in Run : \A d \in run'[n].purge \ run[n].purge : source[page[d]] = None
  <2>1. ListingInv'
    BY <1>1, <1>4, RunCovers DEF ListingInv
  <2>2. ASSUME NEW n \in Run, PurgeList(n), NEW d \in run'[n].purge
        PROVE  source[page[d]] = None
    <3>1. /\ run[n].todo = {} /\ Listing(n) /\ d \in JobDocs
          /\ ExternalId(d) \notin run[n].active
      BY <2>2 DEF PurgeList, Listing, ListingInv, SyncTypeInv, SyncTypeOK
    <3>2. page[d] \in Page /\ page[d] \notin run[n].active
      BY <3>1 DEF JobDocs, ExternalId, ListingInv, SyncTypeInv, SyncTypeOK
    <3> QED  BY <3>1, <3>2 DEF ListingInv, ListingCovers
  <2> QED  BY <1>4, <2>1, <2>2, PurgeIsDecidedOnce DEF ListingInv
<1>5. CASE RunError /\ SyncNext /\ TrueListing
  <2>1. CASE \E m \in Run : TRUE
    BY <1>4, <1>5, <2>1
  <2>2. CASE Run = {}
    <3>1. SyncTypeInv' /\ Run = {}
      BY <1>1, <2>2
    <3> QED  BY <3>1 DEF ListingInv
  <2> QED  BY <2>1, <2>2
<1> QED  BY <1>2, <1>3, <1>4, <1>5

\* A run decides to purge only documents whose page has left the source, if
\* the connector names its objects stably and its listing is true: however
\* many runs, deletions, requests and ingestions overlap and fail meanwhile
\* (purge_deleted_external_documents).
THEOREM PurgeOnlyVanishedAlways ==
    StableIds => (SyncInit /\ [][SyncNext /\ TrueListing]_allVars => PurgeOnlyVanished)
<1> SUFFICES ASSUME StableIds
             PROVE  SyncInit /\ [][SyncNext /\ TrueListing]_allVars => PurgeOnlyVanished
  OBVIOUS
<1>1. SyncInit => ListingInv
  <2> SUFFICES ASSUME SyncInit PROVE ListingInv
    OBVIOUS
  <2>1. \A n \in Run : ListingCovers(n)
    BY DEF SyncInit, ListingCovers, Listing
  <2> QED  BY <2>1, SyncInitType DEF ListingInv
<1>2. ListingInv /\ [SyncNext /\ TrueListing]_allVars => ListingInv'
  BY PurgeStep
<1>3. ListingInv /\ [SyncNext /\ TrueListing]_allVars =>
        [\A n \in Run :
           \A d \in run'[n].purge \ run[n].purge : source[page[d]] = None]_allVars
  BY PurgeStep
<1> QED  BY <1>1, <1>2, <1>3, PTL DEF PurgeOnlyVanished

\* The serial runs of Sync_serial keep their listings true.
LEMMA SerialListing ==
    ASSUME SyncTypeInv, MaxFaults = 0, Serial
    PROVE  TrueListing
<1>1. \A n \in Run, p \in Page : source[p] # None => ~FetchSwallowed(n, p)
  BY DEF FetchSwallowed, Fault, SyncTypeInv, TypeInv, TypeOK
<1>2. ASSUME source' # source, NEW n \in Run PROVE ~Listing(n)
  BY <1>2 DEF Serial, NobodyRuns, RunActive, Listing
<1> QED  BY <1>1, <1>2 DEF TrueListing

\* The same for serial runs without faults, with which the run checks it.
COROLLARY PurgeOnlyVanishedSerially ==
    StableIds /\ MaxFaults = 0 =>
        (SyncInit /\ [][SyncNext /\ Serial]_allVars => PurgeOnlyVanished)
<1> SUFFICES ASSUME StableIds, MaxFaults = 0
             PROVE  SyncInit /\ [][SyncNext /\ Serial]_allVars => PurgeOnlyVanished
  OBVIOUS
<1>1. SyncInit => SyncTypeInv
  BY SyncInitType
<1>2. SyncTypeInv /\ [SyncNext /\ Serial]_allVars => SyncTypeInv'
  BY SyncNextType
<1>3. SyncTypeInv /\ [SyncNext /\ Serial]_allVars => [SyncNext /\ TrueListing]_allVars
  BY SerialListing
<1>4. SyncInit /\ [][SyncNext /\ TrueListing]_allVars => PurgeOnlyVanished
  BY PurgeOnlyVanishedAlways
<1> QED  BY <1>1, <1>2, <1>3, <1>4, PTL

-----------------------------------------------------------------------------
(* Serial runs without faults.  Whatever is in progress has the stores for *)
(* itself, so that what is emptied stays empty.                            *)

\* The run is past the queue and not yet at its end.
Busy(n) == RunActive(n) /\ run[n].pc # "queued"

\* At most one of a run, a deletion of the job and a request is in progress;
\* ingestions run beside the fan-out of a run and beside nothing else.  No
\* run fails or is lost.
OneAtATime ==
    /\ \A n \in Run : Busy(n) =>
          /\ job.live /\ NobodyServed /\ ~Deleting
          /\ run[n].pc # "failed"
          /\ run[n].pc # "fanout" => NobodyIngests
          /\ \A m \in Run : Busy(m) => m = n
    /\ Deleting => NobodyIngests /\ NobodyServed
    /\ \A r \in Request : Serving(r) =>
          NobodyIngests /\ \A q \in Request : Serving(q) => q = r

\* The pcs of an ingestion between its upsert and its commit.
Between == {"delete", "insert", "compensate"}

\* The points of a deleted document are gone, unless an ingestion wrote them
\* since and is about to compensate.
GoneEmptied ==
    \A d \in Doc : doc[d].state = "gone" =>
        \/ qdrant[d] = {}
        \/ \E t \in Task : task[t].doc = d /\ task[t].pc \in Between

\* Somebody is going to ingest, and so to remove, every staged file.
FilesAwaited ==
    \A d \in Doc : staged[d] # None =>
        \/ \E n \in Run : Busy(n) /\ \E s \in run[n].subtasks : s.doc = d
        \/ \E t \in Task : task[t].doc = d /\ Active(t)
        \/ \E r \in Request : req[r].doc = d /\ req[r].pc = "enqueue"

\* Only a document that exists belongs to a page.
PagesBorn == \A d \in Doc : page[d] # None => Born(d)

\* The broker takes every message: no ingestion runs in line.
ByMessage == \A t \in Task : ~task[t].inline

\* A request that purges a document has emptied its points.
PurgesEmpty ==
    \A r \in Request :
        /\ req[r].pc \in {"stage", "enqueue"} => req[r].op = "upload"
        /\ \/ req[r].pc = "chunks" /\ req[r].op \in {"delete", "reindex"}
           \/ req[r].pc \in {"staged", "row"}
           => qdrant[req[r].doc] = {}

\* The deletion of the job has every live document of the job before it, or
\* in hand with its points emptied; after it there is none.
DeletionCovers ==
    /\ del.pc \in {"chunks", "staged", "row"} => qdrant[del.doc] = {}
    /\ Deleting => \A d \in Doc : page[d] # None /\ Live(d) =>
                      d \in del.todo \/ (del.pc # "points" /\ d = del.doc)
    /\ del.pc = "done" => ~job.live /\ \A d \in Doc : page[d] # None => ~Live(d)

\* A run records and stages live documents, purges live documents, and marks
\* for deletion those whose points it has emptied.
RunTidy(n) ==
    /\ run[n].pc \in {"record", "stage"} /\ run[n].found # None => Live(run[n].found)
    /\ run[n].pc \in {"idle", "queued", "fetch", "record", "stage", "fanout"} =>
          run[n].marked = {}
    /\ run[n].pc \in {"purge", "purgeRows"} =>
          /\ \A d \in run[n].purge : Live(d) /\ d \notin run[n].marked
          /\ \A d \in run[n].marked : qdrant[d] = {}
    /\ run[n].pc = "purgeRows" =>
          run[n].found \in run[n].purge /\ qdrant[run[n].found] = {}

SerialInv ==
    /\ OneAtATime
    /\ GoneEmptied
    /\ FilesAwaited
    /\ PagesBorn
    /\ ByMessage
    /\ PurgesEmpty
    /\ DeletionCovers
    /\ \A n \in Run : RunTidy(n)

\* Nothing fails silently without a budget of faults.
LEMMA NoFault == ASSUME SyncTypeInv, MaxFaults = 0 PROVE ~Fault
  BY ConstantsAssumption DEF SyncTypeInv, TypeInv, TypeOK, Fault

-----------------------------------------------------------------------------
(* Ingestions under serial runs.                                           *)

\* A step of an ingestion that came by a message: it ends without its staged
\* file, and on a deleted document without points.
Ingests(t) ==
    LET d == task[t].doc IN
    /\ req' = req
    /\ \A u \in Task : u # t => task'[u] = task[u]
    /\ task'[t].doc = d /\ task'[t].inline = task[t].inline
    /\ \A e \in Doc :
          /\ doc'[e].state = doc[e].state
          /\ e # d => staged'[e] = staged[e] /\ qdrant'[e] = qdrant[e]
    /\ staged'[d] \in {staged[d], None}
    /\ ~Active(t)' => staged'[d] = None
    /\ \/ qdrant'[d] = {}
       \/ task'[t].pc \in Between
       \/ qdrant'[d] = qdrant[d] /\ (task[t].pc \in Between => Live(d))

\* A task that moves on keeps its document and the way it came.
LEMMA TaskGotoOnly ==
    ASSUME TypeInv, NEW t \in Task, NEW pc \in TaskPc, TaskGoto(t, pc)
    PROVE  /\ task'[t].pc = pc
           /\ task'[t].doc = task[t].doc
           /\ task'[t].inline = task[t].inline
           /\ \A u \in Task : u # t => task'[u] = task[u]
  BY DEF TypeInv, TypeOK, TaskGoto, TaskRun

\* Every step of an ingestion, failures included, is one of these.
LEMMA WorkerIngests ==
    ASSUME SyncTypeInv, ByMessage, MaxFaults = 0, NEW t \in Task,
           WorkerStep(t) \/ IngestFails(t)
    PROVE  Active(t) /\ task[t].doc \in Doc /\ Ingests(t)
  <1>a. TypeInv /\ ~task[t].inline
    BY DEF SyncTypeInv, ByMessage
  <1>0. Active(t)
    BY DEF Active, WorkerStep, WorkerStart, WorkerRead, UpsertPoints,
           DeleteOldChunks, InsertChunks, InsertFails, Compensate, MarkIndexed,
           MarkFailed, Unstage, IngestFails
  <1>1. task[t].doc \in Doc
    BY <1>a, <1>0, TaskArgs DEF Active
  <1>2. CASE WorkerStart(t)
    BY <1>a, <1>1, <1>2, TaskGotoOnly, SetStatusKeeps
       DEF WorkerStart, Ingests, Active, TaskPc, Status, Between
  <1>3. CASE WorkerRead(t)
    BY <1>1, <1>3
       DEF WorkerRead, Ingests, Active, Between, SyncTypeInv, TypeInv, TypeOK, TaskRun
  <1>4. CASE UpsertPoints(t)
    <2>1. \A e \in Doc : e # task[t].doc => qdrant'[e] = qdrant[e]
      BY <1>4 DEF UpsertPoints, WritePoints, SyncTypeInv, TypeInv, TypeOK
    <2>. QED
      BY <1>a, <1>1, <1>4, <2>1, TaskGotoOnly
         DEF UpsertPoints, Ingests, Active, TaskPc, Between
  <1>5. CASE DeleteOldChunks(t)
    BY <1>1, <1>5
       DEF DeleteOldChunks, Ingests, Active, Between, SyncTypeInv, TypeInv, TypeOK,
           TaskRun
  <1>6. CASE InsertChunks(t)
    BY <1>a, <1>1, <1>6, TaskGotoOnly DEF InsertChunks, Ingests, Active, TaskPc
  <1>7. CASE InsertFails(t)
    BY <1>a, <1>1, <1>7, TaskGotoOnly DEF InsertFails, Ingests, Active, Between, TaskPc
  <1>8. CASE Compensate(t)
    <2>1. \A e \in Doc : qdrant'[e] = IF e = task[t].doc THEN {} ELSE qdrant[e]
      BY <1>8, NoFault DEF Compensate, SyncTypeInv, TypeInv, TypeOK
    <2>. QED
      BY <1>a, <1>1, <1>8, <2>1, TaskGotoOnly DEF Compensate, Ingests, Active, TaskPc
  <1>9. CASE MarkIndexed(t)
    BY <1>a, <1>1, <1>9, TaskGotoOnly, SetStatusKeeps
       DEF MarkIndexed, Ingests, Active, TaskPc, Status, Between
  <1>10. CASE MarkFailed(t)
    BY <1>a, <1>1, <1>10, TaskGotoOnly, SetStatusKeeps
       DEF MarkFailed, Ingests, Active, TaskPc, Status, Between
  <1>11. CASE Unstage(t)
    <2>1. \A e \in Doc : staged'[e] = IF e = task[t].doc THEN None ELSE staged[e]
      BY <1>11 DEF Unstage, SyncTypeInv, TypeInv, TypeOK
    <2>2. /\ task[t].pc = "unstage" /\ UNCHANGED <<doc, qdrant, req>>
          /\ TaskGoto(t, "done")
      BY <1>11 DEF Unstage
    <2>3. /\ task'[t].doc = task[t].doc /\ task'[t].inline = task[t].inline
          /\ \A u \in Task : u # t => task'[u] = task[u]
      BY <1>a, <2>2, TaskGotoOnly DEF TaskPc
    <2>. QED  BY <1>0, <1>1, <2>1, <2>2, <2>3 DEF Ingests, Between
  <1>12. CASE IngestFails(t)
    BY <1>a, <1>1, <1>12, TaskGotoOnly
       DEF IngestFails, Raise, Ingests, Active, TaskPc, Between
  <1>. QED
    BY <1>0, <1>1, <1>2, <1>3, <1>4, <1>5, <1>6, <1>7, <1>8, <1>9, <1>10, <1>11, <1>12
       DEF WorkerStep

\* An ingestion keeps the invariant.
LEMMA WorkerSerial ==
    ASSUME SyncTypeInv, SerialInv, MaxFaults = 0, NEW t \in Task,
           WorkerStep(t) \/ IngestFails(t), UNCHANGED syncVars
    PROVE  SerialInv'
  <1>1. Active(t) /\ task[t].doc \in Doc /\ Ingests(t)
    BY WorkerIngests DEF SerialInv
  <1>2. UNCHANGED <<source, page, job, run, del>>
    BY DEF syncVars
  <1>3. /\ ~Deleting /\ NobodyServed
        /\ \A n \in Run : Busy(n) => run[n].pc = "fanout"
    BY <1>1 DEF SerialInv, OneAtATime, NobodyIngests, NobodyServed
  <1>4. \A u \in Task : Active(u)' => Active(u)
    BY <1>1 DEF Ingests, Active
  <1>5. OneAtATime'
    BY <1>1, <1>2, <1>3, <1>4
       DEF Ingests, SerialInv, OneAtATime, Busy, RunActive, NobodyServed, Serving,
           NobodyIngests, Deleting
  <1>6. GoneEmptied'
    BY <1>1 DEF Ingests, SerialInv, GoneEmptied, Live
  <1>7. FilesAwaited'
    BY <1>1, <1>2 DEF Ingests, SerialInv, FilesAwaited, Busy, RunActive, Active
  <1>8. PagesBorn' /\ ByMessage'
    BY <1>1, <1>2 DEF Ingests, SerialInv, PagesBorn, Born, ByMessage
  <1>9. PurgesEmpty'
    BY <1>1, <1>3 DEF Ingests, SerialInv, PurgesEmpty, NobodyServed, Serving
  <1>10. DeletionCovers'
    BY <1>1, <1>2, <1>3 DEF Ingests, SerialInv, DeletionCovers, Deleting, Live
  <1>11. ASSUME NEW n \in Run PROVE RunTidy(n)'
    BY <1>1, <1>2, <1>3 DEF Ingests, SerialInv, RunTidy, Busy, RunActive
  <1>. QED
    BY <1>5, <1>6, <1>7, <1>8, <1>9, <1>10, <1>11 DEF SerialInv

-----------------------------------------------------------------------------
(* Requests under serial runs.                                             *)

\* A handler that moves on keeps its document and its endpoint.
LEMMA ReqGotoOnly ==
    ASSUME TypeInv, NEW r \in Request, NEW pc \in ReqPc, ReqGoto(r, pc)
    PROVE  /\ req'[r].pc = pc
           /\ req'[r].doc = req[r].doc /\ req'[r].op = req[r].op
           /\ \A q \in Request : q # r => req'[q] = req[q]
  BY DEF TypeInv, TypeOK, ReqGoto, Handler

\* A step of handler r that starts no ingestion: it writes no point, deletes
\* a row only if the points are gone, and stages a file only to send the
\* message for it.
Handles(r) ==
    /\ task' = task
    /\ \A q \in Request : q # r => req'[q] = req[q]
    /\ req'[r].doc = req[r].doc /\ req'[r].op = req[r].op
    /\ req'[r].pc \notin {"idle", "stage"}
    /\ req[r].pc # "enqueue"
    /\ req'[r].pc = "enqueue" => req[r].op = "upload"
    /\ \A e \in Doc :
          /\ Born(e)' <=> Born(e)
          /\ Live(e)' => Live(e)
          /\ doc'[e].state = "gone" => doc[e].state = "gone" \/ qdrant'[e] = {}
          /\ qdrant[e] = {} => qdrant'[e] = {}
          /\ \/ staged'[e] \in {staged[e], None}
             \/ e = req[r].doc /\ req'[r].pc = "enqueue"
    /\ req'[r].pc = "chunks" /\ req[r].op \in {"delete", "reindex"} =>
          qdrant'[req[r].doc] = {}
    /\ req'[r].pc \in {"staged", "row"} => qdrant'[req[r].doc] = {}

\* Such a step keeps the invariant: nothing else is in progress.
LEMMA HandlerSerialFrame ==
    ASSUME SyncTypeInv, SerialInv, NEW r \in Request, Serving(r), Handles(r),
           UNCHANGED syncVars
    PROVE  SerialInv'
  <1>1. UNCHANGED <<source, page, job, run, del>>
    BY DEF syncVars
  <1>2. /\ NobodyIngests /\ ~Deleting
        /\ \A q \in Request : Serving(q) => q = r
        /\ \A n \in Run : ~Busy(n)
    BY DEF SerialInv, OneAtATime, NobodyServed
  <1>3. \A q \in Request : Serving(q)' => q = r
    BY <1>2 DEF Handles, Serving
  <1>4. NobodyIngests' /\ ~Deleting' /\ \A n \in Run : ~Busy(n)'
    BY <1>1, <1>2 DEF Handles, NobodyIngests, Active, Deleting, Busy, RunActive
  <1>5. OneAtATime'
    BY <1>3, <1>4 DEF OneAtATime
  <1>6. GoneEmptied'
    BY DEF Handles, SerialInv, GoneEmptied
  <1>7. FilesAwaited'
    <2>. SUFFICES ASSUME NEW e \in Doc, staged'[e] # None
                  PROVE  \E q \in Request : req'[q].doc = e /\ req'[q].pc = "enqueue"
      BY DEF FilesAwaited
    <2>1. CASE staged'[e] = staged[e]
      <3>1. PICK q \in Request : req[q].doc = e /\ req[q].pc = "enqueue"
        BY <1>2, <2>1 DEF SerialInv, FilesAwaited, NobodyIngests
      <3>. QED  BY <1>2, <3>1 DEF Handles, Serving
    <2>2. CASE staged'[e] # staged[e]
      BY <2>2 DEF Handles
    <2>. QED  BY <2>1, <2>2
  <1>8. PagesBorn' /\ ByMessage'
    BY <1>1 DEF Handles, SerialInv, PagesBorn, ByMessage
  <1>9. PurgesEmpty'
    <2>. SUFFICES ASSUME NEW q \in Request
                  PROVE  /\ req'[q].pc \in {"stage", "enqueue"} => req'[q].op = "upload"
                         /\ \/ /\ req'[q].pc = "chunks"
                               /\ req'[q].op \in {"delete", "reindex"}
                            \/ req'[q].pc \in {"staged", "row"}
                            => qdrant'[req'[q].doc] = {}
      BY DEF PurgesEmpty
    <2>1. CASE q = r
      BY <2>1 DEF Handles
    <2>2. CASE q # r
      BY <1>2, <2>2 DEF Handles, Serving
    <2>. QED  BY <2>1, <2>2
  <1>10. DeletionCovers'
    <2>1. del.pc \notin {"chunks", "staged", "row"}
      BY <1>2 DEF Deleting
    <2>2. del.pc = "done" => ~job.live /\ \A d \in Doc : page[d] # None => ~Live(d)'
      BY DEF Handles, SerialInv, DeletionCovers
    <2>. QED  BY <1>1, <1>4, <2>1, <2>2 DEF DeletionCovers
  <1>11. ASSUME NEW n \in Run PROVE RunTidy(n)'
    BY <1>1, <1>2 DEF SerialInv, RunTidy, Busy, RunActive
  <1>. QED
    BY <1>5, <1>6, <1>7, <1>8, <1>9, <1>10, <1>11 DEF SerialInv

\* Every step of a handler keeps the invariant.
LEMMA HandlerSerial ==
    ASSUME SyncTypeInv, SerialInv, MaxFaults = 0, NEW r \in Request,
           HandlerStep(r), UNCHANGED syncVars
    PROVE  SerialInv'
  <1>1. Serving(r)
    BY DEF Serving, HandlerStep, UploadStage, UploadEnqueue, PurgeVectors,
           PurgeChunks, DeleteStaged, DeleteRow, ReindexStatus, UpdateVectors,
           UpdateChunks
  <1>2. TypeInv /\ ~Fault
    BY NoFault DEF SyncTypeInv
  <1>3. PICK d \in Doc : d = req[r].doc
    BY <1>1, <1>2 DEF Serving, TypeInv, RequestsCarry
  <1>4. PurgesEmpty
    BY DEF SerialInv
  <1>5. ASSUME Handles(r) PROVE SerialInv'
    BY <1>1, <1>5, HandlerSerialFrame
  <1>6. CASE UploadStage(r)
    BY <1>2, <1>3, <1>4, <1>5, <1>6, ReqGotoOnly
       DEF UploadStage, Handles, PurgesEmpty, ReqPc, Born, Live, TypeInv, TypeOK
  <1>7. ASSUME NEW t \in Task, UploadEnqueue(r, t) PROVE SerialInv'
    <2>1. /\ UNCHANGED <<doc, chunks, qdrant, staged, source, page, job, run, del>>
          /\ req[r].pc = "enqueue" /\ req'[r].pc = "done"
          /\ req'[r].doc = d
          /\ \A q \in Request : q # r => req'[q] = req[q]
      BY <1>2, <1>3, <1>7, ReqGotoOnly DEF UploadEnqueue, syncVars, ReqPc
    <2>2. /\ task[t].pc = "idle"
          /\ task'[t].doc = d /\ task'[t].pc = "queued" /\ ~task'[t].inline
          /\ \A u \in Task : u # t => task'[u] = task[u]
      BY <1>2, <1>3, <1>7 DEF UploadEnqueue, Dispatch, TypeInv, TypeOK
    <2>3. /\ NobodyIngests /\ ~Deleting
          /\ \A q \in Request : Serving(q) => q = r
          /\ \A n \in Run : ~Busy(n)
      BY <1>1 DEF SerialInv, OneAtATime, NobodyServed
    <2>4. ~Deleting' /\ \A n \in Run : ~Busy(n)'
      BY <2>1, <2>3 DEF Deleting, Busy, RunActive
    <2>5. \A q \in Request : ~Serving(q)'
      BY <2>1, <2>3 DEF Serving
    <2>6. OneAtATime'
      BY <2>4, <2>5 DEF OneAtATime
    <2>7. GoneEmptied'
      BY <2>1, <2>2 DEF SerialInv, GoneEmptied, Between
    <2>8. FilesAwaited'
      <3>1. Active(t)'
        BY <2>2 DEF Active
      <3>. SUFFICES ASSUME NEW e \in Doc, staged[e] # None PROVE e = d
        BY <2>1, <2>2, <3>1 DEF FilesAwaited
      <3>2. PICK q \in Request : req[q].doc = e /\ req[q].pc = "enqueue"
        BY <2>3 DEF SerialInv, FilesAwaited, NobodyIngests
      <3>. QED  BY <1>3, <2>3, <3>2 DEF Serving
    <2>9. PagesBorn' /\ ByMessage'
      BY <2>1, <2>2 DEF SerialInv, PagesBorn, Born, ByMessage
    <2>10. PurgesEmpty'
      BY <1>4, <2>1 DEF PurgesEmpty
    <2>11. DeletionCovers'
      BY <2>1 DEF SerialInv, DeletionCovers, Deleting, Live
    <2>12. \A n \in Run : RunTidy(n)'
      BY <2>1 DEF SerialInv, RunTidy, Live
    <2>. QED
      BY <2>6, <2>7, <2>8, <2>9, <2>10, <2>11, <2>12 DEF SerialInv
  <1>8. CASE PurgeVectors(r)
    <2>1. /\ \A e \in Doc : qdrant'[e] = IF e = d THEN {} ELSE qdrant[e]
          /\ UNCHANGED <<doc, staged, task>>
          /\ ReqGoto(r, "chunks") /\ req[r].pc = "vectors"
      BY <1>2, <1>3, <1>8 DEF PurgeVectors, TypeInv, TypeOK
    <2>. QED
      BY <1>2, <1>3, <1>5, <2>1, ReqGotoOnly DEF Handles, ReqPc, Born, Live
  <1>9. CASE PurgeChunks(r)
    <2>1. /\ qdrant[d] = {}
          /\ UNCHANGED <<doc, staged, task, qdrant>> /\ req[r].pc = "chunks"
          /\ ReqGoto(r, IF req[r].op = "delete" THEN "staged" ELSE "status")
      BY <1>3, <1>4, <1>9 DEF PurgeChunks, PurgesEmpty
    <2>. QED
      BY <1>2, <1>3, <1>5, <2>1, ReqGotoOnly DEF Handles, ReqPc, Born, Live
  <1>10. CASE DeleteStaged(r)
    <2>1. /\ qdrant[d] = {} /\ req[r].pc = "staged"
          /\ UNCHANGED <<doc, task, qdrant>>
          /\ ReqGoto(r, "row")
          /\ \A e \in Doc : staged'[e] \in {staged[e], None}
      BY <1>2, <1>3, <1>4, <1>10 DEF DeleteStaged, PurgesEmpty, TypeInv, TypeOK
    <2>. QED
      BY <1>2, <1>3, <1>5, <2>1, ReqGotoOnly DEF Handles, ReqPc, Born, Live
  <1>11. CASE DeleteRow(r)
    <2>1. /\ qdrant[d] = {} /\ req[r].pc = "row"
          /\ UNCHANGED <<staged, task, qdrant>>
          /\ ReqGoto(r, "done")
          /\ \A e \in Doc : \/ doc'[e].state = doc[e].state
                            \/ e = d /\ Live(d) /\ doc'[e].state = "gone"
      BY <1>2, <1>3, <1>4, <1>11
         DEF DeleteRow, DropRow, PurgesEmpty, TypeInv, TypeOK, DocRow
    <2>. QED
      BY <1>2, <1>3, <1>5, <2>1, ReqGotoOnly DEF Handles, ReqPc, Born, Live
  <1>12. CASE ReindexStatus(r)
    <2>1. /\ UNCHANGED <<staged, task, qdrant>> /\ req[r].pc = "status"
          /\ ReqGoto(r, "done")
          /\ \A e \in Doc : doc'[e].state = doc[e].state
      BY <1>2, <1>3, <1>12, SetStatusKeeps DEF ReindexStatus, Status
    <2>. QED
      BY <1>2, <1>3, <1>5, <2>1, ReqGotoOnly DEF Handles, ReqPc, Born, Live
  <1>13. CASE UpdateVectors(r)
    <2>1. /\ UNCHANGED <<doc, staged, task>> /\ req[r].op = "update"
          /\ req[r].pc = "vectors" /\ ReqGoto(r, "chunks")
          /\ \A e \in Doc :
                qdrant'[e] = IF e = d THEN Relabel(qdrant[d], req[r].acl) ELSE qdrant[e]
      BY <1>2, <1>3, <1>13 DEF UpdateVectors, TypeInv, TypeOK
    <2>2. qdrant[d] = {} => qdrant'[d] = {}
      BY <2>1 DEF Relabel
    <2>. QED
      BY <1>2, <1>3, <1>5, <2>1, <2>2, ReqGotoOnly DEF Handles, ReqPc, Born, Live
  <1>14. CASE UpdateChunks(r)
    <2>1. /\ UNCHANGED <<doc, staged, task, qdrant>> /\ req[r].pc = "chunks"
          /\ ReqGoto(r, "done")
      BY <1>14 DEF UpdateChunks
    <2>. QED
      BY <1>2, <1>3, <1>5, <2>1, ReqGotoOnly DEF Handles, ReqPc, Born, Live
  <1>. QED
    BY <1>6, <1>7, <1>8, <1>9, <1>10, <1>11, <1>12, <1>13, <1>14 DEF HandlerStep

\* A request begins when nothing is in progress.
LEMMA ArriveSerial ==
    ASSUME SyncTypeInv, SerialInv, Serial, NEW r \in Request, NEW d \in Doc,
           Arrive(r, d), UNCHANGED syncVars
    PROVE  SerialInv'
  <1>1. /\ req[r].pc = "idle" /\ UNCHANGED <<qdrant, staged, task>>
        /\ req'[r].pc \in {"stage", "vectors"}
        /\ req'[r].pc = "stage" => req'[r].op = "upload"
        /\ \A q \in Request : q # r => req'[q] = req[q]
        /\ \A e \in Doc : \/ doc'[e].state = doc[e].state
                          \/ e = d /\ ~Born(d) /\ doc'[d].state = "live"
    <2>1. CASE \E a \in Acl, c \in Content : UploadCreate(r, d, a, c)
      BY <2>1 DEF UploadCreate, SyncTypeInv, TypeInv, TypeOK, Born
    <2>2. CASE \E op \in Ops : PurgeStart(r, d, op)
      BY <2>2 DEF PurgeStart, SyncTypeInv, TypeInv, TypeOK
    <2>3. CASE \E a \in Acl : UpdateRow(r, d, a)
      BY <2>3 DEF UpdateRow, SyncTypeInv, TypeInv, TypeOK, DocRow
    <2>. QED  BY <2>1, <2>2, <2>3 DEF Arrive
  <1>2. UNCHANGED <<source, page, job, run, del>>
    BY DEF syncVars
  <1>3. NobodyIngests /\ NobodyRuns /\ NobodyServed /\ ~Deleting
    BY <1>1 DEF Serial, RequestBegins
  <1>4. \A n \in Run : ~Busy(n)
    BY <1>3 DEF NobodyRuns, Busy
  <1>5. /\ NobodyIngests' /\ ~Deleting' /\ \A n \in Run : ~Busy(n)'
        /\ \A q \in Request : Serving(q)' => q = r
    BY <1>1, <1>2, <1>3, <1>4
       DEF NobodyIngests, Active, Deleting, Busy, RunActive, NobodyServed, Serving
  <1>6. OneAtATime'
    BY <1>5 DEF OneAtATime
  <1>7. GoneEmptied'
    BY <1>1 DEF SerialInv, GoneEmptied
  <1>8. FilesAwaited'
    BY <1>1, <1>3, <1>4 DEF SerialInv, FilesAwaited, NobodyIngests, NobodyServed, Serving
  <1>9. PagesBorn' /\ ByMessage'
    BY <1>1, <1>2 DEF SerialInv, PagesBorn, Born, ByMessage
  <1>10. PurgesEmpty'
    BY <1>1 DEF SerialInv, PurgesEmpty
  <1>11. DeletionCovers'
    <2>1. del.pc \notin {"chunks", "staged", "row"}
      BY <1>3 DEF Deleting
    <2>2. del.pc = "done" => ~job.live /\ \A e \in Doc : page[e] # None => ~Live(e)'
      BY <1>1 DEF SerialInv, DeletionCovers, PagesBorn, Live, Born
    <2>. QED  BY <1>2, <1>5, <2>1, <2>2 DEF DeletionCovers
  <1>12. ASSUME NEW n \in Run PROVE RunTidy(n)'
    BY <1>2, <1>4 DEF SerialInv, RunTidy, Busy, RunActive
  <1>. QED
    BY <1>6, <1>7, <1>8, <1>9, <1>10, <1>11, <1>12 DEF SerialInv

-----------------------------------------------------------------------------
(* The deletion of the job, under serial runs.                             *)

\* A step of the deletion: only the document in hand loses its points, its
\* file and, once they are gone, its row.
Deletes ==
    /\ UNCHANGED <<source, page, run, task, req>>
    /\ \A e \in Doc :
          /\ Born(e)' <=> Born(e)
          /\ Live(e)' => Live(e)
          /\ doc'[e].state = "gone" => doc[e].state = "gone" \/ qdrant'[e] = {}
          /\ qdrant'[e] \in {qdrant[e], {}}
          /\ staged'[e] \in {staged[e], None}

\* Such a step keeps the invariant: nothing else is in progress.
LEMMA DeletionFrame ==
    ASSUME SyncTypeInv, SerialInv, Deletes, DeletionCovers',
           NobodyIngests, NobodyServed, \A n \in Run : ~Busy(n)
    PROVE  SerialInv'
  <1>1. NobodyIngests' /\ NobodyServed' /\ \A n \in Run : ~Busy(n)'
    BY DEF Deletes, NobodyIngests, Active, NobodyServed, Serving, Busy, RunActive
  <1>2. OneAtATime'
    BY <1>1 DEF OneAtATime, NobodyServed
  <1>3. GoneEmptied'
    BY DEF Deletes, SerialInv, GoneEmptied
  <1>4. FilesAwaited'
    BY DEF Deletes, SerialInv, FilesAwaited, Busy, RunActive, Active
  <1>5. PagesBorn' /\ ByMessage'
    BY DEF Deletes, SerialInv, PagesBorn, ByMessage
  <1>6. PurgesEmpty'
    BY DEF Deletes, SerialInv, PurgesEmpty, NobodyServed, Serving
  <1>7. \A n \in Run : RunTidy(n)'
    BY DEF Deletes, SerialInv, RunTidy, Busy, RunActive
  <1>. QED  BY <1>2, <1>3, <1>4, <1>5, <1>6, <1>7 DEF SerialInv

\* Every step of delete_job keeps the invariant.
LEMMA DeletionSerial ==
    ASSUME SyncTypeInv, SerialInv, MaxFaults = 0, DeleteJobStep
    PROVE  SerialInv'
  <1>1. Deleting
    BY DEF Deleting, DeleteJobStep, DeleteJobPoints, DeleteJobChunks,
           DeleteJobStaged, DeleteJobDoc, DeleteJobRow, DeleteJobRaises
  <1>2. NobodyIngests /\ NobodyServed /\ \A n \in Run : ~Busy(n)
    BY <1>1 DEF SerialInv, OneAtATime
  <1>3. /\ TypeInv /\ ~Fault /\ del \in JobDeletion
        /\ del.pc \in {"chunks", "staged", "row"} => del.doc \in Doc
    BY NoFault DEF SyncTypeInv, SyncTypeOK, DeletionCarries
  <1>4. /\ del.pc \in {"chunks", "staged", "row"} => qdrant[del.doc] = {}
        /\ \A d \in Doc : page[d] # None /\ Live(d) =>
              d \in del.todo \/ (del.pc # "points" /\ d = del.doc)
    BY <1>1 DEF SerialInv, DeletionCovers
  <1>5. ASSUME Deletes, DeletionCovers' PROVE SerialInv'
    BY <1>2, <1>5, DeletionFrame
  <1>6. ASSUME NEW d \in Doc, DeleteJobPoints(d) PROVE SerialInv'
    <2>1. /\ UNCHANGED <<doc, staged, task, req, source, page, job, run>>
          /\ \A e \in Doc : qdrant'[e] = IF e = d THEN {} ELSE qdrant[e]
          /\ del' = [pc |-> "chunks", todo |-> del.todo \ {d}, doc |-> d]
          /\ del.pc = "points"
      BY <1>3, <1>6 DEF DeleteJobPoints, TypeInv, TypeOK
    <2>2. Deletes
      BY <2>1 DEF Deletes, Born, Live
    <2>3. /\ qdrant'[d] = {} /\ del'.doc = d /\ del'.pc = "chunks"
          /\ del'.todo = del.todo \ {d}
      BY <2>1
    <2>4. DeletionCovers'
      BY <1>4, <2>1, <2>3 DEF DeletionCovers, Live
    <2>. QED  BY <1>5, <2>2, <2>4
  <1>7. CASE DeleteJobChunks
    <2>1. /\ UNCHANGED <<doc, qdrant, staged, task, req, source, page, job, run>>
          /\ del'.pc = "staged" /\ del'.doc = del.doc /\ del'.todo = del.todo
          /\ del.pc = "chunks"
      BY <1>3, <1>7 DEF DeleteJobChunks, JobDeletion
    <2>2. Deletes
      BY <2>1 DEF Deletes, Born, Live
    <2>3. DeletionCovers'
      BY <1>4, <2>1 DEF DeletionCovers, Live
    <2>. QED  BY <1>5, <2>2, <2>3
  <1>8. CASE DeleteJobStaged
    <2>1. /\ UNCHANGED <<doc, qdrant, task, req, source, page, job, run>>
          /\ del'.pc = "row" /\ del'.doc = del.doc /\ del'.todo = del.todo
          /\ del.pc = "staged"
          /\ \A e \in Doc : staged'[e] \in {staged[e], None}
      BY <1>3, <1>8 DEF DeleteJobStaged, JobDeletion, TypeInv, TypeOK
    <2>2. Deletes
      BY <2>1 DEF Deletes, Born, Live
    <2>3. DeletionCovers'
      BY <1>4, <2>1 DEF DeletionCovers, Live
    <2>. QED  BY <1>5, <2>2, <2>3
  <1>9. CASE DeleteJobDoc
    <2>1. /\ UNCHANGED <<qdrant, staged, task, req, source, page, job, run>>
          /\ del'.pc = "points" /\ del'.todo = del.todo /\ del.pc = "row"
          /\ doc'[del.doc].state # "live"
          /\ \A e \in Doc : \/ doc'[e].state = doc[e].state
                            \/ e = del.doc /\ Live(e) /\ doc'[e].state = "gone"
      BY <1>3, <1>9 DEF DeleteJobDoc, DropRow, JobDeletion, Live, TypeInv, TypeOK, DocRow
    <2>2. Deletes
      BY <1>4, <2>1 DEF Deletes, Born, Live
    <2>3. DeletionCovers'
      BY <1>4, <2>1 DEF DeletionCovers, Live
    <2>. QED  BY <1>5, <2>2, <2>3
  <1>10. CASE DeleteJobRow
    <2>1. /\ UNCHANGED <<doc, qdrant, staged, task, req, source, page, run>>
          /\ del'.pc = "done" /\ del.pc = "points" /\ del.todo = {}
          /\ ~job'.live
      BY <1>3, <1>10 DEF DeleteJobRow, JobDeletion, vars, SyncTypeInv, SyncTypeOK
    <2>2. Deletes
      BY <2>1 DEF Deletes, Born, Live
    <2>3. DeletionCovers'
      BY <1>4, <2>1 DEF DeletionCovers, Live, Deleting
    <2>. QED  BY <1>5, <2>2, <2>3
  <1>11. CASE DeleteJobRaises
    <2>1. /\ UNCHANGED <<doc, qdrant, staged, task, req, source, page, run>>
          /\ del'.pc = "dead"
      BY <1>3, <1>11 DEF DeleteJobRaises, JobDeletion, vars
    <2>2. Deletes
      BY <2>1 DEF Deletes, Born, Live
    <2>3. DeletionCovers'
      BY <2>1 DEF DeletionCovers, Deleting
    <2>. QED  BY <1>5, <2>2, <2>3
  <1>. QED
    BY <1>6, <1>7, <1>8, <1>9, <1>10, <1>11 DEF DeleteJobStep

\* What begins or waits: a deletion with every document of the job before
\* it, a change of the source, a run that is sent.
LEMMA BeginningsSerial ==
    ASSUME SyncTypeInv, SerialInv, Serial,
           \/ DeleteJobStart
           \/ \E p \in Page, c \in Content \cup {None} : SourceChanges(p, c)
           \/ \E n \in Run : Trigger(n)
    PROVE  SerialInv'
  <1>1. CASE DeleteJobStart
    <2>1. /\ UNCHANGED <<doc, qdrant, staged, task, req, source, page, run, job>>
          /\ job.live /\ del.pc = "idle"
          /\ del'.pc = "points" /\ del'.todo = JobDocs
      BY <1>1 DEF DeleteJobStart, vars
    <2>2. NobodyIngests /\ NobodyRuns /\ NobodyServed
      BY <2>1 DEF Serial, RequestBegins
    <2>3. \A n \in Run : ~Busy(n)
      BY <2>2 DEF NobodyRuns, Busy
    <2>4. Deletes
      BY <2>1 DEF Deletes, Born, Live
    <2>5. DeletionCovers'
      BY <2>1 DEF DeletionCovers, JobDocs, Live
    <2>. QED  BY <2>2, <2>3, <2>4, <2>5, DeletionFrame
  <1>2. ASSUME UNCHANGED <<doc, qdrant, staged, task, req, page, job, del>>,
               \A n \in Run : /\ Busy(n)' <=> Busy(n)
                              /\ Busy(n) => run'[n] = run[n]
                              /\ RunTidy(n)'
        PROVE  SerialInv'
    <2>1. OneAtATime'
      BY <1>2 DEF SerialInv, OneAtATime, Deleting, NobodyIngests, Active,
                  NobodyServed, Serving
    <2>2. GoneEmptied' /\ PagesBorn' /\ ByMessage'
      BY <1>2 DEF SerialInv, GoneEmptied, PagesBorn, Born, ByMessage
    <2>3. FilesAwaited'
      BY <1>2 DEF SerialInv, FilesAwaited, Active
    <2>4. PurgesEmpty' /\ DeletionCovers'
      BY <1>2 DEF SerialInv, PurgesEmpty, DeletionCovers, Deleting, Live
    <2>. QED  BY <1>2, <2>1, <2>2, <2>3, <2>4 DEF SerialInv
  <1>3. ASSUME NEW p \in Page, NEW c \in Content \cup {None}, SourceChanges(p, c)
        PROVE  SerialInv'
    <2>1. UNCHANGED <<doc, qdrant, staged, task, req, page, job, del, run>>
      BY <1>3 DEF SourceChanges, vars
    <2>2. \A n \in Run : RunTidy(n)' /\ (Busy(n)' <=> Busy(n))
      BY <2>1 DEF SerialInv, RunTidy, Live, Busy, RunActive
    <2>. QED  BY <1>2, <2>1, <2>2
  <1>4. ASSUME NEW n \in Run, Trigger(n) PROVE SerialInv'
    <2>1. /\ UNCHANGED <<doc, qdrant, staged, task, req, page, job, del>>
          /\ run[n].pc = "idle" /\ RunGoto(n, "queued")
      BY <1>4 DEF Trigger, vars
    <2>2. /\ run'[n].pc = "queued" /\ run'[n].marked = run[n].marked
          /\ \A m \in Run : m # n => run'[m] = run[m]
      BY <2>1, RunGotoKeeps DEF SyncTypeInv, SyncTypeOK, RunPc
    <2>3. \A m \in Run : /\ Busy(m)' <=> Busy(m)
                         /\ Busy(m) => run'[m] = run[m]
      BY <2>1, <2>2 DEF Busy, RunActive
    <2>4. ASSUME NEW m \in Run PROVE RunTidy(m)'
      BY <2>1, <2>2 DEF SerialInv, RunTidy, Live
    <2>. QED  BY <1>2, <2>1, <2>3, <2>4
  <1>. QED  BY <1>1, <1>3, <1>4

-----------------------------------------------------------------------------
(* The run, under serial runs.                                             *)

\* A step of run n that sends nothing: it adds no point, and deletes a row
\* only if its points are gone.
Advances(n) ==
    /\ UNCHANGED <<task, req, del>>
    /\ job'.live = job.live
    /\ \A m \in Run : m # n => run'[m] = run[m]
    /\ run'[n].pc \in {"fetch", "record", "stage", "purge", "purgeRows", "fanout",
                       "done"}
    /\ run[n].pc = "fanout" => run'[n].pc = "done"
    /\ run'[n].pc = "done" => run[n].subtasks = {}
    /\ \A e \in Doc :
          /\ Born(e) => Born(e)'
          /\ page'[e] # None => page[e] # None \/ Born(e)'
          /\ doc'[e].state = "gone" => doc[e].state = "gone" \/ qdrant'[e] = {}
          /\ qdrant'[e] \in {qdrant[e], {}}

\* Such a step keeps the invariant if what it stages it remembers.
LEMMA AdvanceFrame ==
    ASSUME SyncTypeInv, SerialInv, NEW n \in Run, Busy(n), Advances(n),
           RunTidy(n)', FilesAwaited'
    PROVE  SerialInv'
  <1>1. /\ job.live /\ NobodyServed /\ ~Deleting
        /\ \A m \in Run : Busy(m) => m = n
        /\ run[n].pc # "fanout" => NobodyIngests
    BY DEF SerialInv, OneAtATime
  <1>2. \A m \in Run : Busy(m)' => m = n
    BY <1>1 DEF Advances, Busy, RunActive
  <1>3. NobodyServed' /\ ~Deleting' /\ (NobodyIngests' <=> NobodyIngests) /\ job'.live
    BY <1>1 DEF Advances, NobodyServed, Serving, Deleting, NobodyIngests, Active
  <1>4. Busy(n)' /\ run'[n].pc # "fanout" => NobodyIngests
    BY <1>1 DEF Advances, Busy, RunActive
  <1>5. OneAtATime'
    BY <1>2, <1>3, <1>4 DEF Advances, OneAtATime, NobodyServed
  <1>6. GoneEmptied'
    BY DEF Advances, SerialInv, GoneEmptied
  <1>7. PagesBorn' /\ ByMessage'
    BY DEF Advances, SerialInv, PagesBorn, ByMessage
  <1>8. PurgesEmpty'
    BY <1>1 DEF Advances, SerialInv, PurgesEmpty, NobodyServed, Serving
  <1>9. DeletionCovers'
    BY <1>1 DEF Advances, SerialInv, DeletionCovers, Deleting
  <1>10. ASSUME NEW m \in Run, m # n PROVE RunTidy(m)'
    BY <1>1, <1>10 DEF Advances, SerialInv, RunTidy, Busy, RunActive
  <1>. QED
    BY <1>5, <1>6, <1>7, <1>8, <1>9, <1>10 DEF SerialInv

\* A step that stages nothing leaves nobody waiting in vain.
LEMMA FilesFrame ==
    ASSUME SerialInv, NEW n \in Run, Advances(n), staged' = staged,
           run[n].subtasks \subseteq run'[n].subtasks
    PROVE  FilesAwaited'
  <1>1. ASSUME NEW m \in Run, Busy(m), run[m].subtasks # {} PROVE Busy(m)'
    BY <1>1 DEF Advances, Busy, RunActive
  <1>. SUFFICES ASSUME NEW d \in Doc, staged[d] # None
                PROVE  \/ \E m \in Run : Busy(m)' /\ \E s \in run'[m].subtasks : s.doc = d
                       \/ \E t \in Task : task[t].doc = d /\ Active(t)
                       \/ \E r \in Request : req[r].doc = d /\ req[r].pc = "enqueue"
    BY DEF FilesAwaited, Advances, Active
  <1>2. ASSUME NEW m \in Run, Busy(m), NEW s \in run[m].subtasks, s.doc = d
        PROVE  Busy(m)' /\ s \in run'[m].subtasks
    BY <1>1, <1>2 DEF Advances
  <1>. QED  BY <1>2 DEF SerialInv, FilesAwaited

\* A run starts when nothing else is in progress, or ends at once.
LEMMA StartSerial ==
    ASSUME SyncTypeInv, SerialInv, Serial, NEW n \in Run, RunStart(n)
    PROVE  SerialInv'
  <1>0. run \in [Run -> Execution] /\ job'.live = job.live
    BY DEF RunStart, SetJob, SyncTypeInv, SyncTypeOK
  <1>1. /\ UNCHANGED <<doc, qdrant, staged, task, req, page, del>>
        /\ run[n].pc = "queued"
        /\ run'[n].pc = IF job.live THEN "fetch" ELSE "done"
        /\ run'[n].marked = run[n].marked
        /\ \A m \in Run : m # n => run'[m] = run[m]
    <2>1. CASE job.live
      BY <1>0, <2>1 DEF RunStart, Execution, vars
    <2>2. CASE ~job.live
      BY <1>0, <2>2, RunGotoKeeps DEF RunStart, RunPc, vars
    <2>. QED  BY <2>1, <2>2
  <1>2. job.live => NobodyIngests /\ NobodyServed /\ ~Deleting /\ \A m \in Run : ~Busy(m)
    BY <1>1 DEF Serial, RunBegins, NobodyRuns, Busy
  <1>3. \A m \in Run : Busy(m)' <=> Busy(m) \/ (m = n /\ job.live)
    BY <1>1 DEF Busy, RunActive
  <1>4. OneAtATime'
    <2>1. /\ NobodyIngests' <=> NobodyIngests
          /\ NobodyServed' <=> NobodyServed
          /\ Deleting' <=> Deleting
          /\ \A r \in Request : Serving(r)' <=> Serving(r)
      BY <1>1 DEF NobodyIngests, Active, NobodyServed, Serving, Deleting
    <2>2. CASE job.live
      BY <1>0, <1>1, <1>2, <1>3, <2>1, <2>2 DEF OneAtATime, NobodyServed
    <2>3. CASE ~job.live
      BY <1>1, <1>3, <2>1, <2>3 DEF SerialInv, OneAtATime
    <2>. QED  BY <2>2, <2>3
  <1>5. GoneEmptied' /\ PagesBorn' /\ ByMessage'
    BY <1>1 DEF SerialInv, GoneEmptied, PagesBorn, Born, ByMessage
  <1>6. FilesAwaited'
    <2>. SUFFICES ASSUME NEW d \in Doc, staged[d] # None
                  PROVE  \/ \E m \in Run : Busy(m)' /\ \E s \in run'[m].subtasks : s.doc = d
                         \/ \E t \in Task : task[t].doc = d /\ Active(t)
                         \/ \E r \in Request : req[r].doc = d /\ req[r].pc = "enqueue"
      BY <1>1 DEF FilesAwaited, Active
    <2>1. ASSUME NEW m \in Run, Busy(m) PROVE Busy(m)' /\ run'[m] = run[m]
      BY <1>1, <1>3, <2>1 DEF Busy
    <2>. QED  BY <2>1 DEF SerialInv, FilesAwaited
  <1>7. PurgesEmpty' /\ DeletionCovers'
    BY <1>0, <1>1 DEF SerialInv, PurgesEmpty, DeletionCovers, Deleting, Live
  <1>8. ASSUME NEW m \in Run PROVE RunTidy(m)'
    BY <1>1 DEF SerialInv, RunTidy, Live
  <1>. QED  BY <1>4, <1>5, <1>6, <1>7, <1>8 DEF SerialInv

\* The listing: every row it finds is live.
LEMMA ListingSerial ==
    ASSUME SyncTypeInv, SerialInv, MaxFaults = 0, NEW n \in Run,
           \/ \E p \in Page : Fetch(n, p)
           \/ \E p \in Page : FetchSwallowed(n, p)
           \/ PurgeList(n)
    PROVE  SerialInv'
  <1>0. run \in [Run -> Execution] /\ ~Fault
    BY NoFault DEF SyncTypeInv, SyncTypeOK
  <1>1. /\ UNCHANGED <<doc, chunks, qdrant, staged, task, req, page, job, del>>
        /\ run[n].pc = "fetch"
    BY <1>0 DEF Fetch, FetchSwallowed, PurgeList, vars
  <1>2. Busy(n) /\ RunTidy(n)
    BY <1>1 DEF Busy, RunActive, SerialInv
  <1>3. ASSUME \A m \in Run : m # n => run'[m] = run[m],
               run'[n].pc \in {"fetch", "record", "purge"},
               run'[n].subtasks = run[n].subtasks, RunTidy(n)'
        PROVE  SerialInv'
    <2>1. Advances(n)
      BY <1>1, <1>3 DEF Advances, Born
    <2>. QED  BY <1>1, <1>2, <1>3, <2>1, FilesFrame, AdvanceFrame
  <1>4. ASSUME NEW p \in Page, Fetch(n, p) PROVE SerialInv'
    <2>1. PICK d \in Lookup(p) :
             run' = [run EXCEPT
                   ![n].pc = IF Unchanged(d, p) THEN "fetch" ELSE "record",
                   ![n].todo = run[n].todo \ {p},
                   ![n].active = run[n].active \cup IF StableIds THEN {p} ELSE {},
                   ![n].page = p, ![n].content = source[p], ![n].found = d]
      BY <1>4 DEF Fetch
    <2>2. /\ \A m \in Run : m # n => run'[m] = run[m]
          /\ run'[n].pc \in {"fetch", "record"}
          /\ run'[n].subtasks = run[n].subtasks
          /\ run'[n].marked = run[n].marked /\ run'[n].found = d
      BY <1>0, <2>1 DEF Execution
    <2>3. d # None => Live(d)
      BY DEF Lookup, Existing, JobDocs
    <2>4. RunTidy(n)'
      BY <1>1, <1>2, <2>2, <2>3 DEF RunTidy, Live
    <2>. QED  BY <1>3, <2>2, <2>4
  <1>5. ASSUME NEW p \in Page, FetchSwallowed(n, p) PROVE SerialInv'
    <2>1. /\ \A m \in Run : m # n => run'[m] = run[m]
          /\ run'[n].pc = "fetch"
          /\ run'[n].subtasks = run[n].subtasks
          /\ run'[n].marked = run[n].marked
      BY <1>0, <1>5 DEF FetchSwallowed, Execution
    <2>2. RunTidy(n)'
      BY <1>1, <1>2, <2>1 DEF RunTidy
    <2>. QED  BY <1>3, <2>1, <2>2
  <1>6. CASE PurgeList(n)
    <2>1. /\ \A m \in Run : m # n => run'[m] = run[m]
          /\ run'[n].pc = "purge"
          /\ run'[n].subtasks = run[n].subtasks
          /\ run'[n].marked = run[n].marked
          /\ run'[n].purge \subseteq JobDocs
      BY <1>0, <1>6 DEF PurgeList, Execution
    <2>2. RunTidy(n)'
      BY <1>1, <1>2, <2>1 DEF RunTidy, JobDocs, Live
    <2>. QED  BY <1>3, <2>1, <2>2
  <1>. QED  BY <1>4, <1>5, <1>6

\* Recording and staging: the row is live, and what is staged is remembered.
LEMMA RecordingSerial ==
    ASSUME SyncTypeInv, SerialInv, NEW n \in Run,
           RecordExisting(n) \/ (\E d \in Doc : RecordNew(n, d)) \/ Stage(n)
    PROVE  SerialInv'
  <1>0. /\ run \in [Run -> Execution] /\ doc \in [Doc -> DocRow]
        /\ page \in [Doc -> Page \cup {None}] /\ staged \in [Doc -> Content \cup {None}]
    BY DEF SyncTypeInv, SyncTypeOK, TypeInv, TypeOK
  <1>1. Busy(n) /\ RunTidy(n) /\ job.live
    BY DEF RecordExisting, RecordNew, Stage, Busy, RunActive, SerialInv, OneAtATime
  <1>2. CASE RecordExisting(n)
    <2>1. run[n].pc = "record" /\ run[n].found # None /\ Live(run[n].found)
      BY <1>1, <1>2 DEF RecordExisting, RunTidy
    <2>2. /\ UNCHANGED <<qdrant, staged, task, req, page, job, del>>
          /\ \A e \in Doc : doc'[e].state = doc[e].state
          /\ RunGoto(n, "stage") /\ run[n].found \in Doc
      BY <1>0, <1>2, <2>1 DEF RecordExisting, DocRow, Execution
    <2>3. /\ run'[n].pc = "stage" /\ run'[n].found = run[n].found
          /\ run'[n].marked = run[n].marked /\ run'[n].subtasks = run[n].subtasks
          /\ \A m \in Run : m # n => run'[m] = run[m]
      BY <1>0, <2>2, RunGotoKeeps DEF RunPc
    <2>4. RunTidy(n)'
      BY <1>1, <2>1, <2>2, <2>3 DEF RunTidy, Live
    <2>5. Advances(n)
      BY <2>1, <2>2, <2>3 DEF Advances, Born
    <2>. QED  BY <1>1, <2>2, <2>3, <2>4, <2>5, FilesFrame, AdvanceFrame
  <1>3. ASSUME NEW d \in Doc, RecordNew(n, d) PROVE SerialInv'
    <2>0. /\ doc' = [doc EXCEPT ![d] = [state |-> "live", status |-> "PENDING",
                                       acl |-> job.acl, hash |-> run[n].content]]
          /\ page' = [page EXCEPT ![d] = run[n].page]
          /\ run' = [run EXCEPT ![n].pc = "stage", ![n].found = d,
                                ![n].active = run[n].active \cup
                                                IF StableIds THEN {} ELSE {d}]
          /\ UNCHANGED <<qdrant, staged, task, req, job, del>>
          /\ run[n].pc = "record"
      BY <1>1, <1>3, Zenon DEF RecordNew
    <2>1. /\ UNCHANGED <<qdrant, staged, task, req, job, del>>
          /\ run[n].pc = "record"
          /\ doc'[d].state = "live"
          /\ \A e \in Doc : e # d => doc'[e] = doc[e] /\ page'[e] = page[e]
      BY <1>0, <2>0
    <2>2. /\ run'[n].pc = "stage" /\ run'[n].found = d
          /\ run'[n].marked = run[n].marked /\ run'[n].subtasks = run[n].subtasks
          /\ \A m \in Run : m # n => run'[m] = run[m]
      BY <1>0, <2>0 DEF Execution
    <2>3. RunTidy(n)'
      BY <1>1, <2>1, <2>2 DEF RunTidy, Live
    <2>4. Advances(n)
      BY <2>1, <2>2 DEF Advances, Born
    <2>. QED  BY <1>1, <2>1, <2>2, <2>3, <2>4, FilesFrame, AdvanceFrame
  <1>4. CASE Stage(n)
    <2>0. PICK d \in Doc : d = run[n].found
      BY <1>4 DEF Stage, SyncTypeInv, RunCarries
    <2>1. /\ UNCHANGED <<doc, qdrant, task, req, page, job, del>>
          /\ run[n].pc = "stage"
          /\ \A e \in Doc : e # d => staged'[e] = staged[e]
      BY <1>0, <1>1, <1>4, <2>0 DEF Stage
    <2>2. /\ run'[n].pc = "fetch" /\ run'[n].marked = run[n].marked
          /\ run'[n].subtasks = run[n].subtasks \cup {[doc |-> d, acl |-> job.acl]}
          /\ \A m \in Run : m # n => run'[m] = run[m]
      BY <1>0, <1>1, <1>4, <2>0 DEF Stage, Execution
    <2>3. RunTidy(n)'
      BY <1>1, <2>1, <2>2 DEF RunTidy
    <2>4. Advances(n)
      BY <2>1, <2>2 DEF Advances, Born
    <2>5. \A m \in Run : Busy(m) => Busy(m)' /\ run[m].subtasks \subseteq run'[m].subtasks
      BY <2>2 DEF Busy, RunActive
    <2>6. Busy(n)' /\ \E s \in run'[n].subtasks : s.doc = d
      <3>1. [doc |-> d, acl |-> job.acl].doc = d
        OBVIOUS
      <3>2. [doc |-> d, acl |-> job.acl] \in run'[n].subtasks
        BY <2>2
      <3>. QED  BY <2>2, <3>1, <3>2 DEF Busy, RunActive
    <2>7. FilesAwaited'
      <3>. SUFFICES ASSUME NEW e \in Doc, e # d, staged[e] # None
                    PROVE  \/ \E m \in Run : Busy(m)' /\ \E s \in run'[m].subtasks : s.doc = e
                           \/ \E t \in Task : task[t].doc = e /\ Active(t)
                           \/ \E r \in Request : req[r].doc = e /\ req[r].pc = "enqueue"
        BY <2>1, <2>6 DEF FilesAwaited, Active
      <3>. QED  BY <2>5 DEF SerialInv, FilesAwaited
    <2>. QED  BY <1>1, <2>3, <2>4, <2>7, AdvanceFrame
  <1>. QED  BY <1>2, <1>3, <1>4

\* A commit of a purge deletes rows whose points are gone.
LEMMA CommitKeeps ==
    ASSUME TypeInv, NEW S, NEW C, Commit(S, C)
    PROVE  \A e \in Doc :
              /\ Born(e) => Born(e)'
              /\ Live(e) /\ e \notin S => Live(e)'
              /\ doc'[e].state = "gone" => doc[e].state = "gone" \/ e \in S
  BY DEF TypeInv, TypeOK, DocRow, Commit, Born, Live

\* The purge: nobody writes a point between the deletion of the points of a
\* document and that of its row, so no run fails half way.
LEMMA PurgingSerial ==
    ASSUME SyncTypeInv, SerialInv, MaxFaults = 0, NEW n \in Run,
           (\E d \in Doc : PurgePoints(n, d)) \/ PurgeRows(n) \/ PurgeEnd(n)
    PROVE  SerialInv'
  <1>0. run \in [Run -> Execution] /\ TypeInv /\ ~Fault
    BY NoFault DEF SyncTypeInv, SyncTypeOK
  <1>1. Busy(n) /\ RunTidy(n) /\ run[n].pc \in {"purge", "purgeRows"}
    BY DEF PurgePoints, PurgeRows, PurgeEnd, Busy, RunActive, SerialInv
  <1>2. /\ \A d \in run[n].purge : Live(d) /\ d \notin run[n].marked
        /\ \A d \in run[n].marked : qdrant[d] = {}
    BY <1>1 DEF RunTidy
  <1>3. ASSUME NEW d \in Doc, PurgePoints(n, d) PROVE SerialInv'
    <2>1. /\ UNCHANGED <<doc, staged, task, req, page, job, del>>
          /\ run[n].pc = "purge" /\ d \in run[n].purge
          /\ \A e \in Doc : qdrant'[e] = IF e = d THEN {} ELSE qdrant[e]
          /\ run' = [run EXCEPT ![n].pc = "purgeRows", ![n].found = d]
      BY <1>0, <1>2, <1>3 DEF PurgePoints, TypeInv, TypeOK
    <2>2. /\ run'[n].pc = "purgeRows" /\ run'[n].found = d
          /\ run'[n].marked = run[n].marked /\ run'[n].purge = run[n].purge
          /\ run'[n].subtasks = run[n].subtasks
          /\ \A m \in Run : m # n => run'[m] = run[m]
      BY <1>0, <2>1 DEF Execution
    <2>3. run[n].marked \subseteq Doc
      BY <1>0 DEF Execution
    <2>4. RunTidy(n)'
      BY <1>2, <2>1, <2>2, <2>3 DEF RunTidy, Live
    <2>5. Advances(n)
      BY <2>1, <2>2 DEF Advances, Born
    <2>. QED  BY <1>1, <2>1, <2>2, <2>4, <2>5, FilesFrame, AdvanceFrame
  <1>4. CASE PurgeRows(n)
    <2>0. run[n].found \in run[n].purge /\ qdrant[run[n].found] = {}
      BY <1>1, <1>4 DEF PurgeRows, RunTidy
    <2>1. /\ UNCHANGED <<qdrant, staged, task, req, page, job, del>>
          /\ run[n].pc = "purgeRows"
          /\ \A e \in Doc :
                /\ Born(e) => Born(e)'
                /\ Live(e) /\ e \notin run[n].marked => Live(e)'
                /\ doc'[e].state = "gone" => doc[e].state = "gone" \/ e \in run[n].marked
      BY <1>0, <1>4, CommitKeeps DEF PurgeRows
    <2>2. /\ run'[n].pc = "purge" /\ run'[n].marked = {run[n].found}
          /\ run'[n].purge = run[n].purge \ {run[n].found}
          /\ run'[n].subtasks = run[n].subtasks
          /\ \A m \in Run : m # n => run'[m] = run[m]
      BY <1>0, <1>4 DEF PurgeRows, Execution
    <2>3. run[n].purge \subseteq Doc
      BY <1>0 DEF Execution
    <2>4. RunTidy(n)'
      BY <1>2, <2>0, <2>1, <2>2, <2>3 DEF RunTidy
    <2>5. Advances(n)
      BY <1>2, <2>1, <2>2 DEF Advances
    <2>. QED  BY <1>1, <2>1, <2>2, <2>4, <2>5, FilesFrame, AdvanceFrame
  <1>5. CASE PurgeEnd(n)
    <2>1. /\ UNCHANGED <<qdrant, staged, task, req, page, job, del>>
          /\ run[n].pc = "purge"
          /\ \A e \in Doc :
                /\ Born(e) => Born(e)'
                /\ doc'[e].state = "gone" => doc[e].state = "gone" \/ e \in run[n].marked
      BY <1>0, <1>5, CommitKeeps DEF PurgeEnd
    <2>2. /\ run'[n].pc = "fanout" /\ run'[n].marked = {}
          /\ run'[n].subtasks = run[n].subtasks
          /\ \A m \in Run : m # n => run'[m] = run[m]
      BY <1>0, <1>5 DEF PurgeEnd, Execution
    <2>3. RunTidy(n)'
      BY <2>2 DEF RunTidy
    <2>4. Advances(n)
      BY <1>2, <2>1, <2>2 DEF Advances
    <2>. QED  BY <1>1, <2>1, <2>2, <2>3, <2>4, FilesFrame, AdvanceFrame
  <1>. QED  BY <1>3, <1>4, <1>5

\* The fan-out hands every file over to an ingestion; the end of the run has
\* none left.
LEMMA SendingSerial ==
    ASSUME SyncTypeInv, SerialInv, NEW n \in Run,
           \/ \E t \in Task, s \in run[n].subtasks : FanOut(n, t, s)
           \/ Complete(n) \/ MarkJobFailed(n)
    PROVE  SerialInv'
  <1>0. run \in [Run -> Execution] /\ TypeInv
    BY DEF SyncTypeInv, SyncTypeOK
  <1>1. Busy(n) /\ RunTidy(n) /\ job.live /\ run[n].pc # "failed"
    BY DEF FanOut, Complete, MarkJobFailed, Busy, RunActive, SerialInv, OneAtATime
  <1>2. CASE Complete(n)
    <2>1. /\ UNCHANGED <<doc, qdrant, staged, task, req, page, del>>
          /\ run[n].pc = "fanout" /\ run[n].subtasks = {}
          /\ job'.live = job.live /\ RunGoto(n, "done")
      BY <1>1, <1>2 DEF Complete, SetJob, vars, SyncTypeInv, SyncTypeOK
    <2>2. /\ run'[n].pc = "done" /\ run'[n].subtasks = run[n].subtasks
          /\ \A m \in Run : m # n => run'[m] = run[m]
      BY <1>0, <2>1, RunGotoKeeps DEF RunPc
    <2>3. RunTidy(n)'
      BY <2>2 DEF RunTidy
    <2>4. Advances(n)
      BY <2>1, <2>2 DEF Advances, Born
    <2>. QED  BY <1>1, <2>1, <2>2, <2>3, <2>4, FilesFrame, AdvanceFrame
  <1>3. CASE MarkJobFailed(n)
    BY <1>1, <1>3 DEF MarkJobFailed
  <1>4. ASSUME NEW t \in Task, NEW s \in run[n].subtasks, FanOut(n, t, s)
        PROVE  SerialInv'
    <2>1. /\ UNCHANGED <<doc, chunks, qdrant, staged, req, page, job, del>>
          /\ run[n].pc = "fanout"
      BY <1>4 DEF FanOut
    <2>2. /\ run'[n].pc = "fanout" /\ run'[n].marked = run[n].marked
          /\ run'[n].subtasks = run[n].subtasks \ {s}
          /\ \A m \in Run : m # n => run'[m] = run[m]
      BY <1>0, <1>4, <2>1 DEF FanOut, Execution
    <2>3. s.doc \in Doc
      BY <1>0 DEF Execution, Subtask
    <2>4. /\ task[t].pc = "idle"
          /\ task'[t].doc = s.doc /\ task'[t].pc = "queued" /\ ~task'[t].inline
          /\ \A u \in Task : u # t => task'[u] = task[u]
      BY <1>0, <1>4, <2>3 DEF FanOut, Dispatch, TypeInv, TypeOK
    <2>5. \A m \in Run : Busy(m)' <=> Busy(m)
      BY <2>1, <2>2 DEF Busy, RunActive
    <2>6. /\ NobodyServed /\ ~Deleting /\ \A m \in Run : Busy(m) => m = n
      BY <1>1 DEF SerialInv, OneAtATime
    <2>7. OneAtATime'
      BY <1>1, <2>1, <2>2, <2>5, <2>6
         DEF OneAtATime, NobodyServed, Serving, Deleting
    <2>8. GoneEmptied'
      BY <2>1, <2>4 DEF SerialInv, GoneEmptied, Between
    <2>9. FilesAwaited'
      <3>1. task'[t].doc = s.doc /\ Active(t)'
        BY <2>4 DEF Active
      <3>2. \A u \in Task : Active(u) => u # t /\ task'[u] = task[u] /\ Active(u)'
        BY <2>4 DEF Active
      <3>. SUFFICES ASSUME NEW e \in Doc, e # s.doc, staged[e] # None
                    PROVE  \/ \E m \in Run : Busy(m)' /\ \E x \in run'[m].subtasks : x.doc = e
                           \/ \E u \in Task : task'[u].doc = e /\ Active(u)'
                           \/ \E r \in Request : req[r].doc = e /\ req[r].pc = "enqueue"
        BY <2>1, <3>1 DEF FilesAwaited
      <3>3. ASSUME NEW m \in Run, Busy(m), NEW x \in run[m].subtasks, x.doc = e
            PROVE  Busy(m)' /\ x \in run'[m].subtasks
        BY <2>2, <2>5, <3>3
      <3>. QED  BY <3>2, <3>3 DEF SerialInv, FilesAwaited
    <2>10. PagesBorn' /\ ByMessage'
      BY <2>1, <2>4 DEF SerialInv, PagesBorn, Born, ByMessage
    <2>11. PurgesEmpty' /\ DeletionCovers'
      BY <2>1 DEF SerialInv, PurgesEmpty, DeletionCovers, Deleting, Live
    <2>12. ASSUME NEW m \in Run PROVE RunTidy(m)'
      BY <2>1, <2>2 DEF SerialInv, RunTidy, Live
    <2>. QED
      BY <2>7, <2>8, <2>9, <2>10, <2>11, <2>12 DEF SerialInv
  <1>. QED  BY <1>2, <1>3, <1>4

-----------------------------------------------------------------------------
(* A deleted job.                                                          *)

\* The initial states satisfy the invariant.
LEMMA InitSerial == SyncInit => SerialInv
  <1>. SUFFICES ASSUME SyncInit PROVE SerialInv
    OBVIOUS
  <1>1. OneAtATime
    BY DEF SyncInit, Init, OneAtATime, Busy, RunActive, Deleting, Serving
  <1>2. GoneEmptied /\ FilesAwaited /\ PagesBorn /\ ByMessage /\ PurgesEmpty
    BY DEF SyncInit, Init, GoneEmptied, FilesAwaited, PagesBorn, ByMessage, PurgesEmpty
  <1>3. DeletionCovers
    BY DEF SyncInit, DeletionCovers, Deleting
  <1>4. \A n \in Run : RunTidy(n)
    BY DEF SyncInit, RunTidy
  <1>. QED  BY <1>1, <1>2, <1>3, <1>4 DEF SerialInv

\* Every serial step without faults keeps it.
LEMMA NextSerial ==
    ASSUME SyncTypeInv, SerialInv, MaxFaults = 0, [SyncNext /\ Serial]_allVars
    PROVE  SerialInv'
  <1>1. CASE UNCHANGED allVars
    <2>. USE <1>1 DEF allVars, vars, syncVars
    <2>1. OneAtATime'
      BY DEF SerialInv, OneAtATime, Busy, RunActive, NobodyServed, NobodyIngests,
             Serving, Active, Deleting
    <2>2. FilesAwaited'
      BY DEF SerialInv, FilesAwaited, Busy, RunActive, Active
    <2>3. GoneEmptied' /\ PagesBorn' /\ ByMessage' /\ PurgesEmpty'
      BY DEF SerialInv, GoneEmptied, PagesBorn, Born, ByMessage, PurgesEmpty
    <2>4. DeletionCovers'
      BY DEF SerialInv, DeletionCovers, Deleting, Live
    <2>5. \A n \in Run : RunTidy(n)'
      BY DEF SerialInv, RunTidy, Live
    <2>. QED  BY <2>1, <2>2, <2>3, <2>4, <2>5 DEF SerialInv
  <1>0. ~Fault
    BY NoFault
  <1>2. CASE Serial /\ Step /\ UNCHANGED syncVars
    <2>1. CASE Error
      BY <1>0, <1>2, <2>1, WorkerSerial
         DEF Error, UpsertTimesOut, WorkerDies, HandlerDies, UploadInline
    <2>. QED
      BY <1>2, <2>1, ArriveSerial, HandlerSerial, WorkerSerial DEF Step
  <1>3. ASSUME Serial, NEW n \in Run, RunStep(n) PROVE SerialInv'
    BY <1>3, StartSerial, ListingSerial, RecordingSerial, PurgingSerial, SendingSerial
       DEF RunStep
  <1>4. CASE RunError
    BY <1>0, <1>4, ListingSerial
       DEF RunError, FetchRaises, FanOutFails, RunDies, DeleteJobDies
  <1>. QED
    BY <1>1, <1>2, <1>3, <1>4, DeletionSerial, BeginningsSerial DEF SyncNext, SyncAtRest

\* Every reachable state of serial runs without faults is in order.
THEOREM SerialInvariance ==
    MaxFaults = 0 => (SyncInit /\ [][SyncNext /\ Serial]_allVars => [](SyncTypeInv /\ SerialInv))
  <1>. SUFFICES ASSUME MaxFaults = 0
                PROVE  SyncInit /\ [][SyncNext /\ Serial]_allVars => [](SyncTypeInv /\ SerialInv)
    OBVIOUS
  <1>1. SyncInit => SyncTypeInv /\ SerialInv
    BY SyncInitType, InitSerial
  <1>2. SyncTypeInv /\ SerialInv /\ [SyncNext /\ Serial]_allVars
           => SyncTypeInv' /\ SerialInv'
    BY SyncNextType, NextSerial
  <1>. QED  BY <1>1, <1>2, PTL

\* A deleted job leaves no document, no point and no staged file behind, if
\* its runs, its deletion and the requests on its documents begin only when
\* nothing is in progress and nothing fails silently (delete_job).
THEOREM DeletedJobLeavesNothingSerially ==
    MaxFaults = 0 =>
        (SyncInit /\ [][SyncNext /\ Serial]_allVars => []DeletedJobLeavesNothing)
  <1>1. SyncTypeInv /\ SerialInv => DeletedJobLeavesNothing
    <2>. SUFFICES ASSUME SyncTypeInv, SerialInv, del.pc = "done", SyncQuiet,
                         NEW d \in Doc, page[d] # None
                  PROVE  ~Live(d) /\ qdrant[d] = {} /\ staged[d] = None
      BY DEF DeletedJobLeavesNothing
    <2>1. ~Live(d) /\ Born(d)
      BY DEF SerialInv, DeletionCovers, PagesBorn
    <2>2. /\ \A t \in Task : task[t].doc = d => ~Active(t)
          /\ \A r \in Request : req[r].doc = d => ~Serving(r)
          /\ \A n \in Run : ~Busy(n)
      BY DEF SyncQuiet, Quiet, Busy
    <2>3. staged[d] = None
      BY <2>2 DEF SerialInv, FilesAwaited, Serving
    <2>4. \A t \in Task : task[t].pc \in Between => Active(t)
      BY DEF Between, Active
    <2>5. doc[d].state = "gone"
      BY <2>1 DEF SyncTypeInv, TypeInv, TypeOK, DocRow, Live, Born
    <2>. QED  BY <2>1, <2>2, <2>3, <2>4, <2>5 DEF SerialInv, GoneEmptied
  <1>. QED  BY <1>1, SerialInvariance, PTL

-----------------------------------------------------------------------------
(* A completed run mirrors the source.                                     *)

\* A page has one live document at most.
OnePageEach ==
    \A d, e \in Doc : Live(d) /\ Live(e) /\ page[d] # None /\ page[d] = page[e] => d = e

\* A live document has the hash of page p.
Mirrored(p) == \E d \in Doc : Live(d) /\ page[d] = p /\ doc[d].hash = source[p]

\* Run n is recording page p.
InHand(n, p) == run[n].pc \in {"record", "stage"} /\ run[n].page = p

\* The listing: what is left of it and what was seen are the pages of the
\* source, and each page seen is mirrored or in hand.
RunLists(n) ==
    /\ run[n].pc \in {"idle", "queued"} => run[n].active = {}
    /\ run[n].pc \in {"fetch", "record", "stage"} =>
          /\ \A p \in run[n].todo : source[p] # None
          /\ \A p \in run[n].active :
                p \in Page /\ source[p] # None /\ (Mirrored(p) \/ InHand(n, p))
          /\ \A p \in Page : source[p] # None => p \in run[n].todo \cup run[n].active

\* The page in hand: its content is that of the source, and the row found
\* for it is the one it has, if it has one.
RunRecords(n) ==
    /\ run[n].pc \in {"record", "stage"} =>
          /\ run[n].page \in Page
          /\ source[run[n].page] = run[n].content
          /\ IF run[n].found = None
               THEN \A d \in Doc : Live(d) => page[d] # run[n].page
               ELSE Live(run[n].found) /\ page[run[n].found] = run[n].page
    /\ run[n].pc = "stage" =>
          run[n].found # None /\ doc[run[n].found].hash = run[n].content

\* The purge: every page is mirrored, and what is left to purge are the live
\* documents whose page is gone.
RunPurges(n) ==
    /\ run[n].pc \in {"purge", "purgeRows", "fanout"} =>
          \A p \in Page : source[p] # None => Mirrored(p)
    /\ run[n].pc \in {"purge", "purgeRows"} =>
          \A d \in Doc : Live(d) /\ page[d] # None =>
              (source[page[d]] = None <=> d \in run[n].purge \cup run[n].marked)
    /\ run[n].pc = "fanout" =>
          \A d \in Doc : Live(d) /\ page[d] # None => source[page[d]] # None

RunMirrors(n) == RunLists(n) /\ RunRecords(n) /\ RunPurges(n)

MirrorInv == OnePageEach /\ \A n \in Run : RunMirrors(n)

\* No document is created with a page that has one.
LEMMA SamePages ==
    ASSUME OnePageEach,
           \A e \in Doc : page'[e] = page[e] /\ (Live(e)' => Live(e) \/ page[e] = None)
    PROVE  OnePageEach'
  BY DEF OnePageEach

\* A run that rests has listed nothing.
LEMMA RestingRun ==
    ASSUME NEW n \in Run, RunLists(n), ~Busy(n), run'[n] = run[n]
    PROVE  RunMirrors(n)'
  BY DEF RunMirrors, RunLists, RunRecords, RunPurges, Busy, RunActive

\* A step that leaves the run, the source and the documents of its pages as
\* they are.
LEMMA SteadyRun ==
    ASSUME SyncTypeInv, NEW n \in Run, RunMirrors(n), run'[n] = run[n],
           source' = source,
           \A e \in Doc : /\ page'[e] = page[e]
                          /\ page[e] # None => /\ Live(e)' <=> Live(e)
                                               /\ doc'[e].hash = doc[e].hash
    PROVE  RunMirrors(n)'
  <1>0. /\ run \in [Run -> Execution] /\ None \notin Page
        /\ page \in [Doc -> Page \cup {None}]
    BY SyncAssumption DEF SyncTypeInv, SyncTypeOK
  <1>1. ASSUME NEW p \in Page PROVE Mirrored(p) => Mirrored(p)'
    BY <1>0 DEF Mirrored
  <1>2. \A p \in Page : InHand(n, p)' <=> InHand(n, p)
    BY DEF InHand
  <1>3. RunLists(n)'
    BY <1>1, <1>2 DEF RunMirrors, RunLists
  <1>4. run[n].found \in Doc \cup {None}
    BY <1>0 DEF Execution
  <1>5. RunRecords(n)'
    BY <1>0, <1>4 DEF RunMirrors, RunRecords
  <1>6. RunPurges(n)'
    BY <1>1 DEF RunMirrors, RunPurges
  <1>. QED  BY <1>3, <1>5, <1>6 DEF RunMirrors

\* A step of a request, or of anything else that has the stores for itself.
LEMMA RestingMirror ==
    ASSUME MirrorInv, \A n \in Run : ~Busy(n) /\ run'[n] = run[n],
           \A e \in Doc : page'[e] = page[e] /\ (Live(e)' => Live(e) \/ page[e] = None)
    PROVE  MirrorInv'
  BY SamePages, RestingRun DEF MirrorInv, RunMirrors

\* A step that leaves every run, the source and the documents of its pages
\* as they are.
LEMMA SteadyMirror ==
    ASSUME SyncTypeInv, MirrorInv, UNCHANGED <<run, source, page>>,
           \A e \in Doc : page[e] # None => /\ Live(e)' <=> Live(e)
                                            /\ doc'[e].hash = doc[e].hash
    PROVE  MirrorInv'
  <1>1. OnePageEach'
    BY SamePages DEF MirrorInv
  <1>2. ASSUME NEW n \in Run PROVE RunMirrors(n)'
    BY SteadyRun DEF MirrorInv
  <1>. QED  BY <1>1, <1>2 DEF MirrorInv

\* Beside the run in progress every other rests.
LEMMA OthersRest ==
    ASSUME SerialInv, MirrorInv, NEW n \in Run, Busy(n),
           \A m \in Run : m # n => run'[m] = run[m]
    PROVE  \A m \in Run : m # n => RunMirrors(m)'
  BY RestingRun DEF SerialInv, OneAtATime, MirrorInv, RunMirrors

-----------------------------------------------------------------------------
(* Steps beside the run.                                                   *)

\* An ingestion changes the status of a row and nothing else of it.
LEMMA WorkerMirror ==
    ASSUME SyncTypeInv, MirrorInv, NEW t \in Task,
           WorkerStep(t) \/ IngestFails(t), UNCHANGED syncVars
    PROVE  MirrorInv'
  <1>1. TypeInv
    BY DEF SyncTypeInv
  <1>2. task[t].pc \notin {"idle", "done", "lost"}
    BY DEF WorkerStep, WorkerStart, WorkerRead, UpsertPoints, DeleteOldChunks,
           InsertChunks, InsertFails, Compensate, MarkIndexed, MarkFailed, Unstage,
           IngestFails
  <1>3. task[t].doc \in Doc
    BY <1>1, <1>2, TaskArgs
  <1>4. doc' = doc \/ \E s \in Status : SetStatus(task[t].doc, s)
    BY DEF WorkerStep, WorkerStart, WorkerRead, UpsertPoints, DeleteOldChunks,
           InsertChunks, InsertFails, Compensate, MarkIndexed, MarkFailed, Unstage,
           IngestFails, Status
  <1>5. \A e \in Doc : doc'[e].state = doc[e].state /\ doc'[e].hash = doc[e].hash
    BY <1>1, <1>3, <1>4, SetStatusKeeps
  <1>6. UNCHANGED <<run, source, page>>
    BY DEF syncVars
  <1>. QED  BY <1>5, <1>6, SteadyMirror DEF Live

\* A handler works when no run does, and creates no document of a page.
LEMMA HandlerMirror ==
    ASSUME SyncTypeInv, SerialInv, MirrorInv, NEW r \in Request,
           HandlerStep(r), UNCHANGED syncVars
    PROVE  MirrorInv'
  <1>1. Serving(r)
    BY DEF Serving, HandlerStep, UploadStage, UploadEnqueue, PurgeVectors,
           PurgeChunks, DeleteStaged, DeleteRow, ReindexStatus, UpdateVectors,
           UpdateChunks
  <1>2. TypeInv /\ \A n \in Run : ~Busy(n)
    BY <1>1 DEF SyncTypeInv, SerialInv, OneAtATime, NobodyServed
  <1>3. req[r].doc \in Doc
    BY <1>1, <1>2 DEF Serving, TypeInv, RequestsCarry
  <1>4. \/ doc' = doc \/ DropRow(req[r].doc)
        \/ SetStatus(req[r].doc, "PROCESSING")
    BY DEF HandlerStep, UploadStage, UploadEnqueue, PurgeVectors,
           PurgeChunks, DeleteStaged, DeleteRow, ReindexStatus, UpdateVectors,
           UpdateChunks
  <1>5. \A e \in Doc : Live(e)' => Live(e)
    <2>1. CASE doc' = doc
      BY <2>1 DEF Live
    <2>2. CASE DropRow(req[r].doc)
      BY <1>2, <1>3, <2>2 DEF DropRow, Live, TypeInv, TypeOK, DocRow
    <2>3. CASE SetStatus(req[r].doc, "PROCESSING")
      BY <1>2, <1>3, <2>3, SetStatusKeeps DEF Live, Status
    <2>. QED  BY <1>4, <2>1, <2>2, <2>3
  <1>. QED  BY <1>2, <1>5, RestingMirror DEF syncVars

\* A request begins when no run is in progress; an upload has no page.
LEMMA ArriveMirror ==
    ASSUME SyncTypeInv, SerialInv, MirrorInv, Serial, NEW r \in Request,
           NEW d \in Doc, Arrive(r, d), UNCHANGED syncVars
    PROVE  MirrorInv'
  <1>1. /\ req[r].pc = "idle" /\ req'[r].pc # "idle"
        /\ \A e \in Doc : Live(e)' => Live(e) \/ ~Born(e)
    <2>1. CASE \E a \in Acl, c \in Content : UploadCreate(r, d, a, c)
      BY <2>1 DEF UploadCreate, SyncTypeInv, TypeInv, TypeOK, Born, Live
    <2>2. CASE \E op \in Ops : PurgeStart(r, d, op)
      BY <2>2 DEF PurgeStart, SyncTypeInv, TypeInv, TypeOK, Live
    <2>3. CASE \E a \in Acl : UpdateRow(r, d, a)
      BY <2>3 DEF UpdateRow, SyncTypeInv, TypeInv, TypeOK, DocRow, Live
    <2>. QED  BY <2>1, <2>2, <2>3 DEF Arrive
  <1>2. \A n \in Run : ~Busy(n)
    BY <1>1 DEF Serial, RequestBegins, NobodyRuns, Busy
  <1>3. \A e \in Doc : ~Born(e) => page[e] = None
    BY DEF SerialInv, PagesBorn
  <1>. QED  BY <1>1, <1>2, <1>3, RestingMirror DEF syncVars

\* The deletion of the job works when no run does, and only deletes rows.
LEMMA DeletionMirror ==
    ASSUME SyncTypeInv, SerialInv, MirrorInv, DeleteJobStep
    PROVE  MirrorInv'
  <1>1. Deleting
    BY DEF Deleting, DeleteJobStep, DeleteJobPoints, DeleteJobChunks,
           DeleteJobStaged, DeleteJobDoc, DeleteJobRow, DeleteJobRaises
  <1>2. /\ TypeInv /\ \A n \in Run : ~Busy(n)
        /\ del.pc = "row" => del.doc \in Doc
    BY <1>1 DEF SerialInv, OneAtATime, SyncTypeInv, DeletionCarries
  <1>3. /\ UNCHANGED <<run, page>>
        /\ \/ doc' = doc
           \/ del.pc = "row" /\ DropRow(del.doc)
    <2>1. CASE DeleteJobDoc
      BY <2>1 DEF DeleteJobDoc
    <2>2. CASE DeleteJobRow \/ DeleteJobRaises
      BY <2>2 DEF DeleteJobRow, DeleteJobRaises, vars
    <2>3. CASE \/ \E d \in Doc : DeleteJobPoints(d)
               \/ DeleteJobChunks \/ DeleteJobStaged
      BY <2>3 DEF DeleteJobPoints, DeleteJobChunks, DeleteJobStaged
    <2>. QED  BY <2>1, <2>2, <2>3 DEF DeleteJobStep
  <1>4. \A e \in Doc : Live(e)' => Live(e)
    BY <1>2, <1>3 DEF DropRow, Live, TypeInv, TypeOK, DocRow
  <1>. QED  BY <1>2, <1>3, <1>4, RestingMirror

\* What begins or waits changes no document.
LEMMA BeginningsMirror ==
    ASSUME SyncTypeInv, MirrorInv, Serial,
           \/ DeleteJobStart
           \/ \E p \in Page, c \in Content \cup {None} : SourceChanges(p, c)
           \/ \E n \in Run : Trigger(n)
    PROVE  MirrorInv'
  <1>1. CASE DeleteJobStart
    <2>1. UNCHANGED <<run, source, page, doc>>
      BY <1>1 DEF DeleteJobStart, vars
    <2>. QED  BY <2>1, SteadyMirror DEF Live
  <1>2. ASSUME NEW p \in Page, NEW c \in Content \cup {None}, SourceChanges(p, c)
        PROVE  MirrorInv'
    <2>1. UNCHANGED <<run, page, doc>> /\ source' # source
      BY <1>2 DEF SourceChanges, vars, SyncTypeInv, SyncTypeOK
    <2>2. \A n \in Run : ~Busy(n)
      BY <2>1 DEF Serial, NobodyRuns, Busy
    <2>. QED  BY <2>1, <2>2, RestingMirror DEF Live
  <1>3. ASSUME NEW n \in Run, Trigger(n) PROVE MirrorInv'
    <2>1. /\ UNCHANGED <<source, page, doc>>
          /\ run[n].pc = "idle" /\ RunGoto(n, "queued")
      BY <1>3 DEF Trigger, vars
    <2>2. /\ run'[n].pc = "queued" /\ run'[n].active = run[n].active
          /\ \A m \in Run : m # n => run'[m] = run[m]
      BY <2>1 DEF RunGoto, SyncTypeInv, SyncTypeOK, Execution
    <2>3. OnePageEach'
      BY <2>1, SamePages DEF MirrorInv, Live
    <2>4. ASSUME NEW m \in Run, m # n PROVE RunMirrors(m)'
      BY <2>1, <2>2, <2>4, SteadyRun DEF MirrorInv, Live
    <2>5. RunMirrors(n)'
      BY <2>1, <2>2 DEF MirrorInv, RunMirrors, RunLists, RunRecords, RunPurges
    <2>. QED  BY <2>3, <2>4, <2>5 DEF MirrorInv
  <1>. QED  BY <1>1, <1>2, <1>3

-----------------------------------------------------------------------------
(* Steps of the run.                                                       *)

\* The run that begins lists the pages of the source.
LEMMA StartMirror ==
    ASSUME SyncTypeInv, MirrorInv, Serial, NEW n \in Run, RunStart(n)
    PROVE  MirrorInv'
  <1>1. /\ UNCHANGED <<doc, source, page>>
        /\ run[n].pc = "queued" /\ run \in [Run -> Execution]
    BY DEF RunStart, vars, SyncTypeInv, SyncTypeOK
  <1>2. OnePageEach'
    BY <1>1, SamePages DEF MirrorInv, Live
  <1>3. RunMirrors(n) /\ run[n].active = {}
    BY <1>1 DEF MirrorInv, RunMirrors, RunLists
  <1>4. CASE job.live
    <2>1. /\ run'[n].pc = "fetch" /\ run'[n].active = run[n].active
          /\ run'[n].todo = {p \in Page : source[p] # None}
          /\ \A m \in Run : m # n => run'[m] = run[m]
      BY <1>1, <1>4 DEF RunStart, Execution
    <2>2. \A m \in Run : ~Busy(m)
      BY <1>1, <2>1 DEF Serial, RunBegins, NobodyRuns, Busy
    <2>3. ASSUME NEW m \in Run, m # n PROVE RunMirrors(m)'
      BY <2>1, <2>2, <2>3, RestingRun DEF MirrorInv, RunMirrors
    <2>4. RunMirrors(n)'
      BY <1>1, <1>3, <2>1 DEF RunMirrors, RunLists, RunRecords, RunPurges
    <2>. QED  BY <1>2, <2>3, <2>4 DEF MirrorInv
  <1>5. CASE ~job.live
    <2>1. /\ run'[n].pc = "done"
          /\ \A m \in Run : m # n => run'[m] = run[m]
      BY <1>1, <1>5, RunGotoKeeps DEF RunStart, RunPc
    <2>2. ASSUME NEW m \in Run, m # n PROVE RunMirrors(m)'
      BY <1>1, <2>1, <2>2, SteadyRun DEF MirrorInv, Live
    <2>3. RunMirrors(n)'
      BY <2>1 DEF RunMirrors, RunLists, RunRecords, RunPurges
    <2>. QED  BY <1>2, <2>2, <2>3 DEF MirrorInv
  <1>. QED  BY <1>4, <1>5

\* A page fetched is in hand, or skipped because it is mirrored.
LEMMA FetchMirror ==
    ASSUME SyncTypeInv, SerialInv, MirrorInv, StableIds, NEW n \in Run,
           NEW p \in Page, Fetch(n, p)
    PROVE  MirrorInv'
  <1>0. run \in [Run -> Execution] /\ None \notin Doc
    BY ConstantsAssumption DEF SyncTypeInv, SyncTypeOK
  <1>1. /\ UNCHANGED <<doc, source, page>>
        /\ run[n].pc = "fetch" /\ p \in run[n].todo /\ source[p] # None
    BY DEF Fetch, vars
  <1>2. Busy(n) /\ RunLists(n)
    BY <1>1 DEF Busy, RunActive, MirrorInv, RunMirrors
  <1>3. PICK d \in Lookup(p) :
           run' = [run EXCEPT
                   ![n].pc = IF Unchanged(d, p) THEN "fetch" ELSE "record",
                   ![n].todo = run[n].todo \ {p},
                   ![n].active = run[n].active \cup IF StableIds THEN {p} ELSE {},
                   ![n].page = p, ![n].content = source[p], ![n].found = d]
    BY DEF Fetch
  <1>4. /\ \A m \in Run : m # n => run'[m] = run[m]
        /\ run'[n].pc = IF Unchanged(d, p) THEN "fetch" ELSE "record"
        /\ run'[n].todo = run[n].todo \ {p}
        /\ run'[n].active = run[n].active \cup {p}
        /\ run'[n].page = p /\ run'[n].content = source[p] /\ run'[n].found = d
    BY <1>0, <1>3 DEF Execution
  <1>5. /\ d # None => d \in Doc /\ Live(d) /\ page[d] = p
        /\ d = None => \A e \in Doc : Live(e) => page[e] # p
    <2>1. job.live
      BY <1>2 DEF SerialInv, OneAtATime
    <2>. QED
      BY <1>0, <2>1, SyncAssumption DEF Lookup, Existing, JobDocs, ExternalId
  <1>6. Unchanged(d, p) => Mirrored(p)
    BY <1>5 DEF Unchanged, Mirrored
  <1>7. \A q \in Page : Mirrored(q)' <=> Mirrored(q)
    BY <1>1 DEF Mirrored, Live
  <1>8. ~Unchanged(d, p) => InHand(n, p)'
    BY <1>4 DEF InHand
  <1>9. \A q \in Page : ~InHand(n, q)
    BY <1>1 DEF InHand
  <1>10. RunLists(n)'
    BY <1>1, <1>2, <1>4, <1>6, <1>7, <1>8, <1>9 DEF RunLists
  <1>11. RunRecords(n)'
    BY <1>1, <1>4, <1>5 DEF RunRecords, Live
  <1>12. RunPurges(n)'
    BY <1>4 DEF RunPurges
  <1>13. OnePageEach'
    BY <1>1, SamePages DEF MirrorInv, Live
  <1>14. \A m \in Run : m # n => RunMirrors(m)'
    BY <1>2, <1>4, OthersRest
  <1>. QED  BY <1>10, <1>11, <1>12, <1>13, <1>14 DEF MirrorInv, RunMirrors

\* At the end of the listing every page was seen: what was not is to purge.
LEMMA PurgeListMirror ==
    ASSUME SyncTypeInv, SerialInv, MirrorInv, StableIds, NEW n \in Run, PurgeList(n)
    PROVE  MirrorInv'
  <1>0. run \in [Run -> Execution] /\ page \in [Doc -> Page \cup {None}]
    BY DEF SyncTypeInv, SyncTypeOK
  <1>1. /\ UNCHANGED <<doc, source, page>>
        /\ run[n].pc = "fetch" /\ run[n].todo = {}
    BY DEF PurgeList, vars
  <1>2. Busy(n) /\ RunLists(n) /\ RunTidy(n)
    BY <1>1 DEF Busy, RunActive, MirrorInv, RunMirrors, SerialInv
  <1>3. job.live
    BY <1>2 DEF SerialInv, OneAtATime
  <1>4. /\ \A m \in Run : m # n => run'[m] = run[m]
        /\ run'[n].pc = "purge"
        /\ run'[n].marked = {}
        /\ run'[n].purge = {d \in JobDocs : page[d] \notin run[n].active}
    BY <1>0, <1>1, <1>2 DEF PurgeList, Execution, ExternalId, RunTidy
  <1>5. \A p \in Page : /\ ~InHand(n, p)
                        /\ Mirrored(p)' <=> Mirrored(p)
    BY <1>1 DEF InHand, Mirrored, Live
  <1>6. \A p \in Page : source[p] # None <=> p \in run[n].active
    BY <1>1, <1>2 DEF RunLists
  <1>7. \A p \in run[n].active : p \in Page /\ Mirrored(p)
    BY <1>1, <1>2, <1>5 DEF RunLists
  <1>8. RunPurges(n)'
    <2>1. \A p \in Page : source[p] # None => Mirrored(p)'
      BY <1>5, <1>6, <1>7
    <2>2. ASSUME NEW d \in Doc, Live(d), page[d] # None
          PROVE  source[page[d]] = None <=> d \in run'[n].purge \cup run'[n].marked
      <3>1. page[d] \in Page
        BY <1>0, <2>2
      <3>2. d \in JobDocs
        BY <1>3, <2>2 DEF JobDocs
      <3>. QED  BY <1>4, <1>6, <3>1, <3>2
    <2>. QED  BY <1>1, <1>4, <2>1, <2>2 DEF RunPurges, Live
  <1>9. RunLists(n)' /\ RunRecords(n)'
    BY <1>4 DEF RunLists, RunRecords
  <1>10. OnePageEach'
    BY <1>1, SamePages DEF MirrorInv, Live
  <1>11. \A m \in Run : m # n => RunMirrors(m)'
    BY <1>2, <1>4, OthersRest
  <1>. QED  BY <1>8, <1>9, <1>10, <1>11 DEF MirrorInv, RunMirrors

\* The row of the page in hand gets its hash: the others keep theirs.
LEMMA RecordExistingMirror ==
    ASSUME SyncTypeInv, SerialInv, MirrorInv, NEW n \in Run, RecordExisting(n)
    PROVE  MirrorInv'
  <1>0. /\ run \in [Run -> Execution] /\ doc \in [Doc -> DocRow]
    BY DEF SyncTypeInv, SyncTypeOK, TypeInv, TypeOK
  <1>1. run[n].pc = "record" /\ run[n].found # None
    BY DEF RecordExisting
  <1>2. /\ Busy(n) /\ RunLists(n) /\ RunRecords(n) /\ OnePageEach
        /\ Live(run[n].found)
    BY <1>1 DEF Busy, RunActive, MirrorInv, RunMirrors, SerialInv, RunTidy
  <1>3. PICK d \in Doc : d = run[n].found
    BY <1>0, <1>1 DEF Execution
  <1>4. /\ UNCHANGED <<source, page>> /\ RunGoto(n, "stage")
        /\ \A e \in Doc : /\ doc'[e].state = doc[e].state
                          /\ doc'[e].hash = IF e = d THEN run[n].content
                                                     ELSE doc[e].hash
    BY <1>0, <1>2, <1>3 DEF RecordExisting, DocRow
  <1>5. /\ run'[n].pc = "stage"
        /\ run'[n].todo = run[n].todo /\ run'[n].active = run[n].active
        /\ run'[n].page = run[n].page /\ run'[n].content = run[n].content
        /\ run'[n].found = d
        /\ \A m \in Run : m # n => run'[m] = run[m]
    BY <1>0, <1>3, <1>4 DEF RunGoto, Execution
  <1>6. /\ run[n].page \in Page /\ source[run[n].page] = run[n].content
        /\ page[d] = run[n].page
    BY <1>1, <1>2, <1>3 DEF RunRecords
  <1>7. \A p \in Page : p # run[n].page => (Mirrored(p) => Mirrored(p)')
    BY <1>4, <1>6 DEF Mirrored, Live
  <1>8. \A p \in Page : InHand(n, p)' <=> p = run[n].page
    BY <1>5 DEF InHand
  <1>9. RunLists(n)'
    BY <1>1, <1>2, <1>4, <1>5, <1>7, <1>8 DEF RunLists, InHand
  <1>10. RunRecords(n)'
    BY <1>1, <1>2, <1>3, <1>4, <1>5, <1>6 DEF RunRecords, Live
  <1>11. RunPurges(n)'
    BY <1>5 DEF RunPurges
  <1>12. OnePageEach'
    BY <1>2, <1>4, SamePages DEF Live
  <1>13. \A m \in Run : m # n => RunMirrors(m)'
    BY <1>2, <1>5, OthersRest
  <1>. QED  BY <1>9, <1>10, <1>11, <1>12, <1>13 DEF MirrorInv, RunMirrors

\* A page without a row gets its first one.
LEMMA RecordNewMirror ==
    ASSUME SyncTypeInv, SerialInv, MirrorInv, StableIds, NEW n \in Run,
           NEW d \in Doc, RecordNew(n, d)
    PROVE  MirrorInv'
  <1>0. /\ run \in [Run -> Execution] /\ doc \in [Doc -> DocRow]
        /\ page \in [Doc -> Page \cup {None}] /\ None \notin Doc
    BY ConstantsAssumption DEF SyncTypeInv, SyncTypeOK, TypeInv, TypeOK
  <1>1. run[n].pc = "record" /\ run[n].found = None /\ doc[d].state = "unborn"
    BY DEF RecordNew
  <1>2. Busy(n) /\ RunLists(n) /\ RunRecords(n) /\ OnePageEach
    BY <1>1 DEF Busy, RunActive, MirrorInv, RunMirrors
  <1>3. job.live
    BY <1>2 DEF SerialInv, OneAtATime
  <1>4. /\ source' = source
        /\ doc'[d].state = "live" /\ doc'[d].hash = run[n].content
        /\ page'[d] = run[n].page
        /\ \A e \in Doc : e # d => doc'[e] = doc[e] /\ page'[e] = page[e]
    BY <1>0, <1>3 DEF RecordNew
  <1>5. /\ run'[n].pc = "stage"
        /\ run'[n].todo = run[n].todo /\ run'[n].active = run[n].active
        /\ run'[n].page = run[n].page /\ run'[n].content = run[n].content
        /\ run'[n].found = d
        /\ \A m \in Run : m # n => run'[m] = run[m]
    BY <1>0, <1>3 DEF RecordNew, Execution
  <1>6. /\ run[n].page \in Page /\ source[run[n].page] = run[n].content
        /\ \A e \in Doc : Live(e) => page[e] # run[n].page
    BY <1>1, <1>2 DEF RunRecords
  <1>7. \A p \in Page : Mirrored(p) => Mirrored(p)'
    BY <1>1, <1>4 DEF Mirrored, Live
  <1>8. \A p \in Page : InHand(n, p)' <=> InHand(n, p)
    BY <1>1, <1>5 DEF InHand
  <1>9. RunLists(n)'
    BY <1>1, <1>2, <1>4, <1>5, <1>7, <1>8 DEF RunLists
  <1>10. RunRecords(n)'
    BY <1>0, <1>4, <1>5, <1>6 DEF RunRecords, Live
  <1>11. RunPurges(n)'
    BY <1>5 DEF RunPurges
  <1>12. OnePageEach'
    BY <1>2, <1>4, <1>6 DEF OnePageEach, Live
  <1>13. \A m \in Run : m # n => RunMirrors(m)'
    BY <1>2, <1>5, OthersRest
  <1>. QED  BY <1>9, <1>10, <1>11, <1>12, <1>13 DEF MirrorInv, RunMirrors

\* The page in hand is mirrored once its row has its hash.
LEMMA StageMirror ==
    ASSUME SyncTypeInv, SerialInv, MirrorInv, NEW n \in Run, Stage(n)
    PROVE  MirrorInv'
  <1>0. run \in [Run -> Execution]
    BY DEF SyncTypeInv, SyncTypeOK
  <1>1. run[n].pc = "stage" /\ UNCHANGED <<doc, source, page>>
    BY DEF Stage
  <1>2. Busy(n) /\ RunLists(n) /\ RunRecords(n)
    BY <1>1 DEF Busy, RunActive, MirrorInv, RunMirrors
  <1>3. job.live
    BY <1>2 DEF SerialInv, OneAtATime
  <1>4. /\ run'[n].pc = "fetch"
        /\ run'[n].todo = run[n].todo /\ run'[n].active = run[n].active
        /\ \A m \in Run : m # n => run'[m] = run[m]
    BY <1>0, <1>3 DEF Stage, Execution
  <1>5. Mirrored(run[n].page)
    <2>1. run[n].found \in Doc
      BY <1>0, <1>1, <1>2 DEF Execution, RunRecords
    <2>. QED  BY <1>1, <1>2, <2>1 DEF RunRecords, Mirrored
  <1>6. \A p \in Page : /\ Mirrored(p)' <=> Mirrored(p)
                        /\ InHand(n, p) => Mirrored(p)
    BY <1>1, <1>5 DEF Mirrored, InHand, Live
  <1>7. RunLists(n)'
    BY <1>1, <1>2, <1>4, <1>6 DEF RunLists
  <1>8. RunRecords(n)' /\ RunPurges(n)'
    BY <1>4 DEF RunRecords, RunPurges
  <1>9. OnePageEach'
    BY <1>1, SamePages DEF MirrorInv, Live
  <1>10. \A m \in Run : m # n => RunMirrors(m)'
    BY <1>2, <1>4, OthersRest
  <1>. QED  BY <1>7, <1>8, <1>9, <1>10 DEF MirrorInv, RunMirrors

\* A commit of the purge deletes the rows of S, and keeps those of the others.
LEMMA CommitRows ==
    ASSUME TypeInv, NEW S \in SUBSET Doc, NEW C \in SUBSET Doc, Commit(S, C)
    PROVE  \A e \in Doc : /\ Live(e)' <=> Live(e) /\ e \notin S
                          /\ doc'[e].hash = doc[e].hash
  BY DEF TypeInv, TypeOK, DocRow, Commit, Live

\* A step of the purge that leaves the list of what to purge as it is, but
\* for the rows it deletes.
LEMMA PurgeFrame ==
    ASSUME SyncTypeInv, SerialInv, MirrorInv, NEW n \in Run,
           run[n].pc \in {"purge", "purgeRows"},
           run'[n].pc \in {"purge", "purgeRows"},
           NEW S \in SUBSET run[n].marked,
           \A e \in Doc : /\ Live(e)' <=> Live(e) /\ e \notin S
                          /\ doc'[e].hash = doc[e].hash,
           run'[n].purge \cup run'[n].marked = (run[n].purge \cup run[n].marked) \ S,
           UNCHANGED <<source, page>>,
           \A m \in Run : m # n => run'[m] = run[m]
    PROVE  MirrorInv'
  <1>0. page \in [Doc -> Page \cup {None}] /\ None \notin Page
    BY SyncAssumption DEF SyncTypeInv, SyncTypeOK
  <1>1. Busy(n) /\ RunPurges(n)
    BY DEF Busy, RunActive, MirrorInv, RunMirrors
  <1>2. ASSUME NEW p \in Page, source[p] # None PROVE Mirrored(p)'
    <2>1. PICK d \in Doc : Live(d) /\ page[d] = p /\ doc[d].hash = source[p]
      BY <1>1, <1>2 DEF RunPurges, Mirrored
    <2>2. d \notin S
      BY <1>0, <1>1, <1>2, <2>1 DEF RunPurges
    <2>. QED  BY <2>1, <2>2 DEF Mirrored
  <1>3. RunPurges(n)'
    BY <1>1, <1>2 DEF RunPurges
  <1>4. RunLists(n)' /\ RunRecords(n)'
    BY DEF RunLists, RunRecords
  <1>5. OnePageEach'
    BY SamePages DEF MirrorInv
  <1>6. \A m \in Run : m # n => RunMirrors(m)'
    BY <1>1, OthersRest
  <1>. QED  BY <1>3, <1>4, <1>5, <1>6 DEF MirrorInv, RunMirrors

\* The purge deletes the rows of vanished pages and no other.
LEMMA PurgingMirror ==
    ASSUME SyncTypeInv, SerialInv, MirrorInv, NEW n \in Run,
           (\E d \in Doc : PurgePoints(n, d)) \/ PurgeRows(n) \/ PurgeEnd(n)
    PROVE  MirrorInv'
  <1>0. run \in [Run -> Execution] /\ TypeInv
    BY DEF SyncTypeInv, SyncTypeOK
  <1>1. /\ Busy(n) /\ RunTidy(n) /\ RunPurges(n)
        /\ run[n].pc \in {"purge", "purgeRows"}
    BY DEF PurgePoints, PurgeRows, PurgeEnd, Busy, RunActive, SerialInv, MirrorInv,
           RunMirrors
  <1>2. /\ run[n].marked \in SUBSET Doc /\ run[n].purge \in SUBSET Doc
        /\ \A d \in run[n].purge : Live(d) /\ d \notin run[n].marked
    BY <1>0, <1>1 DEF Execution, RunTidy
  <1>3. ASSUME NEW d \in Doc, PurgePoints(n, d) PROVE MirrorInv'
    <2>1. /\ UNCHANGED <<doc, source, page>>
          /\ run' = [run EXCEPT ![n].pc = "purgeRows", ![n].found = d]
      BY <1>2, <1>3 DEF PurgePoints
    <2>2. /\ run'[n].pc = "purgeRows"
          /\ run'[n].marked = run[n].marked /\ run'[n].purge = run[n].purge
          /\ \A m \in Run : m # n => run'[m] = run[m]
      BY <1>0, <2>1 DEF Execution
    <2>3. \A e \in Doc : /\ Live(e)' <=> Live(e) /\ e \notin {}
                         /\ doc'[e].hash = doc[e].hash
      BY <2>1 DEF Live
    <2>4. /\ {} \in SUBSET run[n].marked
          /\ run'[n].purge \cup run'[n].marked
                = (run[n].purge \cup run[n].marked) \ {}
      BY <2>2
    <2>. QED  BY <1>1, <2>1, <2>2, <2>3, <2>4, PurgeFrame
  <1>4. CASE PurgeRows(n)
    <2>1. run[n].found \in run[n].purge
      BY <1>1, <1>4 DEF PurgeRows, RunTidy
    <2>2. /\ UNCHANGED <<source, page>>
          /\ \A e \in Doc : /\ Live(e)' <=> Live(e) /\ e \notin run[n].marked
                            /\ doc'[e].hash = doc[e].hash
      BY <1>0, <1>2, <1>4, <2>1, CommitRows DEF PurgeRows
    <2>3. /\ run'[n].pc = "purge" /\ run'[n].marked = {run[n].found}
          /\ run'[n].purge = run[n].purge \ {run[n].found}
          /\ \A m \in Run : m # n => run'[m] = run[m]
      BY <1>0, <1>4 DEF PurgeRows, Execution
    <2>4. run'[n].purge \cup run'[n].marked
              = (run[n].purge \cup run[n].marked) \ run[n].marked
      BY <1>2, <2>1, <2>3
    <2>. QED  BY <1>1, <2>2, <2>3, <2>4, PurgeFrame
  <1>5. CASE PurgeEnd(n)
    <2>1. /\ UNCHANGED <<source, page>> /\ run[n].pc = "purge" /\ run[n].purge = {}
          /\ \A e \in Doc : /\ Live(e)' <=> Live(e) /\ e \notin run[n].marked
                            /\ doc'[e].hash = doc[e].hash
      BY <1>0, <1>2, <1>5, CommitRows DEF PurgeEnd
    <2>2. /\ run'[n].pc = "fanout"
          /\ \A m \in Run : m # n => run'[m] = run[m]
      BY <1>0, <1>5 DEF PurgeEnd, Execution
    <2>3. page \in [Doc -> Page \cup {None}] /\ None \notin Page
      BY SyncAssumption DEF SyncTypeInv, SyncTypeOK
    <2>4. ASSUME NEW p \in Page, source[p] # None PROVE Mirrored(p)'
      <3>1. PICK d \in Doc : Live(d) /\ page[d] = p /\ doc[d].hash = source[p]
        BY <1>1, <2>4 DEF RunPurges, Mirrored
      <3>2. d \notin run[n].marked
        BY <1>1, <2>3, <2>4, <3>1 DEF RunPurges
      <3>. QED  BY <2>1, <3>1, <3>2 DEF Mirrored
    <2>5. RunPurges(n)'
      BY <1>1, <2>1, <2>2, <2>4 DEF RunPurges
    <2>6. RunLists(n)' /\ RunRecords(n)'
      BY <2>2 DEF RunLists, RunRecords
    <2>7. OnePageEach'
      BY <2>1, SamePages DEF MirrorInv
    <2>8. \A m \in Run : m # n => RunMirrors(m)'
      BY <1>1, <2>2, OthersRest
    <2>. QED  BY <2>5, <2>6, <2>7, <2>8 DEF MirrorInv, RunMirrors
  <1>. QED  BY <1>3, <1>4, <1>5

\* The fan-out and the end of the run leave the documents as they are.
LEMMA SendingMirror ==
    ASSUME SyncTypeInv, SerialInv, MirrorInv, NEW n \in Run,
           \/ \E t \in Task, s \in run[n].subtasks : FanOut(n, t, s)
           \/ Complete(n) \/ MarkJobFailed(n)
    PROVE  MirrorInv'
  <1>0. run \in [Run -> Execution]
    BY DEF SyncTypeInv, SyncTypeOK
  <1>1. Busy(n) /\ RunPurges(n) /\ job.live /\ run[n].pc # "failed"
    BY DEF FanOut, Complete, MarkJobFailed, Busy, RunActive, SerialInv, OneAtATime,
           MirrorInv, RunMirrors
  <1>2. ASSUME UNCHANGED <<doc, source, page>>, run[n].pc = "fanout",
               run'[n].pc \in {"fanout", "done"},
               \A m \in Run : m # n => run'[m] = run[m]
        PROVE  MirrorInv'
    <2>1. \A p \in Page : Mirrored(p)' <=> Mirrored(p)
      BY <1>2 DEF Mirrored, Live
    <2>2. RunMirrors(n)'
      BY <1>1, <1>2, <2>1 DEF RunMirrors, RunLists, RunRecords, RunPurges, Live
    <2>3. OnePageEach'
      BY <1>2, SamePages DEF MirrorInv, Live
    <2>4. \A m \in Run : m # n => RunMirrors(m)'
      BY <1>1, <1>2, OthersRest
    <2>. QED  BY <2>2, <2>3, <2>4 DEF MirrorInv
  <1>3. CASE Complete(n)
    <2>1. /\ UNCHANGED <<doc, source, page>> /\ run[n].pc = "fanout"
          /\ RunGoto(n, "done")
      BY <1>1, <1>3 DEF Complete, vars
    <2>. QED  BY <1>0, <1>2, <2>1, RunGotoKeeps DEF RunPc
  <1>4. CASE MarkJobFailed(n)
    BY <1>1, <1>4 DEF MarkJobFailed
  <1>5. ASSUME NEW t \in Task, NEW s \in run[n].subtasks, FanOut(n, t, s)
        PROVE  MirrorInv'
    <2>1. /\ UNCHANGED <<doc, source, page>> /\ run[n].pc = "fanout"
          /\ run' = [run EXCEPT ![n].subtasks = run[n].subtasks \ {s}]
      BY <1>5 DEF FanOut
    <2>2. /\ run'[n].pc = "fanout"
          /\ \A m \in Run : m # n => run'[m] = run[m]
      BY <1>0, <2>1 DEF Execution
    <2>. QED  BY <1>2, <2>1, <2>2
  <1>. QED  BY <1>3, <1>4, <1>5

\* Every serial step without faults keeps the invariant.
LEMMA NextMirror ==
    ASSUME StableIds, MaxFaults = 0, SyncTypeInv, SerialInv, MirrorInv,
           [SyncNext /\ Serial]_allVars
    PROVE  MirrorInv'
  <1>0. ~Fault
    BY NoFault
  <1>1. CASE UNCHANGED allVars
    <2>1. UNCHANGED <<doc, run, source, page>>
      BY <1>1 DEF allVars, vars, syncVars
    <2>. QED  BY <2>1, SteadyMirror DEF Live
  <1>2. CASE Serial /\ Step /\ UNCHANGED syncVars
    <2>1. CASE Error
      BY <1>0, <1>2, <2>1, WorkerMirror
         DEF Error, UpsertTimesOut, WorkerDies, HandlerDies, UploadInline
    <2>. QED
      BY <1>2, <2>1, ArriveMirror, HandlerMirror, WorkerMirror DEF Step
  <1>3. ASSUME NEW n \in Run, NEW p \in Page, FetchSwallowed(n, p) PROVE FALSE
    <2>1. source[p] = None /\ run[n].pc = "fetch" /\ p \in run[n].todo
      BY <1>0, <1>3 DEF FetchSwallowed
    <2>. QED  BY <2>1 DEF MirrorInv, RunMirrors, RunLists
  <1>4. ASSUME Serial, NEW n \in Run, RunStep(n) PROVE MirrorInv'
    BY <1>3, <1>4, StartMirror, FetchMirror, RecordExistingMirror, RecordNewMirror,
       StageMirror, PurgeListMirror, PurgingMirror, SendingMirror
       DEF RunStep
  <1>5. CASE RunError
    BY <1>0, <1>3, <1>5
       DEF RunError, FetchRaises, FanOutFails, RunDies, DeleteJobDies
  <1>. QED
    BY <1>1, <1>2, <1>4, <1>5, DeletionMirror, BeginningsMirror DEF SyncNext, SyncAtRest

\* Only the end of a run writes COMPLETED.
LEMMA OnlyCompleteCompletes ==
    ASSUME SyncTypeInv, [SyncNext /\ Serial]_allVars,
           job.status # "COMPLETED", job'.status = "COMPLETED"
    PROVE  /\ \E n \in Run : run[n].pc = "fanout"
           /\ job.live
  <1>0. job \in [live : BOOLEAN, status : JobStatus, acl : Acl]
    BY DEF SyncTypeInv, SyncTypeOK
  <1>1. job' # job
    OBVIOUS
  <1>2. ASSUME NEW n \in Run, RunStep(n)
        PROVE  run[n].pc = "fanout" /\ job.live
    <2>1. RunStart(n) \/ Complete(n) \/ MarkJobFailed(n)
      BY <1>1, <1>2
         DEF RunStep, Fetch, FetchSwallowed, RecordExisting, RecordNew, Stage,
             PurgeList, PurgePoints, PurgeRows, PurgeEnd, FanOut
    <2>2. ~RunStart(n)
      BY <1>0, <1>1 DEF RunStart, SetJob, RunGoto
    <2>3. ~MarkJobFailed(n)
      BY <1>0, <1>1 DEF MarkJobFailed, SetJob, Escapes
    <2>4. Complete(n)
      BY <2>1, <2>2, <2>3
    <2>. QED  BY <1>1, <2>4 DEF Complete
  <1>3. ~DeleteJobStep
    <2>1. ~DeleteJobRow
      BY <1>0 DEF DeleteJobRow
    <2>. QED
      BY <1>1, <2>1 DEF DeleteJobStep, DeleteJobPoints, DeleteJobChunks,
           DeleteJobStaged, DeleteJobDoc, DeleteJobRaises
  <1>4. ~UNCHANGED syncVars
    BY <1>1 DEF syncVars
  <1>. QED
    BY <1>1, <1>2, <1>3, <1>4
       DEF SyncNext, allVars, SourceChanges, Trigger, DeleteJobStart, RunError,
           FetchSwallowed, FetchRaises, FanOutFails, RunDies, DeleteJobDies, SyncAtRest

\* A run that ends in COMPLETED leaves one document with the right hash for
\* every page of the source and none for a page that is not there, if runs,
\* deletions, requests and changes of the source begin only when nothing
\* else is in progress, nothing fails silently, and the connector names an
\* object by its key (change detection and purge together).
THEOREM CompletedRunMirrorsSourceSerially ==
    StableIds /\ MaxFaults = 0 =>
        (SyncInit /\ [][SyncNext /\ Serial]_allVars => CompletedRunMirrorsSource)
  <1>. SUFFICES ASSUME StableIds, MaxFaults = 0
                PROVE  SyncInit /\ [][SyncNext /\ Serial]_allVars
                           => CompletedRunMirrorsSource
    OBVIOUS
  <1>1. SyncInit => MirrorInv
    <2>. SUFFICES ASSUME SyncInit PROVE MirrorInv
      OBVIOUS
    <2>1. OnePageEach
      BY DEF SyncInit, OnePageEach
    <2>2. ASSUME NEW n \in Run PROVE RunMirrors(n)
      BY DEF SyncInit, RunMirrors, RunLists, RunRecords, RunPurges
    <2>. QED  BY <2>1, <2>2 DEF MirrorInv
  <1>2. SyncInit /\ [][SyncNext /\ Serial]_allVars => [](SyncTypeInv /\ SerialInv)
    BY SerialInvariance
  <1>3. SyncTypeInv /\ SerialInv /\ MirrorInv /\ [SyncNext /\ Serial]_allVars
            => MirrorInv'
    BY NextMirror
  <1>4. SyncTypeInv /\ MirrorInv /\ [SyncNext /\ Serial]_allVars
            => (job.status # "COMPLETED" /\ job'.status = "COMPLETED" =>
                  /\ \A p \in Page : source[p] # None =>
                        \E d \in JobDocs :
                            /\ doc[d].hash = source[p]
                            /\ {e \in JobDocs : page[e] = p} = {d}
                  /\ \A d \in JobDocs : source[page[d]] # None)
    <2>. SUFFICES ASSUME SyncTypeInv, MirrorInv, [SyncNext /\ Serial]_allVars,
                         job.status # "COMPLETED", job'.status = "COMPLETED"
                  PROVE  /\ \A p \in Page : source[p] # None =>
                               \E d \in JobDocs :
                                   /\ doc[d].hash = source[p]
                                   /\ {e \in JobDocs : page[e] = p} = {d}
                         /\ \A d \in JobDocs : source[page[d]] # None
      OBVIOUS
    <2>1. PICK n \in Run : run[n].pc = "fanout"
      BY OnlyCompleteCompletes
    <2>2. job.live /\ None \notin Page
      BY OnlyCompleteCompletes, SyncAssumption
    <2>3. RunPurges(n) /\ OnePageEach
      BY DEF MirrorInv, RunMirrors
    <2>4. \A d \in JobDocs : source[page[d]] # None
      BY <2>1, <2>3 DEF RunPurges, JobDocs
    <2>5. ASSUME NEW p \in Page, source[p] # None
          PROVE  \E d \in JobDocs : /\ doc[d].hash = source[p]
                                    /\ {e \in JobDocs : page[e] = p} = {d}
      <3>1. PICK d \in Doc : Live(d) /\ page[d] = p /\ doc[d].hash = source[p]
        BY <2>1, <2>3, <2>5 DEF RunPurges, Mirrored
      <3>2. d \in JobDocs
        BY <2>2, <3>1 DEF JobDocs
      <3>3. \A e \in JobDocs : page[e] = p => e = d
        BY <2>2, <2>3, <3>1 DEF JobDocs, OnePageEach
      <3>. QED  BY <3>1, <3>2, <3>3
    <2>. QED  BY <2>4, <2>5
  <1>. QED  BY <1>1, <1>2, <1>3, <1>4, PTL DEF CompletedRunMirrorsSource

-----------------------------------------------------------------------------
(* What the next run skips, with any number of faults.                     *)

\* A run has the requests, the deletion and, until its fan-out, the
\* ingestions out of its way.  Requests may overlap each other and the
\* ingestion of an upload, not that of a document with a page.
InTurn ==
    /\ \A n \in Run : Busy(n) =>
          /\ job.live /\ NobodyServed /\ ~Deleting
          /\ run[n].pc \notin {"fanout", "failed"} => NobodyIngests
          /\ \A m \in Run : Busy(m) => m = n
          /\ \A s \in run[n].subtasks : s.acl = job.acl
    /\ \A n \in Run :
          /\ run[n].pc \in {"idle", "queued"} => run[n].subtasks = {}
          /\ run[n].pc = "purgeRows" => run[n].found \in run[n].purge
    /\ \A r \in Request :
          /\ req[r].pc = "idle" => req[r].op = "upload"
          /\ Serving(r) => \A t \in Task : Active(t) => page[task[t].doc] = None
          /\ req[r].pc \in {"stage", "enqueue"} => page[req[r].doc] = None
          /\ req[r].pc \in {"staged", "row", "status"} =>
                req[r].op \in {"delete", "reindex"}
    /\ \A t \in Task : Active(t) /\ page[task[t].doc] # None => ~task[t].inline
    /\ PagesBorn
    /\ del.pc = "done" => ~job.live

\* A document of the job that no request purges.
Kept(d) == page[d] # None /\ Live(d) /\ ~Purged(d)

\* It has the rows and the points of its content.
Stored(d) ==
    /\ chunks[d] # {}
    /\ \A b \in chunks[d] : b.content = doc[d].hash
    /\ Ids(chunks[d]) \subseteq Ids(qdrant[d])

\* A run purges it, or was interrupted while it purged it.
Touched(d) ==
    \E n \in Run :
        \/ run[n].pc \in {"purge", "purgeRows", "failed"} /\ d \in run[n].marked
        \/ run[n].pc = "purgeRows" /\ d = run[n].found
        \/ run[n].pc = "lost" /\ d \in run[n].purge \cup run[n].marked

TrulyIndexed(d) == doc[d].status = "INDEXED" /\ ~Touched(d) => Stored(d)

\* An ingestion of d works on the recorded content, and d is not INDEXED
\* before its rows and points are there.
Works(t, d) ==
    /\ task[t].pc # "unstage" => doc[d].status # "INDEXED"
    /\ task[t].pc \in {"queued", "read"} => staged[d] \in {None, doc[d].hash}
    /\ task[t].pc \in {"upsert", "delete", "insert", "index"} =>
          task[t].content = doc[d].hash
    /\ task[t].pc \in {"delete", "insert"} => t \in Ids(qdrant[d])
    /\ task[t].pc = "insert" => task[t].stale = chunks[d]
    /\ task[t].pc = "index" => Stored(d)

\* Its ingestions, one at a time.
Ingested(d) ==
    \A t \in Task : task[t].doc = d /\ Active(t) =>
        /\ Works(t, d)
        /\ \A u \in Task : task[u].doc = d /\ Active(u) => u = t

\* A run that is going to send an ingestion of d has recorded and staged its
\* content.
Awaits(n, d) ==
    /\ \A s \in run[n].subtasks : s.doc = d =>
          /\ doc[d].status # "INDEXED"
          /\ \A t \in Task : Active(t) => task[t].doc # d
          /\ staged[d] = doc[d].hash \/ (run[n].pc = "stage" /\ run[n].found = d)
    /\ run[n].pc = "stage" /\ run[n].found = d =>
          doc[d].status # "INDEXED" /\ doc[d].hash = run[n].content

Skippable(d) ==
    /\ TrulyIndexed(d)
    /\ Ingested(d)
    /\ \A n \in Run : Busy(n) => Awaits(n, d)

SkipInv ==
    /\ InTurn
    /\ del.pc = "idle" => \A d \in Doc : Kept(d) => Skippable(d)

\* What holds of a document and its ingestions depends on nothing else.
LEMMA IngestedFrame ==
    ASSUME NEW d \in Doc, TrulyIndexed(d), Ingested(d),
           doc'[d].status = doc[d].status, doc'[d].hash = doc[d].hash,
           chunks'[d] = chunks[d], qdrant'[d] = qdrant[d], staged'[d] = staged[d],
           \A t \in Task : \/ task[t].doc = d /\ Active(t)
                           \/ task'[t].doc = d /\ Active(t)'
                           => task'[t] = task[t],
           Touched(d) => Touched(d)'
    PROVE  TrulyIndexed(d)' /\ Ingested(d)'
  <1>1. Stored(d)' <=> Stored(d)
    BY DEF Stored
  <1>2. TrulyIndexed(d)'
    BY <1>1 DEF TrulyIndexed
  <1>3. Ingested(d)'
    BY <1>1 DEF Ingested, Works, Active
  <1>. QED  BY <1>2, <1>3

\* Nor do the runs that are going to send an ingestion of it.
LEMMA SkippableFrame ==
    ASSUME NEW d \in Doc, Skippable(d),
           doc'[d].status = doc[d].status, doc'[d].hash = doc[d].hash,
           chunks'[d] = chunks[d], qdrant'[d] = qdrant[d], staged'[d] = staged[d],
           \A t \in Task : \/ task[t].doc = d /\ Active(t)
                           \/ task'[t].doc = d /\ Active(t)'
                           => task'[t] = task[t],
           Touched(d) => Touched(d)',
           \A n \in Run : Busy(n)' => Busy(n) /\ run'[n] = run[n]
    PROVE  Skippable(d)'
  <1>1. TrulyIndexed(d)' /\ Ingested(d)'
    BY IngestedFrame DEF Skippable
  <1>2. ASSUME NEW n \in Run, Busy(n)' PROVE Awaits(n, d)'
    BY <1>2 DEF Skippable, Awaits, Active
  <1>. QED  BY <1>1, <1>2 DEF Skippable

-----------------------------------------------------------------------------
(* Ingestions.                                                             *)

\* A step of ingestion t, faults included, leaves all other documents and
\* ingestions alone, and keeps the content its row tells of.
Labours(t) ==
    LET d == task[t].doc IN
    /\ Active(t) /\ d \in Doc
    /\ req' = req
    /\ \A u \in Task : u # t => task'[u] = task[u]
    /\ task'[t].doc = d /\ task'[t].inline = task[t].inline
    /\ doc'[d].state = doc[d].state /\ doc'[d].hash = doc[d].hash
    /\ \A e \in Doc \ {d} : /\ doc'[e] = doc[e] /\ staged'[e] = staged[e]
                            /\ chunks'[e] = chunks[e] /\ qdrant'[e] = qdrant[e]

\* What it does to its own document d: it goes on as Works says, and it does
\* not report INDEXED what it changes.
Furthers(t, d) ==
    /\ Active(t)' => Works(t, d)'
    /\ doc'[d].status = "INDEXED" =>
          /\ doc[d].status = "INDEXED" \/ Stored(d)
          /\ chunks'[d] = chunks[d] /\ qdrant'[d] = qdrant[d]

\* Such a step keeps the order of the steps.
LEMMA LaboursInTurn ==
    ASSUME InTurn, NEW t \in Task, Labours(t), UNCHANGED syncVars
    PROVE  InTurn'
  <1>1. \A u \in Task : /\ Active(u)' => Active(u)
                        /\ task'[u].doc = task[u].doc /\ task'[u].inline = task[u].inline
    BY DEF Labours, Active
  <1>2. UNCHANGED <<run, job, del, page, req>>
    BY DEF Labours, syncVars
  <1>3. NobodyIngests => NobodyIngests'
    BY <1>1 DEF NobodyIngests
  <1>4. PagesBorn'
    BY <1>2 DEF InTurn, PagesBorn, Born, Labours
  <1>5. \A n \in Run : Busy(n)' <=> Busy(n)
    BY <1>2 DEF Busy, RunActive
  <1>6. /\ NobodyServed' <=> NobodyServed
        /\ Deleting' <=> Deleting
        /\ \A r \in Request : Serving(r)' <=> Serving(r)
    BY <1>2 DEF NobodyServed, Serving, Deleting
  <1>. QED  BY <1>1, <1>2, <1>3, <1>4, <1>5, <1>6 DEF InTurn

\* Such a step keeps the invariant.
LEMMA LaboursSkip ==
    ASSUME SyncTypeInv, SkipInv, NEW t \in Task, Labours(t), UNCHANGED syncVars,
           \A d \in Doc : d = task[t].doc /\ ~task[t].inline /\ Works(t, d)
                            => Furthers(t, d)
    PROVE  SkipInv'
  <1>1. UNCHANGED <<run, job, del, page, req>>
    BY DEF Labours, syncVars
  <1>2. InTurn'
    BY LaboursInTurn DEF SkipInv
  <1>3. ASSUME NEW d \in Doc, del.pc = "idle", Kept(d)' PROVE Skippable(d)'
    <2>1. Kept(d)
      BY <1>1, <1>3 DEF Kept, Live, Purged, Labours
    <2>2. Skippable(d)
      BY <1>3, <2>1 DEF SkipInv
    <2>3. Touched(d)' <=> Touched(d)
      BY <1>1 DEF Touched
    <2>4. \A n \in Run : (Busy(n)' <=> Busy(n)) /\ run'[n] = run[n]
      BY <1>1 DEF Busy, RunActive
    <2>5. CASE d # task[t].doc
      BY <2>2, <2>3, <2>4, <2>5, SkippableFrame DEF Labours
    <2>6. CASE d = task[t].doc
      <3>1. Active(t) /\ Works(t, d) /\ Ingested(d)
        BY <2>2, <2>6 DEF Labours, Skippable, Ingested
      <3>2. ~task[t].inline
        BY <2>1, <2>6, <3>1 DEF SkipInv, InTurn, Kept
      <3>3. Furthers(t, d)
        BY <2>6, <3>1, <3>2
      <3>4. TrulyIndexed(d)'
        <4>1. ASSUME doc'[d].status = "INDEXED" PROVE Stored(d)' <=> Stored(d)
          BY <2>6, <3>3, <4>1 DEF Furthers, Labours, Stored
        <4>. QED  BY <2>2, <2>3, <2>6, <3>3, <4>1 DEF Furthers, Skippable, TrulyIndexed
      <3>5. \A u \in Task : task'[u].doc = d /\ Active(u)' => u = t
        BY <2>6, <3>1 DEF Ingested, Labours, Active
      <3>6. Ingested(d)'
        BY <2>6, <3>1, <3>3, <3>5 DEF Ingested, Furthers
      <3>7. ASSUME NEW n \in Run, Busy(n)' PROVE Awaits(n, d)'
        <4>1. Busy(n) /\ Awaits(n, d)
          BY <2>2, <2>4, <3>7 DEF Skippable
        <4>2. run[n].pc \in {"fanout", "failed"}
          BY <3>1, <4>1 DEF SkipInv, InTurn, NobodyIngests
        <4>3. \A s \in run[n].subtasks : s.doc # d
          BY <2>6, <3>1, <4>1 DEF Awaits
        <4>. QED  BY <1>1, <4>2, <4>3 DEF Awaits
      <3>. QED  BY <3>4, <3>6, <3>7 DEF Skippable
    <2>. QED  BY <2>5, <2>6
  <1>. QED  BY <1>1, <1>2, <1>3 DEF SkipInv

\* A task that moves on keeps all it carries.
LEMMA TaskGotoWhole ==
    ASSUME TypeInv, NEW t \in Task, NEW pc \in TaskPc, TaskGoto(t, pc)
    PROVE  /\ task'[t].pc = pc
           /\ task'[t].doc = task[t].doc /\ task'[t].inline = task[t].inline
           /\ task'[t].content = task[t].content
           /\ task'[t].stale = task[t].stale
           /\ \A u \in Task : u # t => task'[u] = task[u]
  BY DEF TypeInv, TypeOK, TaskGoto, TaskRun

\* Every step of an ingestion.
LEMMA WorkerLabours ==
    ASSUME SyncTypeInv, NEW t \in Task,
           WorkerStep(t) \/ IngestFails(t) \/ UpsertTimesOut(t) \/ WorkerDies(t)
    PROVE  /\ Labours(t)
           /\ \A d \in Doc : d = task[t].doc /\ ~task[t].inline /\ Works(t, d)
                            => Furthers(t, d)
  <1>a. TypeInv
    BY DEF SyncTypeInv
  <1>0. Active(t)
    BY DEF Active, WorkerStep, WorkerStart, WorkerRead, UpsertPoints,
           DeleteOldChunks, InsertChunks, InsertFails, Compensate, MarkIndexed,
           MarkFailed, Unstage, IngestFails, UpsertTimesOut, WorkerDies
  <1>1. PICK d \in Doc : d = task[t].doc
    BY <1>a, <1>0, TaskArgs DEF Active
  <1>2. /\ chunks \in [Doc -> SUBSET Batch] /\ qdrant \in [Doc -> SUBSET Batch]
        /\ staged \in [Doc -> Content \cup {None}] /\ task \in [Task -> TaskRun]
        /\ doc \in [Doc -> DocRow]
    BY <1>a DEF TypeInv, TypeOK
  <1>3. CASE WorkerStart(t)
    <2>1. /\ task[t].pc = "queued" /\ TaskGoto(t, "read")
          /\ SetStatus(d, "PROCESSING") /\ UNCHANGED <<chunks, qdrant, staged, req>>
      BY <1>1, <1>3 DEF WorkerStart
    <2>2. /\ task'[t].pc = "read"
          /\ task'[t].doc = d /\ task'[t].inline = task[t].inline
          /\ \A u \in Task : u # t => task'[u] = task[u]
      BY <1>a, <1>1, <2>1, TaskGotoWhole DEF TaskPc
    <2>3. \A e \in Doc : /\ doc'[e].state = doc[e].state
                         /\ doc'[e].hash = doc[e].hash
                         /\ e # d => doc'[e] = doc[e]
      BY <1>2, <2>1 DEF SetStatus, DocRow
    <2>4. doc'[d].status = "INDEXED" => doc[d].status = "INDEXED"
      BY <1>2, <2>1 DEF SetStatus, DocRow
    <2>. QED  BY <1>0, <1>1, <2>1, <2>2, <2>3, <2>4 DEF Labours, Furthers, Works
  <1>4. CASE WorkerRead(t)
    <2>1. /\ task[t].pc = "read" /\ UNCHANGED <<doc, chunks, qdrant, staged, req>>
          /\ task' = [task EXCEPT ![t].content = staged[d],
                                  ![t].pc = IF staged[d] = None THEN "fail" ELSE "upsert"]
      BY <1>1, <1>4 DEF WorkerRead
    <2>2. /\ task'[t].pc = IF staged[d] = None THEN "fail" ELSE "upsert"
          /\ task'[t].content = staged[d]
          /\ task'[t].doc = d /\ task'[t].inline = task[t].inline
          /\ \A u \in Task : u # t => task'[u] = task[u]
      BY <1>1, <1>2, <2>1 DEF TaskRun
    <2>3. Labours(t)
      BY <1>0, <1>1, <2>1, <2>2 DEF Labours
    <2>4. ASSUME Works(t, d) PROVE Works(t, d)' /\ doc'[d].status # "INDEXED"
      BY <2>1, <2>2, <2>4 DEF Works
    <2>. QED  BY <1>1, <2>3, <2>4 DEF Furthers
  <1>5. CASE UpsertPoints(t) \/ UpsertTimesOut(t)
    <2>1. /\ task[t].pc = "upsert" /\ UNCHANGED <<doc, chunks, staged, req>>
          /\ WritePoints(t)
          /\ \E pc \in {"index", "delete", "lost", "fail"} :
                TaskGoto(t, pc) /\ (~task[t].inline => pc \in {"delete", "fail"})
      BY <1>5 DEF UpsertPoints, UpsertTimesOut, Raise
    <2>2. /\ task'[t].pc \in {"index", "delete", "lost", "fail"}
          /\ ~task[t].inline => task'[t].pc \in {"delete", "fail"}
          /\ task'[t].doc = d /\ task'[t].inline = task[t].inline
          /\ task'[t].content = task[t].content
          /\ \A u \in Task : u # t => task'[u] = task[u]
      BY <1>a, <1>1, <2>1, TaskGotoWhole DEF TaskPc
    <2>3. \A e \in Doc : qdrant'[e] = IF e = d THEN qdrant[e] \cup {BatchOf(t)}
                                               ELSE qdrant[e]
      BY <1>1, <1>2, <2>1 DEF WritePoints
    <2>4. t \in Ids(qdrant'[d])
      <3>1. BatchOf(t) \in qdrant'[d] /\ BatchOf(t).task = t
        BY <2>3 DEF BatchOf
      <3>. QED  BY <3>1 DEF Ids
    <2>5. Labours(t)
      BY <1>0, <1>1, <2>1, <2>2, <2>3 DEF Labours
    <2>6. ASSUME ~task[t].inline, Works(t, d) PROVE Works(t, d)'
      BY <2>1, <2>2, <2>4, <2>6 DEF Works
    <2>7. Works(t, d) => doc'[d].status # "INDEXED"
      BY <2>1 DEF Works
    <2>. QED  BY <1>1, <2>1, <2>5, <2>6, <2>7 DEF Furthers
  <1>6. CASE DeleteOldChunks(t)
    <2>1. /\ task[t].pc = "delete" /\ UNCHANGED <<doc, chunks, qdrant, staged, req>>
          /\ task' = [task EXCEPT ![t].stale = chunks[d], ![t].pc = "insert"]
      BY <1>1, <1>6 DEF DeleteOldChunks
    <2>2. /\ task'[t].pc = "insert" /\ task'[t].stale = chunks[d]
          /\ task'[t].content = task[t].content
          /\ task'[t].doc = d /\ task'[t].inline = task[t].inline
          /\ \A u \in Task : u # t => task'[u] = task[u]
      BY <1>1, <1>2, <2>1 DEF TaskRun
    <2>3. Labours(t)
      BY <1>0, <1>1, <2>1, <2>2 DEF Labours
    <2>4. ASSUME Works(t, d) PROVE Works(t, d)' /\ doc'[d].status # "INDEXED"
      BY <2>1, <2>2, <2>4 DEF Works
    <2>. QED  BY <1>1, <2>3, <2>4 DEF Furthers
  <1>7. CASE InsertChunks(t)
    <2>1. /\ task[t].pc = "insert" /\ UNCHANGED <<doc, qdrant, staged, req>>
          /\ TaskGoto(t, "index")
          /\ chunks' = [chunks EXCEPT ![d] = (@ \ task[t].stale) \cup {BatchOf(t)}]
      BY <1>1, <1>7 DEF InsertChunks
    <2>2. /\ task'[t].pc = "index" /\ task'[t].content = task[t].content
          /\ task'[t].doc = d /\ task'[t].inline = task[t].inline
          /\ \A u \in Task : u # t => task'[u] = task[u]
      BY <1>a, <1>1, <2>1, TaskGotoWhole DEF TaskPc
    <2>3. \A e \in Doc : chunks'[e] = IF e = d
                            THEN (chunks[e] \ task[t].stale) \cup {BatchOf(t)}
                            ELSE chunks[e]
      BY <1>2, <2>1
    <2>4. Labours(t)
      BY <1>0, <1>1, <2>1, <2>2, <2>3 DEF Labours
    <2>5. ASSUME Works(t, d) PROVE Works(t, d)' /\ doc'[d].status # "INDEXED"
      <3>1. /\ task[t].content = doc[d].hash /\ t \in Ids(qdrant[d])
            /\ task[t].stale = chunks[d] /\ doc[d].status # "INDEXED"
        BY <2>1, <2>5 DEF Works
      <3>2. chunks'[d] = {BatchOf(t)}
        BY <2>3, <3>1
      <3>3. BatchOf(t).task = t /\ BatchOf(t).content = task[t].content
        BY DEF BatchOf
      <3>4. Ids(chunks'[d]) = {t} /\ Ids(qdrant'[d]) = Ids(qdrant[d])
        BY <2>1, <3>2, <3>3 DEF Ids
      <3>5. Stored(d)'
        BY <2>1, <3>1, <3>2, <3>3, <3>4 DEF Stored
      <3>. QED  BY <2>1, <2>2, <3>1, <3>5 DEF Works
    <2>. QED  BY <1>1, <2>4, <2>5 DEF Furthers
  <1>8. CASE \/ InsertFails(t) \/ Compensate(t) \/ IngestFails(t) \/ WorkerDies(t)
    <2>1. /\ UNCHANGED <<doc, chunks, staged, req>>
          /\ \/ qdrant' = [qdrant EXCEPT ![d] = {}] /\ task[t].pc # "unstage"
             \/ qdrant' = qdrant
          /\ \E pc \in {"compensate", "fail", "lost"} :
                /\ TaskGoto(t, pc)
                /\ task[t].pc = "unstage" => pc = "lost"
      BY <1>1, <1>8 DEF InsertFails, Compensate, IngestFails, WorkerDies, Raise
    <2>2. /\ task'[t].pc \in {"compensate", "fail", "lost"}
          /\ task[t].pc = "unstage" => task'[t].pc = "lost"
          /\ task'[t].doc = d /\ task'[t].inline = task[t].inline
          /\ \A u \in Task : u # t => task'[u] = task[u]
      BY <1>a, <1>1, <2>1, TaskGotoWhole DEF TaskPc
    <2>3. \A e \in Doc : e # d => qdrant'[e] = qdrant[e]
      BY <1>2, <2>1
    <2>4. Labours(t)
      BY <1>0, <1>1, <2>1, <2>2, <2>3 DEF Labours
    <2>5. ASSUME Works(t, d), Active(t)' PROVE Works(t, d)'
      BY <2>1, <2>2, <2>5 DEF Works, Active
    <2>6. ASSUME Works(t, d), doc'[d].status = "INDEXED"
          PROVE  doc[d].status = "INDEXED" /\ qdrant'[d] = qdrant[d]
      BY <2>1, <2>6 DEF Works
    <2>. QED  BY <1>1, <2>1, <2>4, <2>5, <2>6 DEF Furthers
  <1>9. CASE MarkIndexed(t) \/ MarkFailed(t)
    <2>1. /\ UNCHANGED <<chunks, qdrant, staged, req>>
          /\ \E pc \in {"unstage", "done"} : TaskGoto(t, pc)
          /\ \/ task[t].pc = "index" /\ SetStatus(d, "INDEXED")
             \/ task[t].pc = "fail" /\ SetStatus(d, "FAILED")
      BY <1>1, <1>9 DEF MarkIndexed, MarkFailed
    <2>2. /\ task'[t].pc \in {"unstage", "done"}
          /\ task'[t].doc = d /\ task'[t].inline = task[t].inline
          /\ \A u \in Task : u # t => task'[u] = task[u]
      BY <1>a, <1>1, <2>1, TaskGotoWhole DEF TaskPc
    <2>3. /\ \A e \in Doc : /\ doc'[e].state = doc[e].state
                            /\ doc'[e].hash = doc[e].hash
                            /\ e # d => doc'[e] = doc[e]
          /\ doc'[d].status = "INDEXED" =>
                doc[d].status = "INDEXED" \/ task[t].pc = "index"
      BY <1>2, <2>1 DEF SetStatus, DocRow
    <2>4. Labours(t)
      BY <1>0, <1>1, <2>1, <2>2, <2>3 DEF Labours
    <2>5. Active(t)' => Works(t, d)'
      BY <2>2 DEF Works, Active
    <2>6. Works(t, d) /\ task[t].pc = "index" => Stored(d)
      BY DEF Works
    <2>. QED  BY <1>1, <2>1, <2>3, <2>4, <2>5, <2>6 DEF Furthers
  <1>10. CASE Unstage(t)
    <2>1. /\ UNCHANGED <<doc, chunks, qdrant, req>> /\ TaskGoto(t, "done")
          /\ \A e \in Doc : e # d => staged'[e] = staged[e]
      BY <1>1, <1>2, <1>10 DEF Unstage
    <2>2. /\ task'[t].pc = "done"
          /\ task'[t].doc = d /\ task'[t].inline = task[t].inline
          /\ \A u \in Task : u # t => task'[u] = task[u]
      BY <1>a, <1>1, <2>1, TaskGotoWhole DEF TaskPc
    <2>3. Labours(t)
      BY <1>0, <1>1, <2>1, <2>2 DEF Labours
    <2>. QED  BY <1>1, <2>1, <2>2, <2>3 DEF Furthers, Active
  <1>. QED
    BY <1>3, <1>4, <1>5, <1>6, <1>7, <1>8, <1>9, <1>10 DEF WorkerStep

\* Every step of an ingestion, faults included, keeps the invariant.
LEMMA WorkerSkip ==
    ASSUME SyncTypeInv, SkipInv, NEW t \in Task,
           WorkerStep(t) \/ IngestFails(t) \/ UpsertTimesOut(t) \/ WorkerDies(t),
           UNCHANGED syncVars
    PROVE  SkipInv'
  <1>1. /\ Labours(t)
        /\ \A d \in Doc : d = task[t].doc /\ ~task[t].inline /\ Works(t, d)
                         => Furthers(t, d)
    BY WorkerLabours
  <1>. QED  BY <1>1, LaboursSkip

-----------------------------------------------------------------------------
(* Requests, and what begins beside them.                                  *)

\* A step that has nothing to do with an ingestion of a page, with a run or
\* with the content of a document of the job.
LEMMA RequestSkip ==
    ASSUME SyncTypeInv, SkipInv, InTurn', UNCHANGED syncVars,
           \A n \in Run : ~Busy(n),
           \A t \in Task : Active(t)' => page[task'[t].doc] = None,
           \A d \in Doc : Kept(d)' =>
               /\ Kept(d)
               /\ doc'[d].status = doc[d].status /\ doc'[d].hash = doc[d].hash
               /\ Stored(d) => Stored(d)'
    PROVE  SkipInv'
  <1>1. UNCHANGED <<source, page, job, run, del>>
    BY DEF syncVars
  <1>2. ASSUME NEW d \in Doc, del.pc = "idle", Kept(d)' PROVE Skippable(d)'
    <2>1. Kept(d) /\ Skippable(d)
      BY <1>2 DEF SkipInv
    <2>2. TrulyIndexed(d)'
      BY <1>1, <1>2, <2>1 DEF Skippable, TrulyIndexed, Touched
    <2>3. Ingested(d)'
      BY <2>1 DEF Ingested, Kept
    <2>4. \A n \in Run : ~Busy(n)'
      BY <1>1 DEF Busy, RunActive
    <2>. QED  BY <2>2, <2>3, <2>4 DEF Skippable
  <1>. QED  BY <1>1, <1>2 DEF SkipInv

\* A step of a handler keeps the order: nobody but other handlers and the
\* ingestions of uploads are at work.
LEMMA HandlerInTurn ==
    ASSUME SyncTypeInv, InTurn, NEW r \in Request, Serving(r), UNCHANGED syncVars,
           \A q \in Request : q # r => req'[q] = req[q],
           req'[r].pc # "idle",
           req'[r].pc \in {"stage", "enqueue"} => page[req'[r].doc] = None,
           req'[r].pc \in {"staged", "row", "status"} =>
              req'[r].op \in {"delete", "reindex"},
           \A d \in Doc : Born(d) => Born(d)',
           \A t \in Task : \/ task'[t] = task[t]
                           \/ page[task'[t].doc] = None
    PROVE  InTurn' /\ (\A n \in Run : ~Busy(n))
                   /\ (\A t \in Task : Active(t)' => page[task'[t].doc] = None)
  <1>1. UNCHANGED <<source, page, job, run, del>>
    BY DEF syncVars
  <1>2. \A n \in Run : ~Busy(n)
    BY DEF InTurn, NobodyServed
  <1>3. \A n \in Run : ~Busy(n)'
    BY <1>1, <1>2 DEF Busy, RunActive
  <1>4. \A t \in Task : Active(t)' => page[task'[t].doc] = None
    BY DEF InTurn, Active
  <1>5. PagesBorn'
    BY <1>1 DEF InTurn, PagesBorn
  <1>6. \A q \in Request :
           /\ req'[q].pc = "idle" => req'[q].op = "upload"
           /\ req'[q].pc \in {"stage", "enqueue"} => page[req'[q].doc] = None
           /\ req'[q].pc \in {"staged", "row", "status"} =>
                 req'[q].op \in {"delete", "reindex"}
    BY DEF InTurn
  <1>7. /\ \A n \in Run :
              /\ run[n].pc \in {"idle", "queued"} => run[n].subtasks = {}
              /\ run[n].pc = "purgeRows" => run[n].found \in run[n].purge
        /\ del.pc = "done" => ~job.live
    BY DEF InTurn
  <1>8. InTurn'
    BY <1>1, <1>3, <1>4, <1>5, <1>6, <1>7 DEF InTurn
  <1>. QED  BY <1>2, <1>4, <1>8

\* The ids of batches do not depend on their labels.
LEMMA RelabelIds ==
    ASSUME NEW S \in SUBSET Batch, NEW a
    PROVE  Ids(Relabel(S, a)) = Ids(S)
  <1>1. Ids(Relabel(S, a)) \subseteq Ids(S)
    BY RelabelKeeps DEF Ids
  <1>2. ASSUME NEW b \in S PROVE b.task \in Ids(Relabel(S, a))
    <2>1. [b EXCEPT !.acl = a] \in Relabel(S, a)
      BY DEF Relabel
    <2>2. [b EXCEPT !.acl = a].task = b.task
      BY DEF Batch
    <2>. QED  BY <2>1, <2>2 DEF Ids
  <1>. QED  BY <1>1, <1>2 DEF Ids

\* A change of the access fields of the batches of a document, as any change
\* of labels, leaves it stored.
LEMMA RelabelStored ==
    ASSUME TypeInv, NEW d \in Doc, NEW a, Stored(d), doc'[d].hash = doc[d].hash,
           chunks'[d] \in {chunks[d], Relabel(chunks[d], a)},
           qdrant'[d] \in {qdrant[d], Relabel(qdrant[d], a)}
    PROVE  Stored(d)'
  <1>1. chunks[d] \in SUBSET Batch /\ qdrant[d] \in SUBSET Batch
    BY DEF TypeInv, TypeOK
  <1>2. Ids(chunks'[d]) = Ids(chunks[d]) /\ Ids(qdrant'[d]) = Ids(qdrant[d])
    BY <1>1, RelabelIds
  <1>3. chunks'[d] # {} /\ \A b \in chunks'[d] : \E c \in chunks[d] : b.content = c.content
    BY <1>1, RelabelKeeps DEF Stored
  <1>. QED  BY <1>2, <1>3 DEF Stored

\* Every step of a handler, faults included, keeps the invariant.
LEMMA HandlerSkip ==
    ASSUME SyncTypeInv, SkipInv, NEW r \in Request,
           \/ HandlerStep(r) \/ HandlerDies(r)
           \/ \E t \in Task : UploadInline(r, t),
           UNCHANGED syncVars
    PROVE  SkipInv'
  <1>1. Serving(r)
    BY DEF Serving, HandlerStep, UploadStage, UploadEnqueue, PurgeVectors,
           PurgeChunks, DeleteStaged, DeleteRow, ReindexStatus, UpdateVectors,
           UpdateChunks, HandlerDies, UploadInline
  <1>2. TypeInv /\ page' = page
    BY DEF SyncTypeInv, syncVars
  <1>3. PICK d \in Doc : d = req[r].doc
    BY <1>1, <1>2 DEF Serving, TypeInv, RequestsCarry
  <1>4. /\ chunks \in [Doc -> SUBSET Batch] /\ qdrant \in [Doc -> SUBSET Batch]
        /\ doc \in [Doc -> DocRow] /\ req \in [Request -> Handler]
        /\ task \in [Task -> TaskRun]
    BY <1>2 DEF TypeInv, TypeOK
  <1>5. PICK pc \in ReqPc : ReqGoto(r, pc) /\ (pc = "enqueue" => req[r].pc = "stage")
                            /\ pc \notin {"idle", "stage"}
                            /\ (pc \in {"staged", "row", "status"} =>
                                   req[r].op \in {"delete", "reindex"})
    BY DEF SkipInv, InTurn,  HandlerStep, UploadStage, UploadEnqueue, PurgeVectors,
           PurgeChunks, DeleteStaged, DeleteRow, ReindexStatus, UpdateVectors,
           UpdateChunks, HandlerDies, UploadInline, ReqPc
  <1>6. /\ \A q \in Request : q # r => req'[q] = req[q]
        /\ req'[r].pc = pc /\ req'[r].doc = d /\ req'[r].op = req[r].op
    BY <1>2, <1>3, <1>5, ReqGotoOnly
  <1>7. /\ req'[r].pc # "idle"
        /\ req'[r].pc \in {"stage", "enqueue"} => page[d] = None
        /\ req'[r].pc \in {"staged", "row", "status"} =>
              req'[r].op \in {"delete", "reindex"}
    BY <1>3, <1>5, <1>6 DEF SkipInv, InTurn
  <1>8. \A e \in Doc : Purged(e)' <=> Purged(e)
    BY <1>3, <1>6 DEF Purged
  <1>9. ASSUME \A e \in Doc : Born(e) => Born(e)',
               \A t \in Task : task'[t] = task[t] \/ page[task'[t].doc] = None,
               \A e \in Doc : Kept(e)' =>
                   /\ Kept(e)
                   /\ doc'[e].status = doc[e].status /\ doc'[e].hash = doc[e].hash
                   /\ Stored(e) => Stored(e)'
        PROVE  SkipInv'
    BY <1>1, <1>2, <1>3, <1>6, <1>7, <1>9, HandlerInTurn, RequestSkip DEF SkipInv
  <1>10. ASSUME UNCHANGED <<doc, chunks, qdrant>>,
                \A t \in Task : task'[t] = task[t] \/ page[task'[t].doc] = None
         PROVE  SkipInv'
    BY <1>2, <1>8, <1>9, <1>10 DEF Born, Live, Kept, Stored
  <1>11. CASE UploadStage(r) \/ DeleteStaged(r) \/ HandlerDies(r)
    BY <1>10, <1>11 DEF UploadStage, DeleteStaged, HandlerDies
  <1>12. ASSUME NEW t \in Task, UploadEnqueue(r, t) \/ UploadInline(r, t)
         PROVE  SkipInv'
    <2>1. /\ UNCHANGED <<doc, chunks, qdrant>> /\ req[r].pc = "enqueue"
          /\ \E c, i : Dispatch(t, d, req[r].acl, c, i)
      BY <1>3, <1>12 DEF UploadEnqueue, UploadInline
    <2>2. task'[t].doc = d /\ \A u \in Task : u # t => task'[u] = task[u]
      BY <1>4, <2>1 DEF Dispatch
    <2>3. page[d] = None
      BY <1>3, <2>1 DEF SkipInv, InTurn
    <2>. QED  BY <1>10, <2>1, <2>2, <2>3
  <1>13. CASE \/ PurgeVectors(r) \/ PurgeChunks(r) \/ DeleteRow(r) \/ ReindexStatus(r)
    <2>1. /\ task' = task
          /\ req[r].op \in {"delete", "reindex"}
      BY <1>13 DEF PurgeVectors, PurgeChunks, DeleteRow, ReindexStatus, SkipInv, InTurn
    <2>2. Purged(d)
      BY <1>3, <2>1 DEF Purged
    <2>3. \A e \in Doc : e # d => /\ doc'[e] = doc[e]
                                 /\ chunks'[e] = chunks[e] /\ qdrant'[e] = qdrant[e]
      BY <1>3, <1>4, <1>13
         DEF PurgeVectors, PurgeChunks, DeleteRow, ReindexStatus, DropRow, SetStatus
    <2>4. Born(d) => Born(d)'
      BY <1>3, <1>4, <1>13
         DEF PurgeVectors, PurgeChunks, DeleteRow, ReindexStatus, DropRow, SetStatus,
             Born, DocRow
    <2>. QED
      BY <1>2, <1>8, <1>9, <2>1, <2>2, <2>3, <2>4 DEF Born, Live, Kept, Stored
  <1>14. CASE UpdateVectors(r) \/ UpdateChunks(r)
    <2>1. UNCHANGED <<doc, task>>
      BY <1>14 DEF UpdateVectors, UpdateChunks
    <2>2. \A e \in Doc : /\ chunks'[e] \in {chunks[e], Relabel(chunks[e], req[r].acl)}
                         /\ qdrant'[e] \in {qdrant[e], Relabel(qdrant[e], req[r].acl)}
      BY <1>3, <1>4, <1>14 DEF UpdateVectors, UpdateChunks
    <2>3. ASSUME NEW e \in Doc, Stored(e) PROVE Stored(e)'
      BY <1>2, <2>1, <2>2, <2>3, RelabelStored
    <2>. QED  BY <1>2, <1>8, <1>9, <2>1, <2>3 DEF Born, Live, Kept
  <1>. QED
    BY <1>11, <1>12, <1>13, <1>14 DEF HandlerStep

\* A request begins when nobody ingests and no run is in progress.
LEMMA ArriveSkip ==
    ASSUME SyncTypeInv, SkipInv, SerialRuns, NEW r \in Request, NEW d \in Doc,
           Arrive(r, d), UNCHANGED syncVars
    PROVE  SkipInv'
  <1>1. UNCHANGED <<source, page, job, run, del>> /\ TypeInv
    BY DEF syncVars, SyncTypeInv
  <1>2. /\ req[r].pc = "idle" /\ UNCHANGED <<chunks, qdrant, task>>
        /\ \A q \in Request : q # r => req'[q] = req[q]
        /\ req'[r].pc \in {"stage", "vectors"} /\ req'[r].doc = d
        /\ req'[r].pc = "stage" => ~Born(d)
        /\ \A e \in Doc : \/ /\ doc'[e].state = doc[e].state
                             /\ doc'[e].status = doc[e].status
                             /\ doc'[e].hash = doc[e].hash
                          \/ e = d /\ ~Born(d) /\ doc'[e].state = "live"
    <2>1. CASE \E a \in Acl, c \in Content : UploadCreate(r, d, a, c)
      BY <1>1, <2>1 DEF UploadCreate, TypeInv, TypeOK, Born
    <2>2. CASE \E op \in Ops : PurgeStart(r, d, op)
      BY <1>1, <2>2 DEF PurgeStart, TypeInv, TypeOK
    <2>3. CASE \E a \in Acl : UpdateRow(r, d, a)
      BY <1>1, <2>3 DEF UpdateRow, TypeInv, TypeOK, DocRow
    <2>. QED  BY <2>1, <2>2, <2>3 DEF Arrive
  <1>3. NobodyIngests /\ NobodyRuns
    BY <1>2 DEF SerialRuns, RequestBegins
  <1>4. /\ \A n \in Run : ~Busy(n)
        /\ \A n \in Run : ~Busy(n)'
        /\ \A t \in Task : ~Active(t) /\ ~Active(t)'
    BY <1>1, <1>2, <1>3 DEF NobodyRuns, NobodyIngests, Busy, RunActive, Active
  <1>5. ~Born(d) => page[d] = None
    BY DEF SkipInv, InTurn, PagesBorn
  <1>6. PagesBorn'
    BY <1>1, <1>2 DEF SkipInv, InTurn, PagesBorn, Born
  <1>7. \A q \in Request :
           /\ req'[q].pc = "idle" => req'[q].op = "upload"
           /\ req'[q].pc \in {"stage", "enqueue"} => page[req'[q].doc] = None
           /\ req'[q].pc \in {"staged", "row", "status"} =>
                 req'[q].op \in {"delete", "reindex"}
    BY <1>2, <1>5 DEF SkipInv, InTurn
  <1>8. /\ \A n \in Run :
              /\ run[n].pc \in {"idle", "queued"} => run[n].subtasks = {}
              /\ run[n].pc = "purgeRows" => run[n].found \in run[n].purge
        /\ del.pc = "done" => ~job.live
    BY DEF SkipInv, InTurn
  <1>9. InTurn'
    BY <1>1, <1>4, <1>6, <1>7, <1>8 DEF InTurn
  <1>10. ASSUME NEW e \in Doc, Kept(e)'
         PROVE  /\ Kept(e)
                /\ doc'[e].status = doc[e].status /\ doc'[e].hash = doc[e].hash
                /\ Stored(e) => Stored(e)'
    <2>1. /\ doc'[e].state = doc[e].state
          /\ doc'[e].status = doc[e].status
          /\ doc'[e].hash = doc[e].hash
      BY <1>1, <1>2, <1>5, <1>10 DEF Kept
    <2>2. Purged(e) => Purged(e)'
      <3>1. ASSUME NEW q \in Request, req[q].op \in {"delete", "reindex"}
            PROVE  req'[q] = req[q]
        BY <1>2, <3>1 DEF SkipInv, InTurn
      <3>. QED  BY <3>1 DEF Purged
    <2>. QED  BY <1>1, <1>2, <1>10, <2>1, <2>2 DEF Kept, Live, Stored
  <1>. QED  BY <1>4, <1>9, <1>10, RequestSkip

\* A step that leaves documents, ingestions and requests alone, and every
\* run that is in progress.
LEMMA BesideSkip ==
    ASSUME SkipInv, UNCHANGED <<doc, chunks, qdrant, staged, task, req, page, job>>,
           del.pc = "done" \/ del'.pc # "done",
           Deleting' => Deleting, del'.pc = "idle" => del.pc = "idle",
           \A n \in Run : /\ Busy(n)' => Busy(n)
                          /\ Busy(n) => run'[n] = run[n]
                          /\ run'[n].pc \in {"idle", "queued"} => run'[n].subtasks = {},
           \A d \in Doc : Touched(d) => Touched(d)'
    PROVE  SkipInv'
  <1>1. InTurn'
    <2>1. /\ NobodyIngests' <=> NobodyIngests
          /\ NobodyServed' <=> NobodyServed
          /\ \A t \in Task : Active(t)' <=> Active(t)
          /\ \A r \in Request : Serving(r)' <=> Serving(r)
      BY DEF NobodyIngests, Active, NobodyServed, Serving
    <2>2. PagesBorn'
      BY DEF SkipInv, InTurn, PagesBorn, Born
    <2>3. \A n \in Run : Busy(n)' =>
             /\ job.live /\ NobodyServed /\ ~Deleting
             /\ run'[n].pc \notin {"fanout", "failed"} => NobodyIngests
             /\ \A m \in Run : Busy(m)' => m = n
             /\ \A s \in run'[n].subtasks : s.acl = job.acl
      BY DEF SkipInv, InTurn
    <2>4. \A n \in Run : run'[n].pc = "purgeRows" => run'[n].found \in run'[n].purge
      BY DEF SkipInv, InTurn, Busy, RunActive
    <2>. QED  BY <2>1, <2>2, <2>3, <2>4 DEF SkipInv, InTurn
  <1>2. ASSUME NEW d \in Doc, del'.pc = "idle", Kept(d)' PROVE Skippable(d)'
    <2>1. Kept(d)
      BY <1>2 DEF Kept, Live, Purged
    <2>2. Skippable(d)
      BY <1>2, <2>1 DEF SkipInv
    <2>. QED  BY <2>2, SkippableFrame
  <1>. QED  BY <1>1, <1>2 DEF SkipInv

\* A change of the source, and a run that is sent.
LEMMA SendSkip ==
    ASSUME SyncTypeInv, SkipInv,
           \/ \E p \in Page, c \in Content \cup {None} : SourceChanges(p, c)
           \/ \E n \in Run : Trigger(n)
    PROVE  SkipInv'
  <1>1. UNCHANGED <<doc, chunks, qdrant, staged, task, req, page, job, del>>
    BY DEF SourceChanges, Trigger, vars
  <1>2. Deleting' <=> Deleting
    BY <1>1 DEF Deleting
  <1>3. CASE \E p \in Page, c \in Content \cup {None} : SourceChanges(p, c)
    <2>1. run' = run
      BY <1>3 DEF SourceChanges
    <2>2. /\ \A n \in Run : Busy(n)' <=> Busy(n)
          /\ \A d \in Doc : Touched(d) => Touched(d)'
      BY <2>1 DEF Busy, RunActive, Touched
    <2>. QED  BY <1>1, <1>2, <2>1, <2>2, BesideSkip DEF SkipInv, InTurn
  <1>4. ASSUME NEW n \in Run, Trigger(n) PROVE SkipInv'
    <2>1. /\ run[n].pc = "idle" /\ run'[n].pc = "queued"
          /\ run'[n].subtasks = run[n].subtasks
          /\ \A m \in Run : m # n => run'[m] = run[m]
      BY <1>4 DEF Trigger, RunGoto, SyncTypeInv, SyncTypeOK, Execution
    <2>2. \A m \in Run : /\ Busy(m)' => Busy(m)
                         /\ Busy(m) => run'[m] = run[m]
      BY <2>1 DEF Busy, RunActive
    <2>3. \A d \in Doc : Touched(d) => Touched(d)'
      BY <2>1 DEF Touched
    <2>4. \A m \in Run : run'[m].pc \in {"idle", "queued"} => run'[m].subtasks = {}
      BY <2>1 DEF SkipInv, InTurn
    <2>. QED  BY <1>1, <1>2, <2>2, <2>3, <2>4, BesideSkip
  <1>. QED  BY <1>3, <1>4

\* The deletion of the job: nothing is claimed of its documents from here on.
LEMMA DeletionSkip ==
    ASSUME SyncTypeInv, SkipInv, SerialRuns,
           DeleteJobStart \/ DeleteJobStep \/ DeleteJobDies
    PROVE  SkipInv'
  <1>0. /\ del \in JobDeletion /\ TypeInv
        /\ job \in [live : BOOLEAN, status : JobStatus, acl : Acl]
        /\ del.pc = "row" => del.doc \in Doc
    BY DEF SyncTypeInv, SyncTypeOK, DeletionCarries
  <1>1. /\ UNCHANGED <<page, run, task, req>>
        /\ del.pc # "done" /\ del'.pc # "idle"
        /\ del'.pc = "done" => ~job'.live
        /\ \/ doc' = doc
           \/ del.pc = "row" /\ DropRow(del.doc)
    <2>1. CASE DeleteJobStart
      BY <2>1 DEF DeleteJobStart, vars
    <2>2. CASE DeleteJobDies
      BY <1>0, <2>2 DEF DeleteJobDies, Deleting, JobDeletion
    <2>3. CASE DeleteJobRow
      BY <1>0, <2>3 DEF DeleteJobRow, JobDeletion, vars
    <2>4. CASE DeleteJobRaises
      BY <1>0, <2>4 DEF DeleteJobRaises, JobDeletion, vars
    <2>5. CASE DeleteJobDoc
      BY <1>0, <2>5 DEF DeleteJobDoc, JobDeletion
    <2>6. CASE DeleteJobChunks \/ DeleteJobStaged
      BY <1>0, <2>6 DEF DeleteJobChunks, DeleteJobStaged, JobDeletion
    <2>7. CASE \E d \in Doc : DeleteJobPoints(d)
      BY <2>7 DEF DeleteJobPoints
    <2>. QED  BY <2>1, <2>2, <2>3, <2>4, <2>5, <2>6, <2>7 DEF DeleteJobStep
  <1>2. \A n \in Run : ~Busy(n)
    <2>1. CASE DeleteJobStart
      <3>1. NobodyRuns
        BY <1>1, <2>1 DEF DeleteJobStart, SerialRuns, RequestBegins
      <3>. QED  BY <3>1 DEF NobodyRuns, Busy
    <2>2. CASE DeleteJobStep \/ DeleteJobDies
      <3>1. Deleting
        BY <2>2 DEF Deleting, DeleteJobStep, DeleteJobPoints, DeleteJobChunks,
               DeleteJobStaged, DeleteJobDoc, DeleteJobRow, DeleteJobRaises,
               DeleteJobDies
      <3>. QED  BY <3>1 DEF SkipInv, InTurn
    <2>. QED  BY <2>1, <2>2
  <1>3. \A n \in Run : ~Busy(n)'
    BY <1>1, <1>2 DEF Busy, RunActive
  <1>4. PagesBorn'
    <2>1. \A d \in Doc : Born(d) => Born(d)'
      BY <1>0, <1>1 DEF DropRow, Born, TypeInv, TypeOK, DocRow
    <2>. QED  BY <1>1, <2>1 DEF SkipInv, InTurn, PagesBorn
  <1>5. del'.pc = "done" => ~job'.live
    BY <1>1
  <1>6. /\ \A t \in Task : Active(t)' <=> Active(t)
        /\ \A r \in Request : Serving(r)' <=> Serving(r)
    BY <1>1 DEF Active, Serving
  <1>7. InTurn'
    BY <1>1, <1>3, <1>4, <1>5, <1>6 DEF SkipInv, InTurn
  <1>. QED  BY <1>1, <1>7 DEF SkipInv

-----------------------------------------------------------------------------
(* Runs.                                                                   *)

\* A step of a run that is in progress, job and requests being as they were.
Runs(n) ==
    /\ Busy(n)
    /\ UNCHANGED <<req, del>>
    /\ job'.live = job.live /\ job'.acl = job.acl
    /\ \A m \in Run : m # n => run'[m] = run[m]
    /\ run'[n].pc \notin {"idle", "queued"}

\* Such a step keeps the order of the steps.
LEMMA RunInTurn ==
    ASSUME InTurn, NEW n \in Run, Runs(n), PagesBorn',
           \A s \in run'[n].subtasks : s.acl = job.acl,
           Busy(n)' /\ run'[n].pc \notin {"fanout", "failed"} => NobodyIngests',
           run'[n].pc = "purgeRows" => run'[n].found \in run'[n].purge,
           \A t \in Task : Active(t)' /\ page'[task'[t].doc] # None
                                => ~task'[t].inline
    PROVE  InTurn'
  <1>1. job.live /\ NobodyServed /\ ~Deleting /\ \A m \in Run : Busy(m) => m = n
    BY DEF Runs, InTurn
  <1>2. /\ NobodyServed' /\ ~Deleting'
        /\ \A r \in Request : ~Serving(r)'
    BY <1>1 DEF Runs, NobodyServed, Deleting, Serving
  <1>3. \A m \in Run : Busy(m)' => m = n
    BY <1>1 DEF Runs, Busy, RunActive
  <1>4. \A m \in Run : /\ run'[m].pc \in {"idle", "queued"} => run'[m].subtasks = {}
                       /\ run'[m].pc = "purgeRows" => run'[m].found \in run'[m].purge
    BY DEF Runs, InTurn
  <1>5. \A r \in Request :
           /\ req'[r].pc = "idle" => req'[r].op = "upload"
           /\ req'[r].pc \notin {"stage", "enqueue"}
           /\ req'[r].pc \in {"staged", "row", "status"} =>
                 req'[r].op \in {"delete", "reindex"}
    BY <1>2 DEF Runs, InTurn, Serving
  <1>6. (del'.pc = "done" => ~job'.live) /\ job'.live
    BY <1>1 DEF Runs, InTurn
  <1>. QED  BY <1>1, <1>2, <1>3, <1>4, <1>5, <1>6 DEF Runs, InTurn

\* It leaves a document as it is, or is known to purge it.
LEMMA RunSkippable ==
    ASSUME InTurn, NEW n \in Run, Runs(n), NEW d \in Doc, Skippable(d),
           doc'[d].status = doc[d].status, doc'[d].hash = doc[d].hash,
           staged'[d] = staged[d], task' = task,
           \/ chunks'[d] = chunks[d] /\ qdrant'[d] = qdrant[d]
           \/ NobodyIngests /\ Touched(d)',
           Touched(d) => Touched(d)',
           Busy(n)' => \/ Awaits(n, d)'
                       \/ /\ run[n].pc # "stage" /\ run'[n].pc # "stage"
                          /\ \A s \in run'[n].subtasks : s \in run[n].subtasks
    PROVE  Skippable(d)'
  <1>1. TrulyIndexed(d)' /\ Ingested(d)'
    <2>1. CASE chunks'[d] = chunks[d] /\ qdrant'[d] = qdrant[d]
      BY <2>1, IngestedFrame DEF Skippable
    <2>2. CASE NobodyIngests /\ Touched(d)'
      BY <2>2 DEF TrulyIndexed, Ingested, NobodyIngests, Active
    <2>. QED  BY <2>1, <2>2
  <1>2. ASSUME NEW m \in Run, Busy(m)' PROVE Awaits(m, d)'
    <2>1. m = n
      BY <1>2 DEF Runs, InTurn, Busy, RunActive
    <2>. QED  BY <1>2, <2>1 DEF Skippable, Awaits, Active, Runs
  <1>. QED  BY <1>1, <1>2 DEF Skippable

\* A step that changes nothing but the run and the status of the job.
LEMMA RunMovesSkip ==
    ASSUME SkipInv, NEW n \in Run, Runs(n),
           UNCHANGED <<doc, chunks, qdrant, staged, task, page>>,
           run'[n].subtasks = run[n].subtasks,
           run'[n].pc # "stage", run[n].pc = "stage" => run'[n].pc = "lost",
           run[n].pc \in {"fanout", "failed"} =>
              run'[n].pc \in {"fanout", "failed", "done", "lost"},
           run'[n].pc # "purgeRows",
           \A d \in Doc : Touched(d) => Touched(d)'
    PROVE  SkipInv'
  <1>1. PagesBorn'
    BY DEF SkipInv, InTurn, PagesBorn, Born
  <1>2. NobodyIngests' <=> NobodyIngests
    BY DEF NobodyIngests, Active
  <1>3. Busy(n)' => run[n].pc # "stage"
    BY DEF Busy, RunActive
  <1>4. /\ \A s \in run'[n].subtasks : s.acl = job.acl
        /\ Busy(n)' /\ run'[n].pc \notin {"fanout", "failed"} => NobodyIngests'
    BY <1>2 DEF SkipInv, InTurn, Runs, Busy, RunActive
  <1>5. InTurn'
    BY <1>1, <1>4, RunInTurn DEF SkipInv, InTurn, Active
  <1>6. ASSUME NEW d \in Doc, del.pc = "idle", Kept(d)' PROVE Skippable(d)'
    <2>1. Kept(d) /\ Skippable(d)
      BY <1>6 DEF Kept, Live, Purged, Runs, SkipInv
    <2>. QED  BY <1>3, <2>1, RunSkippable DEF SkipInv
  <1>. QED  BY <1>5, <1>6 DEF SkipInv, Runs

\* The start of a run, when nothing else is in progress.
LEMMA StartSkip ==
    ASSUME SyncTypeInv, SkipInv, SerialRuns, NEW n \in Run, RunStart(n)
    PROVE  SkipInv'
  <1>0. /\ run \in [Run -> Execution]
        /\ job \in [live : BOOLEAN, status : JobStatus, acl : Acl]
    BY DEF SyncTypeInv, SyncTypeOK
  <1>1. /\ run[n].pc = "queued"
        /\ UNCHANGED <<doc, chunks, qdrant, staged, task, req, page, del>>
    BY DEF RunStart, vars
  <1>2. CASE job.live
    <2>1. /\ run'[n].pc = "fetch" /\ run'[n].subtasks = run[n].subtasks
          /\ \A m \in Run : m # n => run'[m] = run[m]
      BY <1>0, <1>2 DEF RunStart, Execution
    <2>2. job'.live /\ job'.acl = job.acl
      BY <1>0, <1>2 DEF RunStart, SetJob
    <2>3. NobodyServed /\ ~Deleting /\ NobodyIngests /\ NobodyRuns
      BY <1>1, <2>1 DEF SerialRuns, RunBegins
    <2>4. run'[n].subtasks = {}
      BY <1>1, <2>1 DEF SkipInv, InTurn
    <2>5. \A m \in Run : Busy(m)' => m = n
      BY <2>1, <2>3 DEF NobodyRuns, Busy, RunActive
    <2>6. /\ NobodyServed' /\ ~Deleting' /\ NobodyIngests'
          /\ \A r \in Request : Serving(r)' <=> Serving(r)
          /\ \A t \in Task : Active(t)' <=> Active(t)
      BY <1>1, <2>3 DEF NobodyServed, Serving, Deleting, NobodyIngests, Active
    <2>7. PagesBorn'
      BY <1>1 DEF SkipInv, InTurn, PagesBorn, Born
    <2>8. \A m \in Run : /\ run'[m].pc \in {"idle", "queued"} => run'[m].subtasks = {}
                         /\ run'[m].pc = "purgeRows" => run'[m].found \in run'[m].purge
      BY <2>1 DEF SkipInv, InTurn
    <2>9. InTurn'
      BY <1>1, <1>2, <2>2, <2>4, <2>5, <2>6, <2>7, <2>8 DEF SkipInv, InTurn
    <2>10. ASSUME NEW d \in Doc, del.pc = "idle", Kept(d)' PROVE Skippable(d)'
      <3>1. Kept(d) /\ Skippable(d)
        BY <1>1, <2>10 DEF Kept, Live, Purged, SkipInv
      <3>2. Touched(d) => Touched(d)'
        BY <1>1, <2>1 DEF Touched
      <3>3. TrulyIndexed(d)' /\ Ingested(d)'
        BY <1>1, <3>1, <3>2, IngestedFrame DEF Skippable
      <3>4. \A m \in Run : Busy(m)' => Awaits(m, d)'
        BY <2>1, <2>4, <2>5 DEF Awaits
      <3>. QED  BY <3>3, <3>4 DEF Skippable
    <2>. QED  BY <1>1, <2>9, <2>10 DEF SkipInv
  <1>3. CASE ~job.live
    <2>1. RunGoto(n, "done") /\ job' = job
      BY <1>3 DEF RunStart
    <2>2. /\ run'[n].pc = "done" /\ \A m \in Run : m # n => run'[m] = run[m]
      BY <1>0, <2>1, RunGotoKeeps DEF RunPc
    <2>3. \A m \in Run : /\ Busy(m)' => Busy(m)
                         /\ Busy(m) => run'[m] = run[m]
                         /\ run'[m].pc \in {"idle", "queued"} => run'[m].subtasks = {}
      BY <1>1, <2>2 DEF Busy, RunActive, SkipInv, InTurn
    <2>4. \A d \in Doc : Touched(d) => Touched(d)'
      BY <1>1, <2>2 DEF Touched
    <2>5. Deleting' <=> Deleting
      BY <1>1 DEF Deleting
    <2>6. del.pc = "done" \/ del'.pc # "done"
      BY <1>1
    <2>. QED  BY <1>1, <2>1, <2>3, <2>4, <2>5, <2>6, BesideSkip
  <1>. QED  BY <1>2, <1>3

\* The listing, the fetch of an object, the list of what to purge, the end
\* of the run, and the errors that stop it.
LEMMA MovesSkip ==
    ASSUME SyncTypeInv, SkipInv, NEW n \in Run,
           \/ \E p \in Page : Fetch(n, p) \/ FetchSwallowed(n, p)
           \/ FetchRaises(n) \/ PurgeList(n) \/ Complete(n)
           \/ FanOutFails(n) \/ RunDies(n)
    PROVE  SkipInv'
  <1>0. /\ run \in [Run -> Execution]
        /\ job \in [live : BOOLEAN, status : JobStatus, acl : Acl]
    BY DEF SyncTypeInv, SyncTypeOK
  <1>1. Busy(n) /\ UNCHANGED <<doc, chunks, qdrant, staged, task, req, page, del>>
    BY DEF Fetch, FetchSwallowed, FetchRaises, PurgeList, Complete, FanOutFails,
           RunDies, Busy, RunActive, vars
  <1>2. job.live
    BY <1>1 DEF SkipInv, InTurn
  <1>3. job'.live = job.live /\ job'.acl = job.acl
    BY <1>0, <1>2
       DEF Fetch, FetchSwallowed, FetchRaises, PurgeList, Complete, FanOutFails,
           RunDies, SetJob
  <1>4. ASSUME run[n].pc = "fetch", run'[n].pc \in {"fetch", "record", "purge"},
               run'[n].subtasks = run[n].subtasks,
               \A m \in Run : m # n => run'[m] = run[m]
        PROVE  SkipInv'
    <2>1. \A d \in Doc : Touched(d) => Touched(d)'
      BY <1>4 DEF Touched
    <2>. QED  BY <1>1, <1>3, <1>4, <2>1, RunMovesSkip DEF Runs
  <1>5. ASSUME NEW p \in Page, Fetch(n, p) PROVE SkipInv'
    <2>1. PICK d \in Lookup(p) :
             run' = [run EXCEPT
                   ![n].pc = IF Unchanged(d, p) THEN "fetch" ELSE "record",
                   ![n].todo = run[n].todo \ {p},
                   ![n].active = run[n].active \cup IF StableIds THEN {p} ELSE {},
                   ![n].page = p, ![n].content = source[p], ![n].found = d]
      BY <1>5 DEF Fetch
    <2>2. /\ run'[n].pc \in {"fetch", "record"}
          /\ run'[n].subtasks = run[n].subtasks
          /\ \A m \in Run : m # n => run'[m] = run[m]
      BY <1>0, <2>1 DEF Execution
    <2>3. run[n].pc = "fetch"
      BY <1>5 DEF Fetch
    <2>. QED  BY <1>4, <2>2, <2>3
  <1>6. CASE \E p \in Page : FetchSwallowed(n, p)
    <2>1. /\ run[n].pc = "fetch" /\ run'[n].pc = "fetch"
          /\ run'[n].subtasks = run[n].subtasks
          /\ \A m \in Run : m # n => run'[m] = run[m]
      BY <1>0, <1>6 DEF FetchSwallowed, Execution
    <2>. QED  BY <1>4, <2>1
  <1>7. CASE PurgeList(n)
    <2>1. /\ run[n].pc = "fetch" /\ run'[n].pc = "purge"
          /\ run'[n].subtasks = run[n].subtasks
          /\ \A m \in Run : m # n => run'[m] = run[m]
      BY <1>0, <1>7 DEF PurgeList, Execution
    <2>. QED  BY <1>4, <2>1
  <1>8. CASE FetchRaises(n) \/ FanOutFails(n) \/ Complete(n)
    <2>1. /\ run[n].pc \in {"fetch", "fanout"}
          /\ \E pc \in {"failed", "done"} :
                RunGoto(n, pc) /\ (run[n].pc = "fetch" => pc = "failed")
      BY <1>2, <1>8 DEF FetchRaises, FanOutFails, Complete
    <2>2. /\ run'[n].pc \in {"failed", "done"}
          /\ run'[n].subtasks = run[n].subtasks
          /\ \A m \in Run : m # n => run'[m] = run[m]
      BY <1>0, <2>1, RunGotoKeeps DEF RunPc
    <2>3. \A d \in Doc : Touched(d) => Touched(d)'
      BY <2>1, <2>2 DEF Touched
    <2>. QED  BY <1>1, <1>3, <2>1, <2>2, <2>3, RunMovesSkip DEF Runs
  <1>9. CASE RunDies(n)
    <2>1. /\ run'[n].pc = "lost"
          /\ run'[n].subtasks = run[n].subtasks
          /\ run'[n].purge = run[n].purge /\ run'[n].marked = run[n].marked
          /\ \A m \in Run : m # n => run'[m] = run[m]
      BY <1>0, <1>9, RunGotoKeeps DEF RunDies, RunPc
    <2>2. run[n].pc = "purgeRows" => run[n].found \in run[n].purge
      BY DEF SkipInv, InTurn
    <2>3. \A d \in Doc : Touched(d) => Touched(d)'
      BY <1>1, <2>1, <2>2 DEF Touched, Busy, RunActive
    <2>. QED  BY <1>1, <1>3, <2>1, <2>3, RunMovesSkip DEF Runs
  <1>. QED  BY <1>5, <1>6, <1>7, <1>8, <1>9

\* A row is recorded as PENDING, with the hash that is going to be staged.
LEMMA RecordSkip ==
    ASSUME SyncTypeInv, SkipInv, NEW n \in Run,
           RecordExisting(n) \/ \E d \in Doc : RecordNew(n, d)
    PROVE  SkipInv'
  <1>0. /\ run \in [Run -> Execution] /\ doc \in [Doc -> DocRow]
        /\ page \in [Doc -> Page \cup {None}]
        /\ run[n].pc = "record" => run[n].page \in Page
    BY DEF SyncTypeInv, SyncTypeOK, TypeInv, TypeOK, RunCarries
  <1>1. /\ run[n].pc = "record" /\ Busy(n)
        /\ UNCHANGED <<chunks, qdrant, staged, task, req, job, del>>
    BY DEF RecordExisting, RecordNew, Busy, RunActive
  <1>2. job.live /\ NobodyIngests
    BY <1>1 DEF SkipInv, InTurn
  <1>3. CASE RecordExisting(n) /\ ~Live(run[n].found)
    <2>1. RunGoto(n, "lost") /\ UNCHANGED <<doc, page>>
      BY <1>3 DEF RecordExisting, Escapes
    <2>2. /\ run'[n].pc = "lost"
          /\ run'[n].subtasks = run[n].subtasks
          /\ \A m \in Run : m # n => run'[m] = run[m]
      BY <1>0, <2>1, RunGotoKeeps DEF RunPc
    <2>3. \A d \in Doc : Touched(d) => Touched(d)'
      BY <1>1, <2>2 DEF Touched
    <2>. QED  BY <1>1, <2>1, <2>2, <2>3, RunMovesSkip DEF Runs
  <1>4. ASSUME NEW f \in Doc,
               run'[n].pc = "stage", run'[n].found = f,
               run'[n].content = run[n].content,
               run'[n].subtasks = run[n].subtasks,
               \A m \in Run : m # n => run'[m] = run[m],
               doc'[f].state = "live", doc'[f].status = "PENDING",
               doc'[f].hash = run[n].content,
               \A e \in Doc : e # f => doc'[e] = doc[e] /\ page'[e] = page[e],
               Live(f) => page'[f] = page[f]
        PROVE  SkipInv'
    <2>1. Runs(n)
      BY <1>1, <1>4 DEF Runs
    <2>2. PagesBorn'
      BY <1>4 DEF SkipInv, InTurn, PagesBorn, Born
    <2>3. NobodyIngests' /\ \A t \in Task : ~Active(t) /\ ~Active(t)'
      BY <1>1, <1>2 DEF NobodyIngests, Active
    <2>4. \A s \in run'[n].subtasks : s.acl = job.acl
      BY <1>1, <1>4 DEF SkipInv, InTurn
    <2>5. InTurn'
      BY <1>4, <2>1, <2>2, <2>3, <2>4, RunInTurn DEF SkipInv
    <2>6. \A d \in Doc : Touched(d) => Touched(d)'
      BY <1>1, <1>4 DEF Touched
    <2>7. ASSUME NEW d \in Doc, del.pc = "idle", Kept(d)' PROVE Skippable(d)'
      <3>1. CASE d = f
        <4>1. TrulyIndexed(d)' /\ Ingested(d)'
          BY <1>4, <2>3, <3>1 DEF TrulyIndexed, Ingested
        <4>2. ASSUME NEW m \in Run, Busy(m)' PROVE Awaits(m, d)'
          <5>1. m = n
            BY <1>1, <1>4, <4>2 DEF SkipInv, InTurn, Busy, RunActive
          <5>. QED  BY <1>4, <2>3, <3>1, <5>1 DEF Awaits
        <4>. QED  BY <4>1, <4>2 DEF Skippable
      <3>2. CASE d # f
        <4>1. Kept(d)
          BY <1>1, <1>4, <2>7, <3>2 DEF Kept, Live, Purged
        <4>2. Skippable(d)
          BY <2>7, <4>1 DEF SkipInv
        <4>3. Awaits(n, d)'
          BY <1>1, <1>4, <2>3, <3>2, <4>2 DEF Skippable, Awaits
        <4>. QED
          BY <1>1, <1>4, <2>1, <2>6, <3>2, <4>2, <4>3, RunSkippable DEF SkipInv
      <3>. QED  BY <3>1, <3>2
    <2>. QED  BY <1>1, <2>5, <2>7 DEF SkipInv
  <1>5. CASE RecordExisting(n) /\ Live(run[n].found)
    <2>1. PICK f \in Doc : f = run[n].found
      BY <1>0, <1>5 DEF RecordExisting, Execution
    <2>2. /\ page' = page /\ RunGoto(n, "stage")
          /\ doc' = [doc EXCEPT ![f].hash = run[n].content, ![f].status = "PENDING"]
      BY <1>5, <2>1 DEF RecordExisting
    <2>3. /\ run'[n].pc = "stage" /\ run'[n].found = f
          /\ run'[n].content = run[n].content
          /\ run'[n].subtasks = run[n].subtasks
          /\ \A m \in Run : m # n => run'[m] = run[m]
      BY <1>0, <2>1, <2>2 DEF RunGoto, Execution
    <2>4. /\ doc'[f].state = doc[f].state /\ doc'[f].status = "PENDING"
          /\ doc'[f].hash = run[n].content
          /\ \A e \in Doc : e # f => doc'[e] = doc[e]
      BY <1>0, <2>2 DEF DocRow
    <2>5. doc'[f].state = "live"
      BY <1>5, <2>1, <2>4 DEF Live
    <2>6. \A e \in Doc : page'[e] = page[e]
      BY <2>2
    <2>. QED  BY <1>4, <2>3, <2>4, <2>5, <2>6
  <1>6. ASSUME NEW f \in Doc, RecordNew(n, f) PROVE SkipInv'
    <2>1. /\ doc[f].state = "unborn"
          /\ doc' = [doc EXCEPT ![f] = [state |-> "live", status |-> "PENDING",
                                        acl |-> job.acl, hash |-> run[n].content]]
          /\ page' = [page EXCEPT ![f] = run[n].page]
          /\ run' = [run EXCEPT ![n].pc = "stage", ![n].found = f,
                                ![n].active = run[n].active \cup
                                                IF StableIds THEN {} ELSE {f}]
      BY <1>2, <1>6 DEF RecordNew
    <2>2. /\ run'[n].pc = "stage" /\ run'[n].found = f
          /\ run'[n].content = run[n].content
          /\ run'[n].subtasks = run[n].subtasks
          /\ \A m \in Run : m # n => run'[m] = run[m]
      BY <1>0, <2>1 DEF Execution
    <2>3. /\ doc'[f].state = "live" /\ doc'[f].status = "PENDING"
          /\ doc'[f].hash = run[n].content
          /\ \A e \in Doc : e # f => doc'[e] = doc[e] /\ page'[e] = page[e]
      BY <1>0, <2>1
    <2>. QED  BY <1>4, <2>1, <2>2, <2>3 DEF Live
  <1>. QED
    <2>1. CASE RecordExisting(n)
      BY <1>3, <1>5, <2>1
    <2>. QED  BY <1>6, <2>1

\* The bytes are staged and the subtask remembered.
LEMMA StageSkip ==
    ASSUME SyncTypeInv, SkipInv, NEW n \in Run, Stage(n)
    PROVE  SkipInv'
  <1>0. /\ run \in [Run -> Execution]
        /\ staged \in [Doc -> Content \cup {None}]
        /\ run[n].pc = "stage" => run[n].found \in Doc
    BY DEF SyncTypeInv, SyncTypeOK, TypeInv, TypeOK, RunCarries
  <1>1. /\ run[n].pc = "stage" /\ Busy(n)
        /\ UNCHANGED <<doc, chunks, qdrant, task, req, page, job, del>>
    BY DEF Stage, Busy, RunActive
  <1>2. job.live /\ NobodyIngests
    BY <1>1 DEF SkipInv, InTurn
  <1>3. PICK f \in Doc : f = run[n].found
    BY <1>0, <1>1
  <1>4. /\ staged' = [staged EXCEPT ![f] = run[n].content]
        /\ run' = [run EXCEPT ![n].pc = "fetch",
                              ![n].subtasks = run[n].subtasks \cup
                                                {[doc |-> f, acl |-> job.acl]}]
    BY <1>2, <1>3 DEF Stage
  <1>5. /\ run'[n].pc = "fetch"
        /\ run'[n].subtasks = run[n].subtasks \cup {[doc |-> f, acl |-> job.acl]}
        /\ \A m \in Run : m # n => run'[m] = run[m]
    BY <1>0, <1>4 DEF Execution
  <1>6. Runs(n)
    BY <1>1, <1>5 DEF Runs
  <1>7. PagesBorn'
    BY <1>1 DEF SkipInv, InTurn, PagesBorn, Born
  <1>8. NobodyIngests' /\ \A t \in Task : ~Active(t) /\ ~Active(t)'
    BY <1>1, <1>2 DEF NobodyIngests, Active
  <1>9. \A s \in run'[n].subtasks : s.acl = job.acl
    BY <1>1, <1>5 DEF SkipInv, InTurn
  <1>10. InTurn'
    BY <1>5, <1>6, <1>7, <1>8, <1>9, RunInTurn DEF SkipInv
  <1>11. \A d \in Doc : Touched(d) => Touched(d)'
    BY <1>1, <1>5 DEF Touched
  <1>12. ASSUME NEW d \in Doc, del.pc = "idle", Kept(d)' PROVE Skippable(d)'
    <2>1. Kept(d)
      BY <1>1, <1>12 DEF Kept, Live, Purged
    <2>2. Skippable(d) /\ Awaits(n, d)
      BY <1>1, <1>12, <2>1 DEF SkipInv, Skippable
    <2>3. CASE d = f
      <3>1. staged'[d] = doc'[d].hash /\ doc'[d].status # "INDEXED"
        BY <1>0, <1>1, <1>3, <1>4, <2>2, <2>3 DEF Awaits
      <3>2. TrulyIndexed(d)' /\ Ingested(d)'
        BY <1>8, <3>1 DEF TrulyIndexed, Ingested
      <3>3. Awaits(n, d)'
        BY <1>5, <1>8, <3>1 DEF Awaits
      <3>4. \A m \in Run : Busy(m)' => m = n
        BY <1>1, <1>5 DEF SkipInv, InTurn, Busy, RunActive
      <3>. QED  BY <3>2, <3>3, <3>4 DEF Skippable
    <2>4. CASE d # f
      <3>1. staged'[d] = staged[d]
        BY <1>4, <2>4, <1>0
      <3>2. Awaits(n, d)'
        BY <1>1, <1>3, <1>5, <1>8, <2>2, <2>4, <3>1 DEF Awaits
      <3>. QED  BY <1>1, <1>6, <1>11, <2>2, <3>1, <3>2, RunSkippable DEF SkipInv
    <2>. QED  BY <2>3, <2>4
  <1>. QED  BY <1>1, <1>10, <1>12 DEF SkipInv

\* A step of the purge, or the end of a failed run: the marked documents may
\* be deleted, and what it empties of another it is known to purge.
LEMMA PurgeSkip ==
    ASSUME SkipInv, NEW n \in Run, Runs(n), UNCHANGED <<staged, task, page>>,
           run[n].pc \in {"purge", "purgeRows", "failed"},
           run'[n].pc \in {"purge", "purgeRows", "fanout", "failed", "done"},
           run'[n].pc = "purgeRows" => run'[n].found \in run'[n].purge,
           run[n].pc = "failed" => run'[n].pc = "done",
           run'[n].subtasks = run[n].subtasks,
           \A d \in Doc :
              /\ Born(d) => Born(d)'
              /\ Live(d)' =>
                    /\ Live(d)
                    /\ doc'[d].status = doc[d].status /\ doc'[d].hash = doc[d].hash
                    /\ Touched(d) => Touched(d)'
                    /\ \/ chunks'[d] = chunks[d] /\ qdrant'[d] = qdrant[d]
                       \/ NobodyIngests /\ Touched(d)'
    PROVE  SkipInv'
  <1>1. PagesBorn'
    BY DEF SkipInv, InTurn, PagesBorn
  <1>2. NobodyIngests' <=> NobodyIngests
    BY DEF NobodyIngests, Active
  <1>3. /\ \A s \in run'[n].subtasks : s.acl = job.acl
        /\ Busy(n)' /\ run'[n].pc \notin {"fanout", "failed"} => NobodyIngests'
    BY <1>2 DEF SkipInv, InTurn, Runs, Busy, RunActive
  <1>4. InTurn'
    BY <1>1, <1>3, RunInTurn DEF SkipInv, InTurn, Active
  <1>5. ASSUME NEW d \in Doc, del.pc = "idle", Kept(d)' PROVE Skippable(d)'
    <2>1. Kept(d) /\ Skippable(d)
      BY <1>5 DEF Kept, Purged, Runs, SkipInv
    <2>. QED  BY <1>5, <2>1, RunSkippable DEF SkipInv, Kept
  <1>. QED  BY <1>4, <1>5 DEF SkipInv, Runs

\* What a commit of the purge does to a document that stays.
Spared(d, S, C) ==
    /\ Born(d) => Born(d)'
    /\ Live(d)' =>
          /\ Live(d) /\ d \notin S
          /\ doc'[d].status = doc[d].status /\ doc'[d].hash = doc[d].hash
          /\ d \notin C => chunks'[d] = chunks[d]

\* Every commit of the purge does so.
LEMMA CommitSpares ==
    ASSUME TypeInv, NEW S \in SUBSET Doc, NEW C \in SUBSET Doc, Commit(S, C),
           NEW d \in Doc
    PROVE  Spared(d, S, C)
  <1>1. doc[d] \in DocRow
    BY DEF TypeInv, TypeOK
  <1>2. doc'[d] = IF d \in S /\ Live(d) THEN [doc[d] EXCEPT !.state = "gone"]
                                       ELSE doc[d]
    BY DEF Commit
  <1>3. d \notin S \cup C => chunks'[d] = chunks[d]
    BY DEF Commit
  <1>4. CASE d \in S /\ Live(d)
    <2>1. doc'[d].state = "gone"
      BY <1>1, <1>2, <1>4 DEF DocRow
    <2>. QED  BY <2>1 DEF Spared, Born, Live
  <1>5. CASE ~(d \in S /\ Live(d))
    <2>1. doc'[d] = doc[d]
      BY <1>2, <1>5
    <2>. QED  BY <1>3, <1>5, <2>1 DEF Spared, Born, Live
  <1>. QED  BY <1>4, <1>5

\* Every step of the purge, and the end of a failed run.
LEMMA PurgingSkip ==
    ASSUME SyncTypeInv, SkipInv, NEW n \in Run,
           \/ \E d \in Doc : PurgePoints(n, d)
           \/ PurgeRows(n) \/ PurgeEnd(n) \/ MarkJobFailed(n)
    PROVE  SkipInv'
  <1>0. /\ run \in [Run -> Execution] /\ TypeInv
        /\ job \in [live : BOOLEAN, status : JobStatus, acl : Acl]
        /\ qdrant \in [Doc -> SUBSET Batch]
        /\ run[n].pc = "purgeRows" => run[n].found \in Doc
        /\ run[n].marked \in SUBSET Doc
    BY DEF SyncTypeInv, SyncTypeOK, TypeInv, TypeOK, RunCarries, Execution
  <1>1. /\ run[n].pc \in {"purge", "purgeRows", "failed"} /\ Busy(n)
        /\ UNCHANGED <<staged, task, req, page, del>>
    BY DEF PurgePoints, PurgeRows, PurgeEnd, MarkJobFailed, Busy, RunActive
  <1>2. /\ job.live
        /\ run[n].pc # "failed" => NobodyIngests
        /\ \A m \in Run : Busy(m) => m = n
    BY <1>1 DEF SkipInv, InTurn
  <1>3. job'.live = job.live /\ job'.acl = job.acl
    BY <1>0, <1>2 DEF PurgePoints, PurgeRows, PurgeEnd, MarkJobFailed, SetJob
  <1>4. ASSUME NEW f \in Doc, PurgePoints(n, f) PROVE SkipInv'
    <2>1. run[n].pc = "purge" /\ f \in run[n].purge /\ UNCHANGED <<doc, chunks>>
      BY <1>4 DEF PurgePoints
    <2>2. \A d \in Doc : (Born(d) => Born(d)') /\ (Live(d)' <=> Live(d))
      BY <2>1 DEF Born, Live
    <2>3. CASE run' = [run EXCEPT ![n].pc = "purgeRows", ![n].found = f]
      <3>1. /\ run'[n].pc = "purgeRows" /\ run'[n].found = f
            /\ run'[n].subtasks = run[n].subtasks
            /\ run'[n].purge = run[n].purge /\ run'[n].marked = run[n].marked
            /\ \A m \in Run : m # n => run'[m] = run[m]
        BY <1>0, <2>3 DEF Execution
      <3>2. \A d \in Doc : /\ Touched(d) => Touched(d)'
                           /\ d = f => Touched(d)'
        BY <2>1, <3>1 DEF Touched
      <3>3. \A d \in Doc : d # f => qdrant'[d] = qdrant[d]
        BY <1>0, <1>4 DEF PurgePoints
      <3>. QED
        BY <1>1, <1>2, <1>3, <2>1, <2>2, <3>1, <3>2, <3>3, PurgeSkip DEF Runs
    <2>4. CASE RunGoto(n, "failed") /\ qdrant' = qdrant
      <3>1. /\ run'[n].pc = "failed"
            /\ run'[n].subtasks = run[n].subtasks /\ run'[n].marked = run[n].marked
            /\ \A m \in Run : m # n => run'[m] = run[m]
        BY <1>0, <2>4, RunGotoKeeps DEF RunPc
      <3>2. \A d \in Doc : Touched(d) => Touched(d)'
        BY <2>1, <3>1 DEF Touched
      <3>. QED
        BY <1>1, <1>3, <2>1, <2>2, <2>4, <3>1, <3>2, PurgeSkip DEF Runs
    <2>. QED  BY <1>4, <2>3, <2>4 DEF PurgePoints
  <1>5. CASE PurgeRows(n)
    <2>1. /\ run[n].pc = "purgeRows" /\ qdrant' = qdrant
          /\ Commit(run[n].marked, {run[n].found})
      BY <1>5 DEF PurgeRows
    <2>2. /\ run'[n].pc = "purge" /\ run'[n].subtasks = run[n].subtasks
          /\ run'[n].marked = {run[n].found}
          /\ \A m \in Run : m # n => run'[m] = run[m]
      BY <1>0, <1>5 DEF PurgeRows, Execution
    <2>3. \A d \in Doc : d = run[n].found => Touched(d)'
      BY <2>2 DEF Touched
    <2>4. \A d \in Doc : d \notin run[n].marked => (Touched(d) => Touched(d)')
      BY <2>1, <2>2, <2>3 DEF Touched
    <2>5. \A d \in Doc : Spared(d, run[n].marked, {run[n].found})
      <3>1. {run[n].found} \in SUBSET Doc
        BY <1>0, <2>1
      <3>. QED  BY <1>0, <2>1, <3>1, CommitSpares
    <2>. QED
      BY <1>1, <1>2, <1>3, <2>1, <2>2, <2>3, <2>4, <2>5, PurgeSkip DEF Runs, Spared
  <1>6. CASE PurgeEnd(n) \/ MarkJobFailed(n)
    <2>1. /\ run[n].pc \in {"purge", "failed"} /\ qdrant' = qdrant
          /\ Commit(run[n].marked, {})
      BY <1>2, <1>6 DEF PurgeEnd, MarkJobFailed
    <2>2. /\ run'[n].pc \in {"fanout", "done"}
          /\ run[n].pc = "failed" => run'[n].pc = "done"
          /\ run'[n].subtasks = run[n].subtasks
          /\ \A m \in Run : m # n => run'[m] = run[m]
      <3>1. CASE PurgeEnd(n)
        BY <1>0, <3>1 DEF PurgeEnd, Execution
      <3>2. CASE MarkJobFailed(n)
        <4>1. run[n].pc = "failed" /\ RunGoto(n, "done")
          BY <1>2, <3>2 DEF MarkJobFailed
        <4>. QED  BY <1>0, <4>1, RunGotoKeeps DEF RunPc
      <3>. QED  BY <1>6, <3>1, <3>2
    <2>3. \A d \in Doc : d \notin run[n].marked => (Touched(d) => Touched(d)')
      BY <2>1, <2>2 DEF Touched
    <2>4. \A d \in Doc : Spared(d, run[n].marked, {})
      BY <1>0, <2>1, CommitSpares
    <2>. QED
      BY <1>1, <1>3, <2>1, <2>2, <2>3, <2>4, PurgeSkip DEF Runs, Spared
  <1>. QED  BY <1>4, <1>5, <1>6

\* A subtask is sent: an ingestion of staged content that is not yet INDEXED.
LEMMA FanOutSkip ==
    ASSUME SyncTypeInv, SkipInv, NEW n \in Run,
           NEW t \in Task, NEW s \in run[n].subtasks, FanOut(n, t, s)
    PROVE  SkipInv'
  <1>0. run \in [Run -> Execution] /\ task \in [Task -> TaskRun]
    BY DEF SyncTypeInv, SyncTypeOK, TypeInv, TypeOK
  <1>1. /\ run[n].pc = "fanout" /\ Busy(n)
        /\ UNCHANGED <<doc, chunks, qdrant, staged, req, page, job, del>>
    BY DEF FanOut, Busy, RunActive
  <1>2. /\ Dispatch(t, s.doc, s.acl, None, FALSE)
        /\ run' = [run EXCEPT ![n].subtasks = run[n].subtasks \ {s}]
    BY DEF FanOut
  <1>3. /\ run'[n].pc = "fanout" /\ run'[n].subtasks = run[n].subtasks \ {s}
        /\ run'[n].marked = run[n].marked
        /\ \A m \in Run : m # n => run'[m] = run[m]
    BY <1>0, <1>1, <1>2 DEF Execution
  <1>4. /\ ~Active(t)
        /\ task'[t].pc = "queued" /\ task'[t].doc = s.doc /\ ~task'[t].inline
        /\ \A u \in Task : u # t => task'[u] = task[u]
    BY <1>0, <1>2 DEF Dispatch, Active
  <1>5. \A u \in run[n].subtasks : u \in Subtask /\ u.acl = job.acl
    BY <1>0, <1>1 DEF Execution, SkipInv, InTurn
  <1>6. \A u \in run'[n].subtasks : u.doc # s.doc
    BY <1>3, <1>5 DEF Subtask
  <1>7. Runs(n)
    BY <1>1, <1>3 DEF Runs
  <1>8. PagesBorn'
    BY <1>1 DEF SkipInv, InTurn, PagesBorn, Born
  <1>9. \A u \in Task : Active(u)' /\ page'[task'[u].doc] # None => ~task'[u].inline
    BY <1>1, <1>4 DEF SkipInv, InTurn, Active
  <1>10. InTurn'
    BY <1>3, <1>5, <1>7, <1>8, <1>9, RunInTurn DEF SkipInv
  <1>11. \A d \in Doc : Touched(d) => Touched(d)'
    BY <1>1, <1>3 DEF Touched
  <1>12. ASSUME NEW d \in Doc, del.pc = "idle", Kept(d)' PROVE Skippable(d)'
    <2>1. Kept(d)
      BY <1>1, <1>12 DEF Kept, Live, Purged
    <2>2. Skippable(d) /\ Awaits(n, d)
      BY <1>1, <1>12, <2>1 DEF SkipInv, Skippable
    <2>3. \A m \in Run : Busy(m)' => m = n
      BY <1>1, <1>3 DEF SkipInv, InTurn, Busy, RunActive
    <2>4. CASE d = s.doc
      <3>1. /\ doc[d].status # "INDEXED" /\ staged[d] = doc[d].hash
            /\ \A u \in Task : Active(u) => task[u].doc # d
        BY <1>1, <2>2, <2>4 DEF Awaits
      <3>2. TrulyIndexed(d)'
        BY <1>1, <3>1 DEF TrulyIndexed
      <3>3. \A u \in Task : task'[u].doc = d /\ Active(u)' => u = t
        BY <1>4, <3>1 DEF Active
      <3>4. Works(t, d)'
        BY <1>1, <1>4, <3>1 DEF Works
      <3>5. Ingested(d)'
        BY <3>3, <3>4 DEF Ingested
      <3>6. Awaits(n, d)'
        BY <1>3, <1>6, <2>4 DEF Awaits
      <3>. QED  BY <2>3, <3>2, <3>5, <3>6 DEF Skippable
    <2>5. CASE d # s.doc
      <3>1. TrulyIndexed(d)' /\ Ingested(d)'
        <4>1. \A u \in Task : \/ task[u].doc = d /\ Active(u)
                              \/ task'[u].doc = d /\ Active(u)'
                              => task'[u] = task[u]
          BY <1>4, <2>5
        <4>. QED  BY <1>1, <1>11, <2>2, <4>1, IngestedFrame DEF Skippable
      <3>2. Awaits(n, d)'
        BY <1>1, <1>3, <1>4, <2>2, <2>5 DEF Awaits, Active
      <3>. QED  BY <2>3, <3>1, <3>2 DEF Skippable
    <2>. QED  BY <2>4, <2>5
  <1>. QED  BY <1>1, <1>10, <1>12 DEF SkipInv

-----------------------------------------------------------------------------
(* Skipping is sound.                                                      *)

\* Nothing exists at the beginning.
LEMMA InitSkip == SyncInit => SkipInv
  <1>. SUFFICES ASSUME SyncInit PROVE SkipInv
    OBVIOUS
  <1>1. /\ \A d \in Doc : page[d] = None
        /\ \A n \in Run : run[n].pc = "idle" /\ run[n].subtasks = {}
        /\ del.pc = "idle"
        /\ \A r \in Request : req[r].pc = "idle" /\ req[r].op = "upload"
        /\ \A t \in Task : task[t].pc = "idle"
    BY DEF SyncInit, Init
  <1>2. \A n \in Run : ~Busy(n)
    BY <1>1 DEF Busy, RunActive
  <1>3. InTurn
    BY <1>1, <1>2 DEF InTurn, Serving, Active, PagesBorn
  <1>. QED  BY <1>1, <1>3 DEF SkipInv, Kept

\* Every step under serial runs keeps the invariant.
LEMMA NextSkip ==
    ASSUME SyncTypeInv, SkipInv, [SyncNext /\ SerialRuns]_allVars
    PROVE  SkipInv'
  <1>1. CASE UNCHANGED allVars
    <2>1. UNCHANGED <<doc, chunks, qdrant, staged, task, req, page, job, run, del>>
      BY <1>1 DEF allVars, vars, syncVars
    <2>2. /\ Deleting' <=> Deleting
          /\ \A n \in Run : Busy(n)' <=> Busy(n)
          /\ \A d \in Doc : Touched(d)' <=> Touched(d)
      BY <2>1 DEF Deleting, Busy, RunActive, Touched
    <2>3. \A n \in Run : run'[n].pc \in {"idle", "queued"} => run'[n].subtasks = {}
      BY <2>1 DEF SkipInv, InTurn
    <2>. QED  BY <2>1, <2>2, <2>3, BesideSkip
  <1>2. CASE SerialRuns /\ Step /\ UNCHANGED syncVars
    <2>1. CASE Error
      BY <1>2, <2>1, WorkerSkip, HandlerSkip DEF Error
    <2>. QED
      BY <1>2, <2>1, ArriveSkip, HandlerSkip, WorkerSkip DEF Step
  <1>3. ASSUME SerialRuns, NEW n \in Run, RunStep(n) PROVE SkipInv'
    BY <1>3, StartSkip, MovesSkip, RecordSkip, StageSkip, PurgingSkip, FanOutSkip
       DEF RunStep
  <1>4. CASE SerialRuns /\ RunError
    BY <1>4, MovesSkip, DeletionSkip DEF RunError
  <1>. QED
    BY <1>1, <1>2, <1>3, <1>4, SendSkip, DeletionSkip DEF SyncNext, SyncAtRest

\* Skipping is sound, whatever fails and however often: a document the next
\* run would take as unchanged has the rows and the points of that content,
\* if runs do not overlap and requests begin when nobody ingests
\* (ingestion_tasks.py: "If unchanged, skip to save embedding computation").
THEOREM SkipIsSoundSerially ==
    SyncInit /\ [][SyncNext /\ SerialRuns]_allVars => []SkipIsSound
  <1>1. SyncInit => SyncTypeInv /\ SkipInv
    BY SyncInitType, InitSkip
  <1>2. SyncTypeInv /\ SkipInv /\ [SyncNext /\ SerialRuns]_allVars
            => (SyncTypeInv /\ SkipInv)'
    BY SyncNextType, NextSkip
  <1>3. SyncTypeInv /\ SkipInv => SkipIsSound
    <2>. SUFFICES ASSUME SyncTypeInv, SkipInv, SyncQuiet, del.pc # "dead",
                         NEW d \in JobDocs, doc[d].status = "INDEXED",
                         ~Purged(d), ~HalfPurged(d)
                  PROVE  Stored(d)
      BY DEF SkipIsSound, Stored
    <2>1. d \in Doc /\ job.live /\ Kept(d)
      BY DEF JobDocs, Kept
    <2>2. del.pc = "idle"
      BY <2>1 DEF SyncTypeInv, SyncTypeOK, JobDeletion, SyncQuiet, Deleting,
                  SkipInv, InTurn
    <2>3. ~Touched(d)
      BY DEF Touched, HalfPurged, SyncQuiet, RunActive
    <2>. QED  BY <2>1, <2>2, <2>3 DEF SkipInv, Skippable, TrulyIndexed
  <1>. QED  BY <1>1, <1>2, <1>3, PTL
=============================================================================
