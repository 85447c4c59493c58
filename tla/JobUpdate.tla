----------------------------- MODULE JobUpdate ------------------------------
(***************************************************************************)
(* update_job (app/routes/jobs.py) gives a connector job another access    *)
(* level or department and relabels its documents one by one: the row, the *)
(* points in Qdrant, the chunk rows.  A label is an access level with a    *)
(* department.  No run of the job registers documents meanwhile: a run     *)
(* reads the label itself, as ConnectorSync has it.                        *)
(***************************************************************************)
EXTENDS Naturals

CONSTANTS
    Admin,      \* the administrators: each sends one update at a time
    Doc,        \* the documents of the job
    Label,
    First,      \* the label of the job at the beginning
    Updates     \* bound on the updates

\* Assumed of the constants; an instance states it for the values it gives them.
JobUpdateAssumption == First \in Label /\ Updates \in Nat

VARIABLES
    job,        \* its label
    row, points, chunks,    \* the labels of the documents in the three stores
    update,     \* the request of each administrator
    updates,
    sound       \* the last change of the label ran alone and nothing failed since

jobVars == <<job, row, points, chunks, update, updates, sound>>
labels == <<row, points, chunks>>

Idle == [pc |-> "idle", label |-> First, old |-> First, left |-> {}, at |-> {}]

JobInit ==
    /\ job = First
    /\ row = [d \in Doc |-> First]
    /\ points = [d \in Doc |-> First]
    /\ chunks = [d \in Doc |-> First]
    /\ update = [a \in Admin |-> Idle]
    /\ updates = 0
    /\ sound = TRUE

-----------------------------------------------------------------------------
(* Helpers.                                                                *)

\* Updates that are relabelling.
Relabelling == {a \in Admin : update[a].pc \notin {"idle", "commit"}}

\* acl_or_dept_changed, computed before the commit.
Changed(a) == update[a].label # update[a].old

\* A mutant: only documents that still have the former label are relabelled.
ToRelabel_FormerOnly(a) == {d \in Doc : row[d] = update[a].old}

\* list_job_documents.
ToRelabel(a) == Doc

\* The update goes on with the next document, or ends.
Goto(a, pc) == update' = [update EXCEPT ![a].pc = pc]

DocumentDone(a, d) ==
    LET left == update[a].left \ {d}
    IN update' = [update EXCEPT ![a] =
           IF left = {} THEN Idle ELSE [@ EXCEPT !.pc = "row", !.left = left, !.at = {}]]

-----------------------------------------------------------------------------
(* update_job.                                                             *)

\* The job is looked up.
Begin(a, label) ==
    /\ update[a].pc = "idle" /\ updates < Updates
    /\ updates' = updates + 1
    /\ update' = [update EXCEPT ![a] = [Idle EXCEPT !.pc = "commit", !.label = label, !.old = job]]
    /\ UNCHANGED <<job, labels, sound>>

\* update_ingestion_job: a label equal to the one looked up is not written.
Commit(a) ==
    /\ update[a].pc = "commit"
    /\ IF Changed(a)
       THEN /\ job' = update[a].label
            /\ sound' = (Relabelling = {})
            /\ Goto(a, "list")
       ELSE /\ update' = [update EXCEPT ![a] = Idle]
            /\ UNCHANGED <<job, sound>>
    /\ UNCHANGED <<labels, updates>>

List(a) ==
    /\ update[a].pc = "list"
    /\ update' = [update EXCEPT ![a] =
          IF ToRelabel(a) = {} THEN Idle ELSE [@ EXCEPT !.pc = "row", !.left = ToRelabel(a)]]
    /\ UNCHANGED <<job, labels, updates, sound>>

\* DocumentRepository.update_document_metadata.  The documents come in the
\* order in which they are listed.
RelabelRow(a, d) ==
    /\ update[a].pc = "row" /\ d \in update[a].left
    /\ row' = [row EXCEPT ![d] = update[a].label]
    /\ update' = [update EXCEPT ![a].pc = "points", ![a].at = {d}]
    /\ UNCHANGED <<job, points, chunks, updates, sound>>

\* set_payload_by_filter answers FALSE when Qdrant fails, which nobody reads.
RelabelPoints(a, d) ==
    /\ update[a].pc = "points" /\ update[a].at = {d}
    /\ \/ points' = [points EXCEPT ![d] = update[a].label] /\ UNCHANGED sound
       \/ UNCHANGED points /\ sound' = FALSE
    /\ Goto(a, "chunks")
    /\ UNCHANGED <<job, row, chunks, updates>>

\* The error of the chunk rows is swallowed after a rollback.
RelabelChunks(a, d) ==
    /\ update[a].pc = "chunks" /\ update[a].at = {d}
    /\ \/ chunks' = [chunks EXCEPT ![d] = update[a].label] /\ UNCHANGED sound
       \/ UNCHANGED chunks /\ sound' = FALSE
    /\ DocumentDone(a, d)
    /\ UNCHANGED <<job, row, points, updates>>

\* A commit raises, or the process stops.
Breaks(a) ==
    /\ update[a].pc # "idle"
    /\ update' = [update EXCEPT ![a] = Idle]
    /\ sound' = (sound /\ a \notin Relabelling)
    /\ UNCHANGED <<job, labels, updates>>

JobNext ==
    \E a \in Admin :
        \/ \E label \in Label : Begin(a, label)
        \/ Commit(a) \/ List(a) \/ Breaks(a)
        \/ \E d \in Doc : RelabelRow(a, d) \/ RelabelPoints(a, d) \/ RelabelChunks(a, d)

JobSpec == JobInit /\ [][JobNext]_jobVars

-----------------------------------------------------------------------------
(* Properties.                                                             *)

\* An update that changes the label, runs alone and meets no error leaves
\* every store of every document with the label of the job, whatever earlier
\* updates left half done; an update to the label the job has already repairs
\* nothing (update_job, its cascade).
ChangeHeals ==
    sound /\ Relabelling = {} =>
        \A d \in Doc : row[d] = job /\ points[d] = job /\ chunks[d] = job
=============================================================================
