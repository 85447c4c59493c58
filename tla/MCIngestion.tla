----------------------------- MODULE MCIngestion -----------------------------
(* Instances of Ingestion for TLC.                                         *)
EXTENDS Ingestion, TLC

\* Documents, tasks, requests and access levels are interchangeable.
Symmetry ==
    Permutations(Doc) \cup Permutations(Task) \cup Permutations(Request)
        \cup Permutations(Acl)

\* The assumption of the quiet runs: an administrator acts on a document
\* only when no task and no other request is working on it.
QuietRequests ==
    \A r \in Request :
        req[r].pc = "idle" /\ req'[r].pc # "idle" /\ req'[r].op # "upload"
            => Quiet(req'[r].doc)

QuietSpec == Init /\ [][Next /\ QuietRequests]_vars

-----------------------------------------------------------------------------
(* Rows and points as a DocumentIndex.                                     *)

\* A delete or a re-index of d is under way.
BeingPurged(d) ==
    \E r \in Request : /\ req[r].doc = d /\ Serving(r)
                       /\ req[r].op \in {"delete", "reindex"}

Phase(d) ==
    CASE doc[d].state = "unborn" -> "absent"
      [] doc[d].state = "gone" -> "removed"
      [] Live(d) /\ BeingPurged(d) -> "purging"
      [] Live(d) /\ ~BeingPurged(d) /\ doc[d].status = "INDEXED" -> "indexed"
      [] Live(d) /\ ~BeingPurged(d) /\ doc[d].status = "FAILED" -> "failed"
      [] Live(d) /\ ~BeingPurged(d) /\ ~Settled(d) -> "pending"

Given(d) == [content |-> doc[d].hash, acl |-> doc[d].acl]

\* A search reads the points: it finds what their payload says.
Hits(d) == {[content |-> b.content, acl |-> b.acl] : b \in qdrant[d]}

Index == INSTANCE DocumentIndex WITH
            phase <- [d \in Doc |-> Phase(d)],
            given <- [d \in Doc |-> Given(d)],
            hits  <- [d \in Doc |-> Hits(d)]

\* While administrators act on quiet documents only and nothing fails, the
\* rows, points and workers behind the document API are such an index: the
\* dual write and its compensation, the four steps of a purge and the three
\* of an update show nothing else to a search (ingest_document,
\* delete_document, update_document, reindex_document).
ImplementsIndex == Index!Spec
=============================================================================
