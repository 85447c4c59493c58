---------------------------- MODULE DocumentIndex ----------------------------
(***************************************************************************)
(* What the document API promises about the search index, whatever stores  *)
(* and workers are behind it: a search finds a document with its own bytes *)
(* and access fields or not at all, finds it from before it is reported    *)
(* INDEXED until a purge begins, and never after it was reported FAILED or *)
(* removed.                                                                *)
(***************************************************************************)
CONSTANTS Doc, Content, Acl, None

VARIABLES
    phase,      \* "absent", "pending", "indexed", "failed", "purging", "removed"
    given,      \* bytes and access fields the document was last given
    hits        \* the versions of the document a search finds

indexVars == <<phase, given, hits>>

Version == [content : Content, acl : Acl]

Init ==
    /\ phase = [d \in Doc |-> "absent"]
    /\ given = [d \in Doc |-> [content |-> None, acl |-> None]]
    /\ hits = [d \in Doc |-> {}]

\* The document changes from phase p to phase q.
Turns(d, p, q) == phase[d] = p /\ phase' = [phase EXCEPT ![d] = q]

\* A search finds nothing but what was given.
Agrees(d) == hits[d] \subseteq {given[d]}

\* POST /documents/upload.
Upload(d) ==
    /\ Turns(d, "absent", "pending") /\ hits[d] = {}
    /\ \E v \in Version : given' = [given EXCEPT ![d] = v]
    /\ UNCHANGED hits

\* The document becomes searchable ...
Publish(d) ==
    /\ phase[d] = "pending" /\ hits[d] = {}
    /\ hits' = [hits EXCEPT ![d] = {given[d]}]
    /\ UNCHANGED <<phase, given>>

\* ... and ceases to be, when its ingestion fails after all or it is purged.
Withdraw(d) ==
    /\ phase[d] \in {"pending", "purging"}
    /\ hits' = [hits EXCEPT ![d] = {}]
    /\ UNCHANGED <<phase, given>>

\* The outcome that GET /documents/{id}/status reports.
Succeed(d) ==
    /\ Turns(d, "pending", "indexed") /\ hits[d] = {given[d]}
    /\ UNCHANGED <<given, hits>>

Fail(d) ==
    /\ Turns(d, "pending", "failed") /\ hits[d] = {}
    /\ UNCHANGED <<given, hits>>

\* PATCH /documents/{id}, on the record first and for searches afterwards.
Reclassify(d) ==
    /\ phase[d] \in {"pending", "indexed", "failed"} /\ Agrees(d)
    /\ \E a \in Acl : given' = [given EXCEPT ![d].acl = a]
    /\ UNCHANGED <<phase, hits>>

Relabel(d) ==
    /\ phase[d] \in {"pending", "indexed", "failed"} /\ hits[d] # {}
    /\ hits' = [hits EXCEPT ![d] = {given[d]}]
    /\ UNCHANGED <<phase, given>>

\* DELETE /documents/{id} and POST /documents/{id}/reindex.
Purge(d) ==
    /\ \E p \in {"pending", "indexed", "failed"} : Turns(d, p, "purging")
    /\ Agrees(d)
    /\ UNCHANGED <<given, hits>>

Remove(d) ==
    /\ Turns(d, "purging", "removed") /\ hits[d] = {}
    /\ UNCHANGED <<given, hits>>

Reindex(d) ==
    /\ Turns(d, "purging", "pending") /\ hits[d] = {}
    /\ UNCHANGED <<given, hits>>

Next ==
    \E d \in Doc :
        \/ Upload(d)     \/ Publish(d) \/ Withdraw(d) \/ Succeed(d) \/ Fail(d)
        \/ Reclassify(d) \/ Relabel(d) \/ Purge(d)    \/ Remove(d)  \/ Reindex(d)

Spec == Init /\ [][Next]_indexVars

\* What a client may rely on: a document reported INDEXED is found, one that was
\* never uploaded, failed or was removed is not, and what is found are the bytes
\* that were uploaded.
Found ==
    \A d \in Doc :
        /\ phase[d] = "indexed" => hits[d] # {}
        /\ phase[d] \in {"absent", "failed", "removed"} => hits[d] = {}
        /\ \A v \in hits[d] : v.content = given[d].content
=============================================================================
