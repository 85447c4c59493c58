--------------------------- MODULE MCConnectorSync ---------------------------
(* Instances of ConnectorSync for TLC.                                     *)
EXTENDS ConnectorSync, TLC

\* Ids and contents are interchangeable; Page is not when only some pages
\* are editable.
Symmetry ==
    Permutations(Doc) \cup Permutations(Task) \cup Permutations(Run)
        \cup Permutations(Content)

NobodyIngests == \A t \in Task : ~Active(t)
NobodyRuns == \A n \in Run : run[n].pc # "queued" => ~RunActive(n)
NobodyServed == \A r \in Request : ~Serving(r)

RunBegins == \E n \in Run : run[n].pc = "queued" /\ run'[n].pc = "fetch"
RequestBegins ==
    \/ del.pc = "idle" /\ del'.pc # "idle"
    \/ \E r \in Request : req[r].pc = "idle" /\ req'[r].pc # "idle"

\* The assumption of the serial runs: a run, a job deletion, an
\* administrator's request or a change of the source begins only when
\* nothing else is in progress.
Serial ==
    RunBegins \/ RequestBegins \/ source' # source =>
        NobodyIngests /\ NobodyRuns /\ NobodyServed /\ ~Deleting

\* A weaker assumption: requests may overlap each other, and a page may
\* leave the source after a run has listed it.  Between runs the source
\* changes only when another is due: nothing else reads it.
SerialRuns ==
    LET due == \E n \in Run : run[n].pc = "queued"
        listed == \E n \in Run : run[n].pc = "fetch"
        pageLeaves == \A p \in Page : source'[p] \in {source[p], None}
    IN
    /\ RunBegins => NobodyServed /\ ~Deleting
    /\ RunBegins \/ RequestBegins => NobodyIngests /\ NobodyRuns
    /\ source' # source => \/ due /\ NobodyIngests /\ NobodyRuns
                           \/ listed /\ pageLeaves
=============================================================================
