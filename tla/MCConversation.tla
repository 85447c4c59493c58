--------------------------- MODULE MCConversation ---------------------------
(***************************************************************************)
(* Conversation with two history variables, and the properties that need   *)
(* to know how the present state was reached.                              *)
(***************************************************************************)
EXTENDS Conversation, TLC

VARIABLES
    calm,       \* so far no two turns overlapped, nothing failed or was deleted
    solo        \* the turn that has run alone and undisturbed since it arrived

hvars == <<vars, calm, solo>>

Symmetry == Permutations(Proc) \cup Permutations(Turn)

Current == {t \in Turn : Running(t)}

\* What the histories make of a step.
Observe ==
    LET disturbed == faults' # faults \/ deletions' # deletions
        alone(t) == Current' = {t} /\ (solo = t \/ Current = {})
    IN
    /\ calm' = (calm /\ ~disturbed /\ Cardinality(Current') <= 1)
    /\ solo' = IF ~disturbed /\ \E t \in Turn : alone(t)
               THEN CHOOSE t \in Turn : alone(t) ELSE None

MCInit == Init /\ calm = TRUE /\ solo = None
MCNext == Next /\ Observe
MCSpec == MCInit /\ [][MCNext]_hvars

-----------------------------------------------------------------------------
(* Properties.                                                             *)

\* When turns follow one another and nothing fails, the working memory a turn
\* answers with was updated by every earlier turn, whichever process serves
\* it and whether or not the Redis key has expired (get_memory).
RemembersEveryTurn ==
    calm => \A t \in Turn : turn[t].pc = "answer" =>
                {u \in Turn : turn[u].pc = "done"} \subseteq heap[turn[t].obj]

\* In that setting the tiers agree between turns: Redis holds nothing or
\* what the row holds, which includes every turn that was answered
\* (save_memory writes both, also when the client has gone).
TiersAgree ==
    calm /\ Current = {} =>
        /\ redis \in {None, session.memory}
        /\ answered # {} => Stored /\ answered \subseteq session.memory

\* Whatever overlaps, failures and deletions came before, one turn that runs
\* undisturbed from its arrival to its reply, in a process that has Redis,
\* brings the three tiers back into agreement, on a memory with that turn.
CleanTurnHeals ==
    [][ LET p == turn[solo].proc IN
        solo # None /\ turn[solo].pc = "reply" /\ turn'[solo].pc = "done"
                    /\ client[p] = "redis"
            => /\ redis' \in {None, session'.memory}
               /\ heap'[cache'[p]] = session'.memory
               /\ solo \in session'.memory ]_hvars
=============================================================================
