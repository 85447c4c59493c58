------------------------------ MODULE RagGraph ------------------------------
(***************************************************************************)
(* The graph of modules/rag_core/orchestrator/langgraph: the turns of one  *)
(* session through EnterpriseRAGGraphRunner.invoke, the runner in use as   *)
(* long as langgraph is not installed (requirements.txt comments it out).  *)
(* The runner copies the caller's state, so that a turn that raises leaves *)
(* it alone; what the caller hands over to the next turn is its choice.    *)
(***************************************************************************)
EXTENDS Naturals, Sequences, SequencesExt

CONSTANTS
    Turns,      \* the turns are 1..Turns
    Window,     \* messages above which the history is condensed (6)
    Kept,       \* messages that stay when it is (2)
    Attempts    \* syntheses before the refusal (3)

\* Assumed of the constants; an instance states it for the values it gives them.
RagGraphAssumption ==
    /\ Turns \in Nat
    /\ Attempts \in Nat \ {0}
    /\ Kept \in 1..Window /\ Window \in Nat

VARIABLES
    carry,      \* what the caller hands over: "all" or the "conversation"
    blackboard, \* what it holds between two turns
    state,      \* the copy the running turn works on
    node,       \* the next node of the graph, "idle" between turns
    turn,       \* the number of the last turn
    exchanged,  \* the messages of the turns that returned
    lost        \* those dropped while the summarizer failed

ragVars == <<carry, blackboard, state, node, turn, exchanged, lost>>

\* A message, by the text that it repeats or that is new in its turn.
Message == [role : {"user", "assistant"}, text : 1..Turns]

\* Of the working memory only its keys matter: none, those the graph merges
\* into it, or those the janitor replaces it by.
EmptyBoard == [messages |-> <<>>, summary |-> {}, memory |-> "none"]

\* The copy that invoke makes of the caller's state for a question, 0 for none.
Copy(board, question) ==
    [messages |-> board.messages, summary |-> board.summary, memory |-> board.memory,
     question |-> question, route |-> "none", context |-> "empty",
     iteration |-> 0, draft |-> "none", report |-> "none"]

RagInit ==
    /\ carry \in {"all", "conversation"}
    /\ blackboard = EmptyBoard
    /\ state = Copy(EmptyBoard, 0)
    /\ node = "idle"
    /\ turn = 0
    /\ exchanged = {}
    /\ lost = {}

-----------------------------------------------------------------------------
(* Helpers.                                                                *)

Board(s) == [messages |-> s.messages, summary |-> s.summary, memory |-> s.memory]

LastMessage(s) == IF s.messages = <<>> THEN {} ELSE {Last(s.messages)}

\* merge_working_memory: the keys of an update are added; the janitor's
\* replace the rest.
MergeWorkingMemory(current, update) == IF update = "none" THEN current ELSE update

\* A node at which nothing but its own update happens.
Step(from, to, update) ==
    /\ node = from
    /\ node' = to
    /\ state' = update
    /\ UNCHANGED <<carry, blackboard, turn, exchanged, lost>>

-----------------------------------------------------------------------------
(* Mutants.                                                                *)

\* A summary that replaces the former one.
Summarized_Replaces(s, older) == ToSet(older)

\* The answer is given although no attempt was verified.
RefusalDue_Never(s) == FALSE

-----------------------------------------------------------------------------
(* The nodes, in the order in which invoke runs them.                      *)

\* The caller's next question, which may repeat the former one.
Ask ==
    /\ node = "idle" /\ turn < Turns
    /\ turn' = turn + 1
    /\ \E text \in {turn + 1} \cup {m.text : m \in LastMessage(blackboard)} :
          state' = Copy(blackboard, text)
    /\ node' = "resolve"
    /\ UNCHANGED <<carry, blackboard, exchanged, lost>>

\* node_resolve_context: the working memory is a dataclass without
\* model_dump, so that nothing is hydrated from the store.
ResolveContext ==
    Step("resolve", "summarize",
         [state EXCEPT !.memory = MergeWorkingMemory(@, "none"), !.iteration = 0])

Summarized(s, older) == s.summary \cup ToSet(older)

\* node_summarize_history: without the model the older messages go all the same.
SummarizeHistory ==
    /\ node = "summarize"
    /\ node' = "condense"
    /\ LET n == Len(state.messages)
           older == SubSeq(state.messages, 1, n - Kept)
           recent == SubSeq(state.messages, n - Kept + 1, n)
       IN IF n <= Window THEN UNCHANGED <<state, lost>>
          ELSE \/ /\ state' = [state EXCEPT !.summary = Summarized(state, older),
                                            !.messages = recent]
                  /\ UNCHANGED lost
               \/ /\ state' = [state EXCEPT !.messages = recent]
                  /\ lost' = lost \cup ToSet(older)
    /\ UNCHANGED <<carry, blackboard, turn, exchanged>>

\* node_condense_query: SessionWorkingMemory has no field for the janitor's
\* resolution_scope and raises on it (see Raise).
CondenseQuery ==
    /\ state.memory # "janitor"
    /\ Step("condense", "plan", state)

\* node_planner.
Plan ==
    \E route \in {"sql", "document", "identity", "conversational", "system_meta"} :
        Step("plan",
             CASE route = "sql" -> "sql"
               [] route = "document" -> "retrieve"
               [] route \in {"identity", "conversational"} -> "identity"
               [] OTHER -> "synthesize",
             [state EXCEPT !.route = route])

\* node_vector_retriever, which also notes the sources in the memory.
RetrieveVectors ==
    \E found \in {"found", "empty"} :
        Step("retrieve", "synthesize",
             [state EXCEPT !.context = found,
                           !.memory = MergeWorkingMemory(@, "merged")])

\* node_identity_resolver: the caller's own identity is the context.
ResolveIdentity == Step("identity", "synthesize", [state EXCEPT !.context = "found"])

\* node_synthesizer: an answer that asserts something, with or without a
\* number of four digits that the context does not have; one that hedges or
\* is short; or nothing.
Synthesize ==
    \E draft \in {"asserts", "miscounts", "hedges", "empty"} :
        Step("synthesize", "validate", [state EXCEPT !.draft = draft])

IsGrounded(s) ==
    /\ s.draft # "miscounts"
    /\ s.context = "empty" => s.draft # "asserts"

RefusalDue(s) == s.iteration >= Attempts

\* node_validator, and the loop of invoke around it.
Validate ==
    LET s == [state EXCEPT !.iteration = @ + 1,
                           !.report = IF IsGrounded(state) THEN "grounded" ELSE "ungrounded"]
    IN Step("validate",
            IF s.report = "grounded" THEN "harvest"
            ELSE IF RefusalDue(s) THEN "refuse" ELSE "synthesize",
            s)

\* node_fallback_refusal.
Refuse ==
    Step("refuse", "harvest", [state EXCEPT !.draft = "refusal", !.report = "refused"])

\* node_state_harvester: the question, unless it is the last message already,
\* and the answer, unless it is empty.  The turn count goes into the memory.
Harvested(s) ==
    LET asked == [role |-> "user", text |-> s.question]
        question == IF asked \in LastMessage(s) THEN <<>> ELSE <<asked>>
        answer == IF s.draft = "empty" THEN <<>>
                  ELSE <<[role |-> "assistant", text |-> turn]>>
    IN s.messages \o question \o answer

Harvest ==
    Step("harvest", "clean", [state EXCEPT !.messages = Harvested(state),
                                           !.memory = MergeWorkingMemory(@, "merged")])

\* node_cleanup_ephemeral_state, and the state that invoke returns.
CleanUp ==
    /\ node = "clean"
    /\ node' = "idle"
    /\ state' = [state EXCEPT !.context = "empty", !.memory = MergeWorkingMemory(@, "janitor")]
    /\ blackboard' = IF carry = "all" THEN Board(state')
                     ELSE [Board(state') EXCEPT !.memory = "none"]
    /\ exchanged' = exchanged
          \cup {[role |-> "user", text |-> state.question]}
          \cup (IF state.draft = "empty" THEN {} ELSE {[role |-> "assistant", text |-> turn]})
    /\ UNCHANGED <<carry, turn, lost>>

\* A node raises and invoke with it: PostgreSQL, Qdrant or the model fail; a
\* memory the janitor has cleaned; the helpers node_sql_generator calls on
\* DynamicSQLStrategy, which do not exist.
Raise ==
    /\ node \notin {"idle", "summarize", "identity", "validate", "refuse", "clean"}
    /\ node' = "idle"
    /\ state' = Copy(blackboard, 0)
    /\ lost' = lost \ ToSet(blackboard.messages)
    /\ UNCHANGED <<carry, blackboard, turn, exchanged>>

RagNext ==
    \/ Ask \/ ResolveContext \/ SummarizeHistory \/ CondenseQuery \/ Plan
    \/ RetrieveVectors \/ ResolveIdentity \/ Synthesize \/ Validate \/ Refuse
    \/ Harvest \/ CleanUp \/ Raise

RagSpec == RagInit /\ [][RagNext]_ragVars

-----------------------------------------------------------------------------
(* Properties.                                                             *)

\* A turn returns an answer that the last validation accepted, or the
\* refusal after Attempts rejected ones, and never more than that many are
\* made (the loop of invoke with node_validator and node_fallback_refusal).
VerifiedOrRefused ==
    /\ state.iteration <= Attempts
    /\ node \in {"harvest", "clean"} =>
          \/ state.draft = "refusal" /\ state.iteration = Attempts
          \/ state.draft # "refusal" /\ IsGrounded(state)

\* Every message of a turn that returned is in the window or in the summary
\* the caller holds, except those that were pruned while the summarizer
\* failed, and the window stays bounded (node_summarize_history with
\* node_state_harvester).
NothingForgotten ==
    /\ exchanged \subseteq ToSet(blackboard.messages) \cup blackboard.summary \cup lost
    /\ Len(blackboard.messages) <= Window + 2
=============================================================================
