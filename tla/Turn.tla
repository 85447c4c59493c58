-------------------------------- MODULE Turn --------------------------------
(***************************************************************************)
(* One chat turn, from the query to the stored answer: execute_chat_query, *)
(* UnifiedRAGOrchestrator.execute_unified_query_stream and the strategies  *)
(* it chooses from (modules/rag_core/orchestrator).  The text is what the  *)
(* delta events of the turn add up to; the result is what the strategy     *)
(* makes of it.  The working memory is the matter of Conversation.         *)
(***************************************************************************)
EXTENDS Naturals, Sequences, SequencesExt

CONSTANT MaxRetries         \* of generate_and_execute_sql

ASSUME TurnAssumption == MaxRetries \in Nat

VARIABLES
    request,    \* the query: its mode, its scope, whether streamed, by whom
    pc,         \* the next step
    hasDocuments,   \* documents are attached to the session
    strategy,   \* the strategy that answers
    attempt,    \* statements the SQL agent has tried
    text,       \* the deltas
    result,     \* the result of the strategy
    usable,     \* the database session can still be used
    verdict,    \* what the metadata event says
    stored,     \* the assistant messages of the turn
    response    \* what the client has got: "none", "complete" or "error"

turnVars == <<request, pc, hasDocuments, strategy, attempt, text, result, usable,
              verdict, stored, response>>

\* Pieces of text: tokens of an answer cut off, a complete answer, one that
\* says that nothing was found, a fixed message, and a report of an error.
Piece == {"part", "answer", "refusal", "message", "error"}

NoResult == [answer |-> <<>>, sources |-> "none", grounded |-> FALSE]

Request == [mode : {"auto", "rag", "general", "sql", "meta"},
            scope : {"none", "session", "enterprise"}, stream : BOOLEAN, admin : BOOLEAN]

TurnInit ==
    /\ request \in Request
    /\ pc = "context"
    /\ hasDocuments = FALSE
    /\ strategy = "none"
    /\ attempt = 0
    /\ text = <<>>
    /\ result = NoResult
    /\ usable = TRUE
    /\ verdict = "open"
    /\ stored = {}
    /\ response = "none"

-----------------------------------------------------------------------------
(* Helpers.                                                                *)

\* The turn goes on in another place, and nothing else happens.
Goto(from, to) ==
    /\ pc = from
    /\ pc' = to

Result(answer, sources, grounded) ==
    [answer |-> answer, sources |-> sources, grounded |-> grounded]

\* stream_text of the model: a stream that breaks off is followed by the
\* whole answer from generate_text.
Streams == {<<>>} \cup {cut \o <<answer>> : cut \in {<<>>, <<"part">>}, answer \in {"answer", "refusal"}}

\* Both fail, with or without tokens before.
BrokenStreams == {<<>>, <<"part">>}

\* A strategy says something and ends with a result.
Ends(from, words, res) ==
    /\ Goto(from, "finish")
    /\ text' = text \o words
    /\ result' = res
    /\ UNCHANGED <<request, hasDocuments, attempt, verdict, stored, response>>

\* validate_grounding.
Validated(words, sources) == sources # "none" /\ "refusal" \notin ToSet(words)

-----------------------------------------------------------------------------
(* The planner: QueryPlanner.analyze_and_plan on what a query matches.     *)

Query == [identity : BOOLEAN, meta : BOOLEAN, document : BOOLEAN, sql : BOOLEAN,
          aggregate : BOOLEAN, greeting : BOOLEAN, general : BOOLEAN]

SqlIntent(q) == q.sql /\ (~q.document \/ q.aggregate)

\* The intent in the mode "auto".
AutoPlan(q, documents) ==
    IF ~SqlIntent(q) /\ ~q.document /\ q.greeting THEN "conversational"
    ELSE IF q.document /\ ~q.aggregate THEN "document"
    ELSE IF SqlIntent(q) THEN "sql"
    ELSE IF ~q.document /\ ~documents /\ q.general THEN "conversational"
    ELSE "document"

AnalyzeAndPlan(q, mode, documents) ==
    IF q.identity THEN "conversational"
    ELSE IF q.meta THEN "meta"
    ELSE CASE mode = "meta" -> "meta"
           [] mode = "general" -> "conversational"
           [] mode = "sql" -> "sql"
           [] mode = "rag" -> IF SqlIntent(q) THEN "sql" ELSE "document"
           [] OTHER -> AutoPlan(q, documents)

-----------------------------------------------------------------------------
(* Mutants.                                                                *)

\* The handler of DynamicSQLStrategy keeps the rows it had.
SqlRaises_KeepsResult ==
    \E at \in {"target", "generate", "execute", "explain"}, said \in BrokenStreams :
        /\ said = <<>> \/ at = "explain"
        /\ Ends(at, said \o <<"error">>,
                Result(<<"error">>, "database", at = "explain"))
        /\ usable' \in (IF at = "target" THEN BOOLEAN ELSE {usable})
        /\ UNCHANGED strategy

\* The answer the strategy returned is stored, not the one that was sent.
StoreAnswer_OfResult ==
    /\ Goto("store", IF request.stream THEN "done" ELSE "respond")
    /\ usable
    /\ stored' = {result.answer}
    /\ UNCHANGED <<request, hasDocuments, strategy, attempt, text, result, usable,
                   verdict, response>>

-----------------------------------------------------------------------------
(* Before the strategy.                                                    *)

\* Names, memory, history and condensed query; then the session's documents,
\* which an error of Qdrant makes none.
ResolveContext ==
    /\ Goto("context", "plan")
    /\ hasDocuments' \in BOOLEAN
    /\ UNCHANGED <<request, strategy, attempt, text, result, usable, verdict, stored, response>>

\* Route C of execute_unified_query_stream.
DocumentStrategy ==
    IF request.scope = "session" \/ (hasDocuments /\ request.scope # "enterprise")
    THEN "session" ELSE "enterprise"

ChooseStrategy ==
    /\ pc = "plan"
    /\ \E q \in Query :
          LET plan == AnalyzeAndPlan(q, request.mode, hasDocuments) IN
          strategy' = IF plan = "document" THEN DocumentStrategy ELSE plan
    /\ pc' = IF strategy' = "sql" THEN "target" ELSE strategy'
    /\ UNCHANGED <<request, hasDocuments, attempt, text, result, usable, verdict, stored, response>>

-----------------------------------------------------------------------------
(* The strategies without a database.                                      *)

\* SystemMetaStrategy: a fixed message, or the inventory in pieces.
Meta ==
    /\ \/ ~request.admin /\ Ends("meta", <<"message">>, Result(<<"message">>, "none", TRUE))
       \/ request.admin /\ Ends("meta", <<"part", "answer">>,
                                Result(<<"part", "answer">>, "inventory", TRUE))
    /\ UNCHANGED <<strategy, usable>>

\* ConversationalStrategy.
Converse ==
    /\ \E said \in Streams : Ends("conversational", said, Result(said, "none", TRUE))
    /\ UNCHANGED <<strategy, usable>>

\* SessionDocumentStrategy: the passages found, or the first ones of the
\* documents.  Passages too short to be cited leave no source.
AnswerFromSession ==
    /\ \/ Ends("session", <<"message">>, Result(<<"message">>, "none", FALSE))
       \/ \E said \in Streams, sources \in {"documents", "none"} :
             Ends("session", said, Result(said, sources, Validated(said, sources)))
    /\ UNCHANGED <<strategy, usable>>

\* EnterpriseKnowledgeStrategy: without passages a refusal, or what the model
\* knows by itself.
AnswerFromKnowledge ==
    /\ \/ /\ request.mode = "rag"
          /\ Ends("enterprise", <<"refusal">>, Result(<<"refusal">>, "none", FALSE))
       \/ /\ request.mode # "rag"
          /\ \E said \in Streams : Ends("enterprise", said, Result(said, "none", FALSE))
       \/ \E said \in Streams, sources \in {"documents", "none"} :
             Ends("enterprise", said, Result(said, sources, Validated(said, sources)))
    /\ UNCHANGED <<strategy, usable>>

-----------------------------------------------------------------------------
(* DynamicSQLStrategy and the agent.                                       *)

\* A connector of the organization whose tables are known.
ResolveTarget ==
    /\ Goto("target", "generate")
    /\ UNCHANGED <<request, hasDocuments, strategy, attempt, text, result, usable,
                   verdict, stored, response>>

\* No connector, or no schema: the strategy has no result, and the turn says so.
NoDatabase ==
    /\ Ends("target", <<"message">>, Result(<<"message">>, "none", FALSE))
    /\ UNCHANGED <<strategy, usable>>

\* A statement that SQLSecurityGuard lets pass.
GenerateSql ==
    /\ Goto("generate", "execute")
    /\ attempt' = attempt + 1
    /\ UNCHANGED <<request, hasDocuments, strategy, text, result, usable, verdict, stored, response>>

\* One that it rejects is not tried again.
RejectSql ==
    /\ Ends("generate", <<"error">>, Result(<<"error">>, "error", FALSE))
    /\ UNCHANGED <<strategy, usable>>

ExecuteSql ==
    /\ Goto("execute", "explain")
    /\ UNCHANGED <<request, hasDocuments, strategy, attempt, text, result, usable,
                   verdict, stored, response>>

RetrySql ==
    /\ attempt <= MaxRetries
    /\ Goto("execute", "generate")
    /\ UNCHANGED <<request, hasDocuments, strategy, attempt, text, result, usable,
                   verdict, stored, response>>

GiveUpSql ==
    /\ attempt > MaxRetries
    /\ Ends("execute", <<"error">>, Result(<<"error">>, "error", FALSE))
    /\ UNCHANGED <<strategy, usable>>

ExplainRows ==
    /\ \E said \in Streams : Ends("explain", said, Result(said, "database", TRUE))
    /\ UNCHANGED <<strategy, usable>>

\* Whatever raises inside execute_stream ends in the handler: tokens already
\* sent stay in the text, the result has the error alone.  A statement of the
\* turn's own session that failed may leave that session unusable.
SqlRaises ==
    \E at \in {"target", "generate", "execute", "explain"}, said \in BrokenStreams :
        /\ said = <<>> \/ at = "explain"
        /\ Ends(at, said \o <<"error">>, Result(<<"error">>, "error", FALSE))
        /\ usable' \in (IF at = "target" THEN BOOLEAN ELSE {usable})
        /\ UNCHANGED strategy

-----------------------------------------------------------------------------
(* After the strategy.                                                     *)

\* Harvest and save_memory, then the metadata event, the last of the turn.
Conclude ==
    /\ Goto("finish", "store")
    /\ verdict' = IF result.grounded THEN "grounded" ELSE "ungrounded"
    /\ UNCHANGED <<request, hasDocuments, strategy, attempt, text, result, usable, stored, response>>

\* add_message: the deltas, not the result.
StoreAnswer ==
    /\ Goto("store", IF request.stream THEN "done" ELSE "respond")
    /\ usable
    /\ stored' = {text}
    /\ UNCHANGED <<request, hasDocuments, strategy, attempt, text, result, usable,
                   verdict, response>>

\* The sources of an inventory have no filename, which SourceCitation wants.
Respond ==
    /\ Goto("respond", "done")
    /\ response' = IF result.sources = "inventory" THEN "error" ELSE "complete"
    /\ UNCHANGED <<request, hasDocuments, strategy, attempt, text, result, usable, verdict, stored>>

\* The turn raises: a statement, a search or the model fails in a strategy
\* that does not catch it, or the answer cannot be stored.  A streamed turn
\* ends with an error event, another one with an internal error.
TurnFails ==
    /\ \/ pc \in {"context", "meta", "conversational", "session", "enterprise"}
       \/ pc = "store"
    /\ pc' = "done"
    /\ \E said \in BrokenStreams :
          /\ said = <<>> \/ pc \in {"conversational", "session", "enterprise"}
          /\ text' = text \o said
    /\ verdict' = IF pc = "store" THEN verdict ELSE "failed"
    /\ response' = "error"
    /\ UNCHANGED <<request, hasDocuments, strategy, attempt, result, usable, stored>>

TurnNext ==
    \/ ResolveContext \/ ChooseStrategy
    \/ Meta \/ Converse \/ AnswerFromSession \/ AnswerFromKnowledge
    \/ ResolveTarget \/ NoDatabase \/ GenerateSql \/ RejectSql
    \/ ExecuteSql \/ RetrySql \/ GiveUpSql \/ ExplainRows \/ SqlRaises
    \/ Conclude \/ StoreAnswer \/ Respond \/ TurnFails

TurnSpec == TurnInit /\ [][TurnNext]_turnVars

-----------------------------------------------------------------------------
(* Properties.                                                             *)

\* An answer reported as grounded was sent as a whole, is the one that was
\* judged, reports no error, and rests on passages of documents or on the
\* rows of a statement, unless it is about the caller or the platform
\* (validate_grounding and the results of the strategies).
GroundedIsWhole ==
    verdict = "grounded" =>
        /\ text = result.answer /\ "error" \notin ToSet(text)
        /\ strategy \in {"session", "enterprise"} =>
              result.sources = "documents" /\ "refusal" \notin ToSet(text)
        /\ strategy = "sql" => result.sources = "database" /\ attempt \in 1..(MaxRetries + 1)

\* The turn keeps the promises of an exchange, with its text as what is said.
Abstract == INSTANCE Exchange WITH said <- text, kept <- stored, Error <- "error"

ImplementsExchange == Abstract!Spec
=============================================================================
