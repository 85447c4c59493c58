---------------------------- MODULE Turn_proofs ----------------------------
(***************************************************************************)
(* Proofs about Turn, for any number of retries: it implements Exchange,   *)
(* and an answer reported as grounded is whole.                            *)
(***************************************************************************)
EXTENDS Turn, SequenceTheorems, TLAPS

-----------------------------------------------------------------------------
(* The inductive invariant: where the turn is says what it has said.       *)

SqlPlace == {"target", "generate", "execute", "explain"}
PlainPlace == {"meta", "conversational", "session", "enterprise"}
Silent == {"context", "plan"} \cup PlainPlace \cup SqlPlace
Place == Silent \cup {"finish", "store", "respond", "done"}

\* Until its strategy ends, the turn has sent nothing that it keeps.
SilentBeforeEnd ==
    pc \in Silent => text = <<>> /\ verdict = "open" /\ stored = {}

\* Each place belongs to one strategy, and the agent counts its statements.
PlacesOfStrategies ==
    /\ pc \in PlainPlace => strategy = pc
    /\ pc \in SqlPlace => strategy = "sql"
    /\ attempt \in 0..MaxRetries + 1
    /\ pc \in {"context", "plan", "target", "generate"} => attempt <= MaxRetries
    /\ pc \in {"execute", "explain"} => attempt >= 1

\* What GroundedIsWhole says of a grounded answer.
Whole ==
    /\ text = result.answer /\ "error" \notin ToSet(text)
    /\ strategy \in {"session", "enterprise"} =>
          result.sources = "documents" /\ "refusal" \notin ToSet(text)
    /\ strategy = "sql" => result.sources = "database" /\ attempt \in 1..(MaxRetries + 1)

\* The result a strategy ended with is judged once and then stored.
ResultIsJudged ==
    /\ pc = "finish" => verdict = "open" /\ stored = {} /\ (result.grounded => Whole)
    /\ pc = "store" => verdict \in {"grounded", "ungrounded"} /\ stored = {}
    /\ verdict = "grounded" => Whole

TurnInv ==
    /\ pc \in Place
    /\ text \in Seq(Piece)
    /\ SilentBeforeEnd
    /\ PlacesOfStrategies
    /\ ResultIsJudged

-----------------------------------------------------------------------------
(* Words.                                                                  *)

\* The elements of a sequence are of its type (ToSet).
LEMMA ElementsOfType ==
    ASSUME NEW S, NEW s \in Seq(S)
    PROVE  ToSet(s) \subseteq S
  BY LenProperties DEF ToSet

\* The turn that has said nothing grows by whatever it says.
LEMMA SilenceGrows ==
    ASSUME NEW s \in Seq(Piece)
    PROVE  IsPrefix(<<>>, s) /\ <<>> \o s = s /\ ToSet(s) \subseteq Piece
  <1>1. Len(<<>>) = 0 /\ Len(s) \in Nat
    BY EmptySeq, LenProperties
  <1>2. SubSeq(<<>>, 1, 0) = <<>> /\ SubSeq(s, 1, 0) = <<>>
    BY SubSeqEmpty
  <1>3. QED
    BY <1>1, <1>2, ElementsOfType, ConcatEmptySeq DEF IsPrefix

\* Nothing said is no change (Exchange!Say may stutter).
LEMMA StaysPrefix ==
    ASSUME NEW s \in Seq(Piece)
    PROVE  IsPrefix(s, s) /\ s \o <<>> = s /\ ToSet(s) \subseteq Piece
  BY ElementsOfType, ConcatEmptySeq, LenProperties DEF IsPrefix

\* What stream_text sends is text, and reports no error.
LEMMA StreamsAreText ==
    ASSUME NEW s \in Streams
    PROVE  s \in Seq(Piece) /\ "error" \notin ToSet(s)
  <1>1. CASE s = <<>>
    BY <1>1, EmptySeq DEF ToSet
  <1>2. CASE s # <<>>
    <2>1. PICK cut \in {<<>>, <<"part">>}, answer \in {"answer", "refusal"} :
             s = cut \o <<answer>>
      BY <1>2 DEF Streams
    <2>2. cut \in Seq({"part", "answer", "refusal"}) /\ <<answer>> \in Seq({"part", "answer", "refusal"})
      <3>1. /\ <<"part">> \in Seq({"part", "answer", "refusal"})
            /\ <<"answer">> \in Seq({"part", "answer", "refusal"})
            /\ <<"refusal">> \in Seq({"part", "answer", "refusal"})
        OBVIOUS
      <3>2. QED
        BY <3>1, EmptySeq
    <2>3. s \in Seq({"part", "answer", "refusal"})
      BY <2>1, <2>2, ConcatProperties
    <2>4. s \in Seq(Piece)
      BY <2>3, SeqMonotonic DEF Piece
    <2>5. ToSet(s) \subseteq {"part", "answer", "refusal"}
      BY <2>3, ElementsOfType
    <2>6. QED
      BY <2>4, <2>5
  <1>3. QED
    BY <1>1, <1>2

\* A stream that fails leaves text, perhaps followed by a report.
LEMMA BrokenStreamsAreText ==
    ASSUME NEW s \in BrokenStreams
    PROVE  s \in Seq(Piece) /\ s \o <<"error">> \in Seq(Piece)
  <1>1. <<"part">> \in Seq(Piece) /\ <<"error">> \in Seq(Piece)
    BY DEF Piece
  <1>2. s \in Seq(Piece)
    BY <1>1, EmptySeq DEF BrokenStreams
  <1>3. QED
    BY <1>1, <1>2, ConcatProperties

\* One fixed message, and the two pieces of an inventory.
LEMMA MessagesAreText ==
    /\ \A p \in Piece : <<p>> \in Seq(Piece) /\ ToSet(<<p>>) = {p}
    /\ <<"part", "answer">> \in Seq(Piece) /\ "error" \notin ToSet(<<"part", "answer">>)
  BY DEF Piece, ToSet

-----------------------------------------------------------------------------
(* The invariant.                                                          *)

\* A turn that has not begun has said nothing.
LEMMA InitInv == TurnInit => TurnInv
  BY TurnAssumption, EmptySeq
     DEF TurnInit, TurnInv, Place, Silent, SqlPlace, PlainPlace, SilentBeforeEnd,
         PlacesOfStrategies, ResultIsJudged

\* A strategy that ends leaves the invariant if its words are text, and whole
\* if it calls them grounded.
LEMMA EndsKeeps ==
    ASSUME TurnInv, NEW from \in PlainPlace \cup SqlPlace, NEW words \in Seq(Piece),
           NEW res, Ends(from, words, res), strategy' = strategy,
           res.grounded =>
              /\ words = res.answer /\ "error" \notin ToSet(words)
              /\ from \in {"session", "enterprise"} =>
                    res.sources = "documents" /\ "refusal" \notin ToSet(words)
              /\ from \in SqlPlace => res.sources = "database" /\ attempt >= 1
    PROVE  TurnInv'
  <1>1. /\ pc = from /\ pc' = "finish" /\ text' = text \o words /\ result' = res
        /\ UNCHANGED <<attempt, verdict, stored>>
    BY DEF Ends, Goto
  <1>2. text = <<>> /\ verdict = "open" /\ stored = {}
    BY <1>1 DEF TurnInv, SilentBeforeEnd, Silent
  <1>3. text' = words
    BY <1>1, <1>2, SilenceGrows
  <1>4. strategy = IF from \in SqlPlace THEN "sql" ELSE from
    BY <1>1 DEF TurnInv, PlacesOfStrategies, PlainPlace, SqlPlace
  <1>5. attempt \in 0..MaxRetries + 1
    BY DEF TurnInv, PlacesOfStrategies
  <1>6. res.grounded => Whole'
    BY <1>1, <1>3, <1>4, <1>5, TurnAssumption DEF Whole, PlainPlace, SqlPlace
  <1>7. QED
    BY <1>1, <1>2, <1>3, <1>5, <1>6
       DEF TurnInv, Place, Silent, SqlPlace, PlainPlace, SilentBeforeEnd, PlacesOfStrategies,
           ResultIsJudged

\* The strategies that ask no database.
LEMMA PlainStrategiesKeep ==
    ASSUME TurnInv, Meta \/ Converse \/ AnswerFromSession \/ AnswerFromKnowledge
    PROVE  TurnInv'
  <1>1. CASE Meta
    <2>1. CASE Ends("meta", <<"message">>, Result(<<"message">>, "none", TRUE))
      <3>1. "error" \notin ToSet(<<"message">>) /\ <<"message">> \in Seq(Piece)
        BY MessagesAreText DEF Piece
      <3>2. QED
        BY <1>1, <2>1, <3>1, EndsKeeps DEF Meta, Result, PlainPlace, SqlPlace
    <2>2. CASE Ends("meta", <<"part", "answer">>, Result(<<"part", "answer">>, "inventory", TRUE))
      BY <1>1, <2>2, MessagesAreText, EndsKeeps DEF Meta, Result, PlainPlace, SqlPlace
    <2>3. QED
      BY <1>1, <2>1, <2>2 DEF Meta
  <1>2. CASE Converse
    <2>1. PICK said \in Streams : Ends("conversational", said, Result(said, "none", TRUE))
      BY <1>2 DEF Converse
    <2>2. QED
      BY <1>2, <2>1, StreamsAreText, EndsKeeps DEF Converse, Result, PlainPlace, SqlPlace
  <1>3. ASSUME NEW from \in {"session", "enterprise"}, NEW said \in Streams,
               NEW sources \in {"documents", "none"}, strategy' = strategy,
               Ends(from, said, Result(said, sources, Validated(said, sources)))
        PROVE  TurnInv'
    BY <1>3, StreamsAreText, EndsKeeps DEF Result, Validated, PlainPlace, SqlPlace
  <1>4. ASSUME NEW from \in {"session", "enterprise"}, NEW said \in Seq(Piece), strategy' = strategy,
               Ends(from, said, Result(said, "none", FALSE))
        PROVE  TurnInv'
    BY <1>4, EndsKeeps DEF Result, PlainPlace, SqlPlace
  <1>5. <<"message">> \in Seq(Piece) /\ <<"refusal">> \in Seq(Piece)
    BY MessagesAreText DEF Piece
  <1>6. CASE AnswerFromSession
    BY <1>3, <1>4, <1>5, <1>6 DEF AnswerFromSession
  <1>7. CASE AnswerFromKnowledge
    BY <1>3, <1>4, <1>5, <1>7, StreamsAreText DEF AnswerFromKnowledge
  <1>8. QED
    BY <1>1, <1>2, <1>6, <1>7

\* The SQL strategy: its steps say nothing, its ends say what happened.
LEMMA SqlKeeps ==
    ASSUME TurnInv,
           \/ ResolveTarget \/ NoDatabase \/ GenerateSql \/ RejectSql \/ ExecuteSql
           \/ RetrySql \/ GiveUpSql \/ ExplainRows \/ SqlRaises
    PROVE  TurnInv'
  <1>1. CASE ResolveTarget \/ GenerateSql \/ ExecuteSql \/ RetrySql
    BY <1>1, TurnAssumption
       DEF TurnInv, Place, Silent, SqlPlace, PlainPlace, SilentBeforeEnd, PlacesOfStrategies,
           ResultIsJudged, Whole, ResolveTarget, GenerateSql, ExecuteSql, RetrySql, Goto
  <1>2. <<"message">> \in Seq(Piece) /\ <<"error">> \in Seq(Piece)
    BY MessagesAreText DEF Piece
  <1>3. CASE NoDatabase
    BY <1>2, <1>3, EndsKeeps DEF NoDatabase, Result, SqlPlace
  <1>4. CASE RejectSql
    BY <1>2, <1>4, EndsKeeps DEF RejectSql, Result, SqlPlace
  <1>5. CASE GiveUpSql
    BY <1>2, <1>5, EndsKeeps DEF GiveUpSql, Result, SqlPlace
  <1>6. CASE ExplainRows
    <2>1. PICK said \in Streams : Ends("explain", said, Result(said, "database", TRUE))
      BY <1>6 DEF ExplainRows
    <2>2. attempt >= 1
      BY <2>1 DEF Ends, Goto, TurnInv, PlacesOfStrategies
    <2>3. QED
      BY <1>6, <2>1, <2>2, StreamsAreText, EndsKeeps DEF ExplainRows, Result, SqlPlace
  <1>7. CASE SqlRaises
    <2>1. PICK at \in SqlPlace, said \in BrokenStreams :
             /\ Ends(at, said \o <<"error">>, Result(<<"error">>, "error", FALSE))
             /\ UNCHANGED strategy
      BY <1>7 DEF SqlRaises, SqlPlace
    <2>2. QED
      BY <2>1, BrokenStreamsAreText, EndsKeeps DEF Result
  <1>8. QED
    BY <1>1, <1>3, <1>4, <1>5, <1>6, <1>7

\* Before and after the strategy.
LEMMA FrameKeeps ==
    ASSUME TurnInv,
           ResolveContext \/ ChooseStrategy \/ Conclude \/ StoreAnswer \/ Respond \/ TurnFails
    PROVE  TurnInv'
  <1> USE DEF TurnInv, Place, Silent, SqlPlace, PlainPlace, SilentBeforeEnd, PlacesOfStrategies,
              ResultIsJudged
  <1>1. CASE ResolveContext
    BY <1>1 DEF ResolveContext, Goto, Whole
  <1>2. CASE ChooseStrategy
    <2>1. strategy' \in {"conversational", "meta", "sql", "session", "enterprise"}
      BY <1>2 DEF ChooseStrategy, AnalyzeAndPlan, AutoPlan, DocumentStrategy
    <2>2. QED
      BY <1>2, <2>1, TurnAssumption DEF ChooseStrategy
  <1>3. CASE Conclude
    BY <1>3 DEF Conclude, Goto, Whole
  <1>4. CASE StoreAnswer
    BY <1>4 DEF StoreAnswer, Goto, Whole
  <1>5. CASE Respond
    BY <1>5 DEF Respond, Goto, Whole
  <1>6. CASE TurnFails
    <2>1. PICK said \in BrokenStreams : text' = text \o said /\ (pc = "store" => said = <<>>)
      BY <1>6 DEF TurnFails
    <2>2. text' \in Seq(Piece) /\ (pc = "store" => text' = text)
      BY <2>1, BrokenStreamsAreText, ConcatProperties, ConcatEmptySeq
    <2>3. QED
      BY <1>6, <2>2 DEF TurnFails, Whole
  <1>7. QED
    BY <1>1, <1>2, <1>3, <1>4, <1>5, <1>6

\* Every step of a turn keeps the invariant.
LEMMA NextInv == TurnInv /\ [TurnNext]_turnVars => TurnInv'
  <1> SUFFICES ASSUME TurnInv, [TurnNext]_turnVars PROVE TurnInv'
    OBVIOUS
  <1>1. CASE TurnNext
    BY <1>1, PlainStrategiesKeep, SqlKeeps, FrameKeeps DEF TurnNext
  <1>2. CASE UNCHANGED turnVars
    BY <1>2 DEF turnVars, TurnInv, SilentBeforeEnd, PlacesOfStrategies, ResultIsJudged, Whole
  <1>3. QED
    BY <1>1, <1>2

\* The invariant holds in every state of a turn.
LEMMA InvAlways == TurnSpec => []TurnInv
  BY InitInv, NextInv, PTL DEF TurnSpec

\* GroundedIsWhole holds for any number of retries: a grounded answer was sent
\* whole, is the one that was judged, and rests on passages or rows.
THEOREM GroundedIsWholeAlways == TurnSpec => []GroundedIsWhole
  <1>1. TurnInv => GroundedIsWhole
    BY DEF TurnInv, ResultIsJudged, Whole, GroundedIsWhole
  <1>2. QED
    BY <1>1, InvAlways, PTL

-----------------------------------------------------------------------------
(* The refinement: each step of a turn is a step of Exchange or changes    *)
(* nothing of it.                                                          *)

\* The exchange begins with the turn.
LEMMA InitSimulates == TurnInit => Abstract!Init
  BY DEF TurnInit, Abstract!Init

\* Both modules have the library's ToSet and IsPrefix.
LEMMA SameOperators ==
    /\ \A s : Abstract!ToSet(s) = ToSet(s)
    /\ \A s, t : Abstract!IsPrefix(s, t) <=> IsPrefix(s, t)
  BY DEF Abstract!ToSet, ToSet, Abstract!IsPrefix, IsPrefix

\* A strategy that ends says its words.
LEMMA EndsSays ==
    ASSUME TurnInv, NEW from \in PlainPlace \cup SqlPlace, NEW words \in Seq(Piece),
           NEW res, Ends(from, words, res)
    PROVE  Abstract!Say
  <1>1. pc = from /\ text' = text \o words /\ UNCHANGED <<verdict, stored>>
    BY DEF Ends, Goto
  <1>2. text = <<>> /\ verdict = "open"
    BY <1>1 DEF TurnInv, SilentBeforeEnd, Silent
  <1>3. QED
    BY <1>1, <1>2, SilenceGrows, SameOperators DEF Abstract!Say, Abstract!Grows

\* Every strategy ends so.
LEMMA StrategiesSay ==
    ASSUME TurnInv,
           \/ Meta \/ Converse \/ AnswerFromSession \/ AnswerFromKnowledge
           \/ NoDatabase \/ RejectSql \/ GiveUpSql \/ ExplainRows \/ SqlRaises
    PROVE  Abstract!Say
  <1>1. PICK from \in PlainPlace \cup SqlPlace, words \in Seq(Piece) :
           \E res : Ends(from, words, res)
    <2>1. <<"message">> \in Seq(Piece) /\ <<"error">> \in Seq(Piece) /\ <<"refusal">> \in Seq(Piece)
      BY MessagesAreText DEF Piece
    <2>2. CASE Meta
      BY <2>1, <2>2, MessagesAreText DEF Meta, PlainPlace
    <2>3. CASE Converse \/ AnswerFromSession \/ AnswerFromKnowledge
      BY <2>1, <2>3, StreamsAreText DEF Converse, AnswerFromSession, AnswerFromKnowledge, PlainPlace
    <2>4. CASE NoDatabase \/ RejectSql \/ GiveUpSql
      BY <2>1, <2>4 DEF NoDatabase, RejectSql, GiveUpSql, SqlPlace
    <2>5. CASE ExplainRows
      BY <2>5, StreamsAreText DEF ExplainRows, SqlPlace
    <2>6. CASE SqlRaises
      BY <2>6, BrokenStreamsAreText DEF SqlRaises, SqlPlace
    <2>7. QED
      BY <2>2, <2>3, <2>4, <2>5, <2>6
  <1>2. QED
    BY <1>1, EndsSays

\* The metadata event judges what was said.
LEMMA ConcludeJudges ==
    ASSUME TurnInv, Conclude
    PROVE  Abstract!Judge
  BY SameOperators DEF TurnInv, ResultIsJudged, Whole, Conclude, Goto, Abstract!Judge

\* The stored message is what was said.
LEMMA StoreKeeps ==
    ASSUME TurnInv, StoreAnswer
    PROVE  Abstract!Keep
  BY DEF TurnInv, ResultIsJudged, StoreAnswer, Goto, Abstract!Keep

\* A turn that raises is abandoned, or its answer is not stored.
LEMMA FailureAbandons ==
    ASSUME TurnInv, TurnFails
    PROVE  Abstract!Abandon \/ UNCHANGED <<text, verdict, stored>>
  <1>1. PICK said \in BrokenStreams : text' = text \o said /\ (pc = "store" => said = <<>>)
    BY DEF TurnFails
  <1>2. said \in Seq(Piece) /\ text \in Seq(Piece)
    BY BrokenStreamsAreText DEF TurnInv
  <1>3. CASE pc = "store"
    BY <1>1, <1>2, <1>3, ConcatEmptySeq DEF TurnFails
  <1>4. CASE pc # "store"
    <2>1. text = <<>> /\ verdict = "open"
      BY <1>4 DEF TurnFails, TurnInv, SilentBeforeEnd, Silent, PlainPlace
    <2>2. QED
      BY <1>1, <1>2, <1>4, <2>1, SilenceGrows, SameOperators DEF TurnFails, Abstract!Abandon, Abstract!Grows
  <1>5. QED
    BY <1>3, <1>4

\* A step of the turn is a step of the exchange, or changes nothing of it.
LEMMA StepSimulates ==
    TurnInv /\ [TurnNext]_turnVars => [Abstract!Next]_(Abstract!exchangeVars)
  <1> SUFFICES ASSUME TurnInv, [TurnNext]_turnVars
               PROVE  Abstract!Next \/ UNCHANGED <<text, verdict, stored>>
    BY DEF Abstract!exchangeVars
  <1>1. CASE UNCHANGED turnVars
    BY <1>1 DEF turnVars
  <1>2. CASE \/ ResolveContext \/ ChooseStrategy \/ ResolveTarget \/ GenerateSql
             \/ ExecuteSql \/ RetrySql \/ Respond
    BY <1>2 DEF ResolveContext, ChooseStrategy, ResolveTarget, GenerateSql, ExecuteSql, RetrySql,
                Respond
  <1>3. CASE \/ Meta \/ Converse \/ AnswerFromSession \/ AnswerFromKnowledge
             \/ NoDatabase \/ RejectSql \/ GiveUpSql \/ ExplainRows \/ SqlRaises
    BY <1>3, StrategiesSay DEF Abstract!Next
  <1>4. CASE Conclude
    BY <1>4, ConcludeJudges DEF Abstract!Next
  <1>5. CASE StoreAnswer
    BY <1>5, StoreKeeps DEF Abstract!Next
  <1>6. CASE TurnFails
    BY <1>6, FailureAbandons DEF Abstract!Next
  <1>7. QED
    BY <1>1, <1>2, <1>3, <1>4, <1>5, <1>6 DEF TurnNext

\* A turn, whatever strategy answers it and however often a statement is
\* retried, is an exchange.
THEOREM TurnImplementsExchange == TurnSpec => ImplementsExchange
  <1>1. TurnSpec => Abstract!Init
    BY InitSimulates DEF TurnSpec
  <1>2. QED
    BY <1>1, InvAlways, StepSimulates, PTL DEF TurnSpec, ImplementsExchange, Abstract!Spec
=============================================================================
