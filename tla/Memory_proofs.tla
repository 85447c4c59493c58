---------------------------- MODULE Memory_proofs ----------------------------
(***************************************************************************)
(* Proofs about what a session remembers from turn to turn: the graph (G)  *)
(* and the working memory that queries are bound from (B).  They hold for   *)
(* any questions and persons and any values of the bounds of MCRequests.    *)
(***************************************************************************)
EXTENDS Requests_proofs, SequenceTheorems

-----------------------------------------------------------------------------
(* Elements of sequences.                                                   *)

\* The elements of a concatenation.
LEMMA ElementsOfConcat ==
    ASSUME NEW S, NEW s \in Seq(S), NEW t \in Seq(S)
    PROVE  ToSet(s \o t) = ToSet(s) \cup ToSet(t)
<1> DEFINE u == s \o t
<1>1. /\ u \in Seq(S) /\ Len(u) = Len(s) + Len(t)
      /\ \A i \in 1..Len(s) + Len(t) : u[i] = IF i <= Len(s) THEN s[i] ELSE t[i - Len(s)]
  BY ConcatProperties
<1>2. /\ Len(s) \in Nat /\ Len(t) \in Nat
      /\ DOMAIN s = 1..Len(s) /\ DOMAIN t = 1..Len(t) /\ DOMAIN u = 1..Len(s) + Len(t)
  BY <1>1, LenProperties
<1> HIDE DEF u
<1>3. ASSUME NEW i \in DOMAIN u PROVE u[i] \in ToSet(s) \cup ToSet(t)
  <2>1. CASE i <= Len(s)
    BY <1>1, <1>2, <2>1 DEF ToSet
  <2>2. CASE i > Len(s)
    <3>1. i - Len(s) \in 1..Len(t) /\ u[i] = t[i - Len(s)]
      BY <1>1, <1>2, <2>2
    <3> QED  BY <1>2, <3>1 DEF ToSet
  <2> QED  BY <1>2, <2>1, <2>2
<1>4. ASSUME NEW i \in DOMAIN s PROVE s[i] \in ToSet(u)
  <2>1. i \in DOMAIN u /\ u[i] = s[i]
    BY <1>1, <1>2
  <2> QED  BY <2>1 DEF ToSet
<1>5. ASSUME NEW i \in DOMAIN t PROVE t[i] \in ToSet(u)
  <2>1. i + Len(s) \in DOMAIN u /\ u[i + Len(s)] = t[i]
    BY <1>1, <1>2
  <2> QED  BY <2>1 DEF ToSet
<1>6. ToSet(u) = ToSet(s) \cup ToSet(t)
  BY <1>3, <1>4, <1>5 DEF ToSet
<1> QED  BY <1>6 DEF u

\* The graph's module means the same by the elements of a sequence.
LEMMA SameElements == \A s : G!ToSet(s) = ToSet(s)
  BY DEF G!ToSet, ToSet

\* What a window drops and what it keeps is all that was there.
LEMMA ElementsOfWindow ==
    ASSUME NEW S, NEW s \in Seq(S), NEW n \in 0..Len(s)
    PROVE  /\ SubSeq(s, 1, n) \in Seq(S) /\ SubSeq(s, n + 1, Len(s)) \in Seq(S)
           /\ Len(SubSeq(s, n + 1, Len(s))) = Len(s) - n
           /\ ToSet(s) = ToSet(SubSeq(s, 1, n)) \cup ToSet(SubSeq(s, n + 1, Len(s)))
<1>1. Len(s) \in Nat /\ \A i \in 1..Len(s) : s[i] \in S
  BY LenProperties, ElementOfSeq
<1>2. SubSeq(s, 1, n) \in Seq(S)
  <2>1. \A i \in 1..n : s[i] \in S
    BY <1>1
  <2> QED  BY <1>1, <2>1, SubSeqProperties
<1>3. /\ SubSeq(s, n + 1, Len(s)) \in Seq(S)
      /\ Len(SubSeq(s, n + 1, Len(s))) = Len(s) - n
  <2>1. n + 1 \in Int /\ Len(s) \in Int /\ \A i \in n + 1..Len(s) : s[i] \in S
    BY <1>1
  <2>2. /\ SubSeq(s, n + 1, Len(s)) \in Seq(S)
        /\ Len(SubSeq(s, n + 1, Len(s))) =
              IF n + 1 <= Len(s) THEN Len(s) - (n + 1) + 1 ELSE 0
    BY <2>1, SubSeqProperties
  <2> QED  BY <1>1, <2>2
<1>4. SubSeq(s, 1, n) \o SubSeq(s, n + 1, Len(s)) = s
  <2>1. SubSeq(s, 1, n) \o SubSeq(s, n + 1, Len(s)) = SubSeq(s, 1, Len(s))
    <3>1. 1 \in 1..Len(s) + 1 /\ n \in 1 - 1..Len(s) /\ Len(s) \in n..Len(s)
      BY <1>1
    <3> QED  BY <3>1, ConcatAdjacentSubSeq
  <2> QED  BY <2>1, SubSeqFull
<1> QED  BY <1>2, <1>3, <1>4, ElementsOfConcat

\* The element of a sequence of one.
LEMMA OneElement ==
    ASSUME NEW S, NEW e \in S
    PROVE  <<e>> \in Seq(S) /\ Len(<<e>>) = 1 /\ ToSet(<<e>>) = {e}
<1>1. <<e>> \in Seq(S) /\ Len(<<e>>) = 1 /\ <<e>>[1] = e
  OBVIOUS
<1>2. DOMAIN <<e>> = {1}
  <2>1. DOMAIN <<e>> = 1..1 /\ 1..1 = {1}
    BY <1>1, LenProperties
  <2> QED  BY <2>1
<1>3. ToSet(<<e>>) = {<<e>>[1]}
  BY <1>2, Zenon DEF ToSet
<1> QED  BY <1>1, <1>3, Zenon

\* A question and an answer, each of which may be missing.
LEMMA TwoAppended ==
    ASSUME NEW S, NEW s \in Seq(S), NEW t \in Seq(S), NEW u \in Seq(S),
           Len(t) <= 1, Len(u) <= 1
    PROVE  /\ s \o t \o u \in Seq(S)
           /\ Len(s \o t \o u) <= Len(s) + 2
           /\ ToSet(s \o t \o u) = ToSet(s) \cup ToSet(t) \cup ToSet(u)
<1>1. s \o t \in Seq(S) /\ Len(s \o t) = Len(s) + Len(t)
  BY ConcatProperties
<1>2. s \o t \o u \in Seq(S) /\ Len(s \o t \o u) = Len(s \o t) + Len(u)
  BY <1>1, ConcatProperties
<1>3. Len(s) \in Nat /\ Len(t) \in Nat /\ Len(u) \in Nat
  BY LenProperties
<1>4. ToSet(s \o t \o u) = ToSet(s) \cup ToSet(t) \cup ToSet(u)
  <2>1. ToSet(s \o t) = ToSet(s) \cup ToSet(t)
    BY ElementsOfConcat
  <2> DEFINE v == s \o t
  <2>2. v \in Seq(S)
    BY <1>1
  <2> HIDE DEF v
  <2>3. ToSet(v \o u) = ToSet(v) \cup ToSet(u)
    BY <2>2, ElementsOfConcat
  <2> QED  BY <2>1, <2>3 DEF v
<1> QED  BY <1>1, <1>2, <1>3, <1>4

\* The last element of a sequence that is not empty is one of its elements.
LEMMA LastIsElement ==
    ASSUME NEW S, NEW s \in Seq(S), s # <<>>
    PROVE  Last(s) \in ToSet(s) /\ Last(s) \in S
<1>1. Len(s) \in DOMAIN s
  BY EmptySeq, LenProperties
<1> QED  BY <1>1, LenProperties, ElementOfSeq DEF Last, ToSet

-----------------------------------------------------------------------------
(* The graph: types.                                                        *)

Node == {"idle", "resolve", "summarize", "condense", "plan", "sql", "retrieve", "identity",
         "synthesize", "validate", "refuse", "harvest", "clean"}
Memory == {"none", "merged", "janitor"}
Draft == {"none", "asserts", "miscounts", "hedges", "empty", "refusal"}
Route == {"none", "sql", "document", "identity", "conversational", "system_meta"}
Report == {"none", "grounded", "ungrounded", "refused"}
BoardType == [messages : Seq(G!Message), summary : SUBSET G!Message, memory : Memory]
StateType == [messages : Seq(G!Message), summary : SUBSET G!Message, memory : Memory,
              question : 0..Turns, route : Route, context : {"empty", "found"},
              iteration : Nat, draft : Draft, report : Report]

RagTypeOK ==
    /\ carry \in {"all", "conversation"}
    /\ blackboard \in BoardType
    /\ state \in StateType
    /\ node \in Node
    /\ turn \in 0..Turns
    /\ node # "idle" => turn > 0 /\ state.question > 0
    /\ exchanged \subseteq G!Message
    /\ lost \subseteq G!Message

\* The state a turn begins with is well typed.
LEMMA CopyType ==
    ASSUME NEW board \in BoardType, NEW question \in 0..Turns
    PROVE  G!Copy(board, question) \in StateType
  BY DEF G!Copy, BoardType, StateType, Draft, Route, Report

\* What a harvest adds to the messages: the question, unless it is there
\* already, and the answer, unless it is empty.
LEMMA HarvestedMessages ==
    ASSUME G!RagGraphAssumption, RagTypeOK, node = "harvest"
    PROVE  /\ G!Harvested(state) \in Seq(G!Message)
           /\ ToSet(state.messages) \subseteq ToSet(G!Harvested(state))
           /\ [role |-> "user", text |-> state.question] \in ToSet(G!Harvested(state))
           /\ state.draft # "empty" =>
                 [role |-> "assistant", text |-> turn] \in ToSet(G!Harvested(state))
           /\ Len(G!Harvested(state)) <= Len(state.messages) + 2
<1> DEFINE asked == [role |-> "user", text |-> state.question]
           replied == [role |-> "assistant", text |-> turn]
           question == IF asked \in G!LastMessage(state) THEN <<>> ELSE <<asked>>
           answer == IF state.draft = "empty" THEN <<>> ELSE <<replied>>
<1>1. asked \in G!Message /\ replied \in G!Message /\ state.messages \in Seq(G!Message)
  BY DEF RagTypeOK, StateType, G!Message, G!RagGraphAssumption
<1>2. /\ <<asked>> \in Seq(G!Message) /\ Len(<<asked>>) = 1 /\ ToSet(<<asked>>) = {asked}
      /\ <<replied>> \in Seq(G!Message) /\ Len(<<replied>>) = 1
      /\ ToSet(<<replied>>) = {replied}
  BY <1>1, OneElement
<1>3. <<>> \in Seq(G!Message) /\ Len(<<>>) = 0
  BY EmptySeq
<1>4. /\ question \in Seq(G!Message) /\ Len(question) <= 1
      /\ asked \in G!LastMessage(state) \/ asked \in ToSet(question)
  <2>1. CASE asked \in G!LastMessage(state)
    <3>1. question = <<>>
      BY <2>1
    <3> HIDE DEF asked, question
    <3> QED  BY <1>3, <2>1, <3>1
  <2>2. CASE asked \notin G!LastMessage(state)
    <3>1. question = <<asked>>
      BY <2>2
    <3> HIDE DEF asked, question
    <3> QED  BY <1>2, <3>1
  <2> QED  BY <2>1, <2>2
<1>5. /\ answer \in Seq(G!Message) /\ Len(answer) <= 1
      /\ state.draft # "empty" => replied \in ToSet(answer)
  <2>1. CASE state.draft = "empty"
    <3>1. answer = <<>>
      BY <2>1
    <3> HIDE DEF answer
    <3> QED  BY <1>3, <2>1, <3>1
  <2>2. CASE state.draft # "empty"
    <3>1. answer = <<replied>>
      BY <2>2
    <3> HIDE DEF replied, answer
    <3> QED  BY <1>2, <3>1
  <2> QED  BY <2>1, <2>2
<1>6. G!LastMessage(state) \subseteq ToSet(state.messages)
  BY <1>1, LastIsElement DEF G!LastMessage, G!Last, Last
<1>7. G!Harvested(state) = state.messages \o question \o answer
  BY DEF G!Harvested
<1> HIDE DEF asked, replied, question, answer
<1>8. /\ G!Harvested(state) \in Seq(G!Message)
      /\ Len(G!Harvested(state)) <= Len(state.messages) + 2
      /\ ToSet(G!Harvested(state)) =
            ToSet(state.messages) \cup ToSet(question) \cup ToSet(answer)
  BY <1>1, <1>4, <1>5, <1>7, TwoAppended
<1>9. /\ asked \in ToSet(G!Harvested(state))
      /\ state.draft # "empty" => replied \in ToSet(G!Harvested(state))
  BY <1>4, <1>5, <1>6, <1>8
<1> QED  BY <1>8, <1>9 DEF asked, replied

\* The window after a summary: what is dropped is there to be summarized.
LEMMA SummarizedMessages ==
    ASSUME G!RagGraphAssumption, RagTypeOK, Len(state.messages) > Window
    PROVE  LET n == Len(state.messages)
               older == SubSeq(state.messages, 1, n - Kept)
               recent == SubSeq(state.messages, n - Kept + 1, n)
           IN /\ recent \in Seq(G!Message) /\ Len(recent) <= Window
              /\ ToSet(older) \subseteq G!Message
              /\ ToSet(state.messages) = ToSet(older) \cup ToSet(recent)
<1> DEFINE n == Len(state.messages)
           older == SubSeq(state.messages, 1, n - Kept)
           recent == SubSeq(state.messages, n - Kept + 1, n)
<1>1. state.messages \in Seq(G!Message) /\ n \in Nat
  BY LenProperties DEF RagTypeOK, StateType
<1>2. n - Kept \in 0..n /\ Kept <= Window /\ Kept \in Nat /\ n - (n - Kept) = Kept
  BY <1>1 DEF G!RagGraphAssumption
<1>3. /\ older \in Seq(G!Message) /\ recent \in Seq(G!Message) /\ Len(recent) = n - (n - Kept)
      /\ ToSet(state.messages) = ToSet(older) \cup ToSet(recent)
  BY <1>1, <1>2, ElementsOfWindow
<1>4. ToSet(older) \subseteq G!Message
  <2> HIDE DEF older
  <2> QED  BY <1>3, LenProperties, ElementOfSeq DEF ToSet
<1> QED  BY <1>2, <1>3, <1>4

\* Every step of the graph keeps the types.
LEMMA RagTyping ==
    ASSUME G!RagGraphAssumption, RagTypeOK, [G!RagNext]_(G!ragVars)
    PROVE  RagTypeOK'
<1> USE DEF RagTypeOK, BoardType, StateType, Node, Memory, Draft, Route, Report,
            G!RagGraphAssumption, G!Step, G!MergeWorkingMemory
<1>1. CASE G!Ask
  <2>1. PICK said \in {turn + 1} \cup {m.text : m \in G!LastMessage(blackboard)} :
          state' = G!Copy(blackboard, said)
    BY <1>1 DEF G!Ask
  <2>2. G!LastMessage(blackboard) \subseteq G!Message
    BY LastIsElement DEF G!LastMessage, G!Last, Last
  <2>3. said \in 1..Turns
    BY <1>1, <2>1, <2>2 DEF G!Ask, G!Message
  <2>4. state' \in StateType /\ state'.question = said
    <3>1. state'.question = said
      BY <2>1 DEF G!Copy
    <3> HIDE DEF StateType, BoardType
    <3> QED  BY <2>1, <2>3, <3>1, CopyType
  <2> QED  BY <1>1, <2>3, <2>4 DEF G!Ask
<1>2. CASE G!ResolveContext
  BY <1>2 DEF G!ResolveContext
<1>3. CASE G!SummarizeHistory
  <2> DEFINE n == Len(state.messages)
             older == SubSeq(state.messages, 1, n - Kept)
             recent == SubSeq(state.messages, n - Kept + 1, n)
  <2>1. CASE n <= Window
    BY <1>3, <2>1 DEF G!SummarizeHistory
  <2>2. CASE n > Window
    <3>1. recent \in Seq(G!Message) /\ ToSet(older) \subseteq G!Message
      BY <2>2, SummarizedMessages
    <3>2. \/ /\ state' = [state EXCEPT !.summary = G!Summarized(state, older),
                                       !.messages = recent]
             /\ UNCHANGED lost
          \/ state' = [state EXCEPT !.messages = recent] /\ lost' = lost \cup ToSet(older)
      BY <1>3, <2>2, LenProperties, SameElements DEF G!SummarizeHistory
    <3>3. /\ node = "summarize" /\ node' = "condense"
          /\ UNCHANGED <<carry, blackboard, turn, exchanged>>
      BY <1>3 DEF G!SummarizeHistory
    <3> HIDE DEF older, recent
    <3>4. G!Summarized(state, older) \in SUBSET G!Message
      BY <3>1, SameElements DEF G!Summarized
    <3>5. state' \in StateType /\ state'.question = state.question
      <4> DEFINE sum == G!Summarized(state, older)
      <4> HIDE DEF sum
      <4> QED  BY <3>1, <3>2, <3>4 DEF sum
    <3>6. lost' \subseteq G!Message
      BY <3>1, <3>2
    <3> HIDE DEF BoardType, StateType
    <3> QED  BY <3>3, <3>5, <3>6
  <2> QED  BY <2>1, <2>2, LenProperties
<1>4. CASE G!CondenseQuery
  BY <1>4 DEF G!CondenseQuery
<1>5. CASE G!Plan
  BY <1>5 DEF G!Plan
<1>6. CASE G!RetrieveVectors
  BY <1>6 DEF G!RetrieveVectors
<1>7. CASE G!ResolveIdentity
  BY <1>7 DEF G!ResolveIdentity
<1>8. CASE G!Synthesize
  BY <1>8 DEF G!Synthesize
<1>9. CASE G!Validate
  <2> DEFINE report == IF G!IsGrounded(state) THEN "grounded" ELSE "ungrounded"
             s == [state EXCEPT !.iteration = @ + 1, !.report = report]
  <2>1. state' = s /\ node = "validate" /\ node' \in {"harvest", "refuse", "synthesize"}
        /\ UNCHANGED <<carry, blackboard, turn, exchanged, lost>>
    BY <1>9 DEF G!Validate
  <2>2. report \in Report
    OBVIOUS
  <2>3. s \in StateType /\ s.question = state.question
    <3> HIDE DEF report
    <3>1. state.iteration + 1 \in Nat
      OBVIOUS
    <3> QED  BY <2>2, <3>1
  <2> HIDE DEF s
  <2> QED  BY <2>1, <2>3
<1>10. CASE G!Refuse
  BY <1>10 DEF G!Refuse
<1>11. CASE G!Harvest
  <2>1. G!Harvested(state) \in Seq(G!Message)
    BY <1>11, HarvestedMessages DEF G!Harvest
  <2> QED  BY <1>11, <2>1 DEF G!Harvest
<1>12. CASE G!CleanUp
  <2>1. state' \in StateType /\ state'.question = state.question
    BY <1>12 DEF G!CleanUp
  <2>2. G!Board(state') \in BoardType
    BY <2>1 DEF G!Board
  <2>3. blackboard' \in BoardType
    BY <1>12, <2>2 DEF G!CleanUp
  <2>4. exchanged' \subseteq G!Message
    BY <1>12 DEF G!CleanUp, G!Message
  <2> QED  BY <1>12, <2>1, <2>3, <2>4 DEF G!CleanUp
<1>13. CASE G!Raise
  <2>1. state' \in StateType
    <3> HIDE DEF StateType
    <3> QED  BY <1>13, CopyType DEF G!Raise
  <2> QED  BY <1>13, <2>1 DEF G!Raise
<1>14. CASE UNCHANGED G!ragVars
  BY <1>14 DEF G!ragVars
<1> QED
  BY <1>1, <1>2, <1>3, <1>4, <1>5, <1>6, <1>7, <1>8, <1>9, <1>10, <1>11, <1>12, <1>13, <1>14
  DEF G!RagNext

-----------------------------------------------------------------------------
(* The graph: attempts.                                                     *)

\* Attempts are counted from zero in each turn, and the answer that reaches
\* the harvest is verified or the refusal.
Attempted ==
    /\ node \in {"resolve", "summarize", "condense", "plan", "sql", "retrieve", "identity"} =>
          state.iteration = 0
    /\ node \in {"synthesize", "validate"} => state.iteration < Attempts
    /\ node = "validate" => state.draft # "refusal"
    /\ node = "refuse" => state.iteration = Attempts
    /\ G!VerifiedOrRefused

\* Every step keeps the account of the attempts (invoke's loop, node_validator).
LEMMA AttemptedStep ==
    ASSUME G!RagGraphAssumption, RagTypeOK, Attempted, [G!RagNext]_(G!ragVars)
    PROVE  Attempted'
<1> USE DEF RagTypeOK, StateType, Attempted, G!VerifiedOrRefused, G!IsGrounded,
            G!RagGraphAssumption, G!Step
<1>1. CASE G!Ask
  BY <1>1 DEF G!Ask, G!Copy
<1>2. CASE G!ResolveContext
  BY <1>2 DEF G!ResolveContext
<1>3. CASE G!SummarizeHistory
  <2>1. state'.iteration = 0 /\ node' = "condense"
    BY <1>3 DEF G!SummarizeHistory
  <2> QED  BY <2>1
<1>4. CASE G!CondenseQuery
  BY <1>4 DEF G!CondenseQuery
<1>5. CASE G!Plan
  BY <1>5 DEF G!Plan
<1>6. CASE G!RetrieveVectors
  BY <1>6 DEF G!RetrieveVectors
<1>7. CASE G!ResolveIdentity
  BY <1>7 DEF G!ResolveIdentity
<1>8. CASE G!Synthesize
  BY <1>8 DEF G!Synthesize
<1>9. CASE G!Validate
  BY <1>9 DEF G!Validate, G!RefusalDue
<1>10. CASE G!Refuse
  BY <1>10 DEF G!Refuse
<1>11. CASE G!Harvest
  BY <1>11 DEF G!Harvest
<1>12. CASE G!CleanUp
  BY <1>12 DEF G!CleanUp
<1>13. CASE G!Raise
  BY <1>13 DEF G!Raise, G!Copy
<1>14. CASE UNCHANGED G!ragVars
  BY <1>14 DEF G!ragVars
<1> QED
  BY <1>1, <1>2, <1>3, <1>4, <1>5, <1>6, <1>7, <1>8, <1>9, <1>10, <1>11, <1>12, <1>13, <1>14
  DEF G!RagNext

-----------------------------------------------------------------------------
(* The graph: messages.                                                     *)

\* What was exchanged is in the window, in the summary, or among the lost, of
\* the caller's state and of the running copy alike.
Remembered ==
    /\ G!NothingForgotten
    /\ node # "idle" =>
          /\ exchanged \subseteq ToSet(state.messages) \cup state.summary \cup lost
          /\ Len(state.messages) <= Window + 2
    /\ node \notin {"idle", "resolve", "summarize", "clean"} => Len(state.messages) <= Window
    /\ node = "clean" =>
          /\ [role |-> "user", text |-> state.question] \in ToSet(state.messages)
          /\ state.draft # "empty" =>
                [role |-> "assistant", text |-> turn] \in ToSet(state.messages)

\* A node that leaves the messages and the summary as they are.
LEMMA RememberedBySteps ==
    ASSUME Remembered, node \notin {"idle", "summarize", "clean"},
           node' \notin {"idle", "summarize", "clean"}, node = "resolve" => node' = "resolve",
           UNCHANGED <<blackboard, exchanged, lost, state.messages, state.summary>>
    PROVE  Remembered'
  BY DEF Remembered, G!NothingForgotten

\* Every step keeps the messages of the returned turns in the window, in the
\* summary or among the lost.
LEMMA RememberedStep ==
    ASSUME G!RagGraphAssumption, RagTypeOK, Remembered, [G!RagNext]_(G!ragVars)
    PROVE  Remembered'
<1>1. CASE G!Ask
  BY <1>1, SameElements DEF G!Ask, G!Copy, Remembered, G!NothingForgotten
<1>2. CASE G!ResolveContext
  <2>1. /\ node = "resolve" /\ node' = "summarize"
        /\ UNCHANGED <<blackboard, exchanged, lost, state.messages, state.summary>>
    BY <1>2 DEF G!ResolveContext, G!Step, RagTypeOK, StateType
  <2> QED  BY <2>1 DEF Remembered, G!NothingForgotten
<1>3. CASE G!SummarizeHistory
  <2> DEFINE n == Len(state.messages)
             older == SubSeq(state.messages, 1, n - Kept)
             recent == SubSeq(state.messages, n - Kept + 1, n)
  <2>0. /\ node = "summarize" /\ node' = "condense" /\ n \in Nat /\ Window \in Nat
        /\ UNCHANGED <<blackboard, exchanged>>
    BY <1>3, LenProperties DEF G!SummarizeHistory, RagTypeOK, StateType, G!RagGraphAssumption
  <2>1. CASE n <= Window
    BY <1>3, <2>0, <2>1 DEF G!SummarizeHistory, Remembered, G!NothingForgotten
  <2>2. CASE n > Window
    <3>1. Len(recent) <= Window /\ ToSet(state.messages) = ToSet(older) \cup ToSet(recent)
          /\ Len(recent) \in Nat
      BY <2>2, SummarizedMessages, LenProperties
    <3>2. /\ state'.messages = recent
          /\ \/ state'.summary = state.summary \cup ToSet(older) /\ lost' = lost
             \/ state'.summary = state.summary /\ lost' = lost \cup ToSet(older)
      <4>1. \/ state' = [state EXCEPT !.summary = G!Summarized(state, older),
                                      !.messages = recent] /\ lost' = lost
            \/ state' = [state EXCEPT !.messages = recent] /\ lost' = lost \cup ToSet(older)
        BY <1>3, <2>0, <2>2, SameElements DEF G!SummarizeHistory
      <4> HIDE DEF older, recent
      <4> QED  BY <4>1, SameElements DEF G!Summarized, RagTypeOK, StateType
    <3> HIDE DEF n, older, recent
    <3> QED  BY <2>0, <3>1, <3>2 DEF Remembered, G!NothingForgotten
  <2> QED  BY <2>0, <2>1, <2>2
<1>4. CASE G!CondenseQuery \/ G!Plan \/ G!RetrieveVectors \/ G!ResolveIdentity \/ G!Synthesize
           \/ G!Validate \/ G!Refuse
  <2>1. /\ node \notin {"idle", "resolve", "summarize", "clean"}
        /\ node' \notin {"idle", "summarize", "clean"}
        /\ UNCHANGED <<blackboard, exchanged, lost, state.messages, state.summary>>
    BY <1>4 DEF G!CondenseQuery, G!Plan, G!RetrieveVectors, G!ResolveIdentity, G!Synthesize, G!Validate,
                G!Refuse, G!Step, RagTypeOK, StateType
  <2> QED  BY <2>1, RememberedBySteps
<1>5. CASE G!Harvest
  <2>1. /\ node = "harvest" /\ node' = "clean" /\ state'.messages = G!Harvested(state)
        /\ UNCHANGED <<blackboard, exchanged, lost, turn, state.summary, state.question,
                       state.draft>>
    BY <1>5 DEF G!Harvest, G!Step, RagTypeOK, StateType
  <2>2. Len(state.messages) \in Nat /\ Len(G!Harvested(state)) \in Nat /\ Window \in Nat
    BY <2>1, HarvestedMessages, LenProperties DEF RagTypeOK, StateType, G!RagGraphAssumption
  <2> QED  BY <2>1, <2>2, HarvestedMessages DEF Remembered, G!NothingForgotten
<1>6. CASE G!CleanUp
  <2>1. /\ node = "clean" /\ node' = "idle" /\ UNCHANGED lost
        /\ blackboard'.messages = state.messages /\ blackboard'.summary = state.summary
        /\ exchanged' = exchanged \cup {[role |-> "user", text |-> state.question]}
              \cup (IF state.draft = "empty" THEN {}
                    ELSE {[role |-> "assistant", text |-> turn]})
    BY <1>6 DEF G!CleanUp, G!Board, RagTypeOK, StateType
  <2> QED  BY <2>1, SameElements DEF Remembered, G!NothingForgotten
<1>7. CASE G!Raise
  BY <1>7 DEF G!Raise, Remembered, G!NothingForgotten
<1>8. CASE UNCHANGED G!ragVars
  BY <1>8 DEF G!ragVars, Remembered, G!NothingForgotten
<1> QED  BY <1>1, <1>2, <1>3, <1>4, <1>5, <1>6, <1>7, <1>8 DEF G!RagNext

-----------------------------------------------------------------------------
(* The graph: theorems.                                                     *)

RagInv == RagTypeOK /\ Attempted /\ Remembered

\* A session of the graph begins in the invariant.
LEMMA RagInvInit ==
    ASSUME G!RagGraphAssumption, G!RagInit PROVE RagInv
<1>1. blackboard \in BoardType /\ blackboard.messages = <<>> /\ blackboard.summary = {}
  BY EmptySeq DEF G!RagInit, G!EmptyBoard, BoardType, Memory
<1>2. state \in StateType /\ state.iteration = 0
  <2>1. 0 \in 0..Turns
    BY DEF G!RagGraphAssumption
  <2> QED  BY <1>1, <2>1, CopyType DEF G!RagInit, G!Copy
<1>3. RagTypeOK
  BY <1>1, <1>2 DEF G!RagInit, RagTypeOK, Node, G!RagGraphAssumption
<1>4. Attempted
  BY <1>2 DEF G!RagInit, Attempted, G!VerifiedOrRefused, G!RagGraphAssumption
<1>5. Remembered
  BY <1>1, EmptySeq DEF G!RagInit, Remembered, G!NothingForgotten, G!RagGraphAssumption
<1> QED  BY <1>3, <1>4, <1>5 DEF RagInv

\* The inductive invariant of a graph session.
LEMMA RagInvAlways == Spec => [](part = "graph" => RagInv)
<1>1. Init => (part = "graph" => RagInv)
  BY RagInvInit, BoundsAssumption DEF Init
<1>2. (part = "graph" => RagInv) /\ [Next]_vars => (part = "graph" => RagInv)'
  BY Parts, BoundsAssumption, RagTyping, AttemptedStep, RememberedStep DEF RagInv
<1> QED  BY <1>1, <1>2, PTL DEF Spec

\* For any number of attempts, an answer is returned only if the validation
\* accepted it, and the refusal only after all attempts (invoke, node_validator,
\* node_fallback_refusal).
THEOREM VerifiedOrRefusedAlways == Spec => []VerifiedOrRefused
<1>1. (part = "graph" => RagInv) => VerifiedOrRefused
  BY DEF RagInv, Attempted, VerifiedOrRefused
<1> QED  BY <1>1, RagInvAlways, PTL

\* For any number of turns and any window, no message of a turn that returned
\* is forgotten unless the summarizer failed, and the window stays bounded
\* (node_summarize_history, node_state_harvester).
THEOREM NothingForgottenAlways == Spec => []NothingForgotten
<1>1. (part = "graph" => RagInv) => NothingForgotten
  BY DEF RagInv, Remembered, NothingForgotten
<1> QED  BY <1>1, RagInvAlways, PTL

-----------------------------------------------------------------------------
(* The working memory: whom it names.                                       *)

Ids == [B!Key -> B!Maybe]
MemoryType ==
    [scope : {"INDIVIDUAL", "COLLECTION", "AGGREGATE", "SYSTEM_META"}, entities : Ids,
     names : SUBSET Person, anchor : {<<>>} \cup (B!Key \X Person), collection : SUBSET Person]

\* Everything that a memory could bind names persons of the set.
Names(m, persons) ==
    /\ \A k \in B!Key : m.entities[k] \in persons \cup {None}
    /\ m.collection \subseteq persons
    /\ m.anchor # <<>> => m.anchor[2] \in persons

BoardTypeOK ==
    /\ memory \in MemoryType
    /\ saved \in MemoryType \X SUBSET Person
    /\ stage \in {"idle", "plan", "statement"}
    /\ query \in Ids
    /\ met \subseteq Person

\* No identifier is kept, saved or asked for that the topic has not met.
OnlyMet ==
    /\ Names(memory, met)
    /\ Names(saved[1], saved[2])
    /\ stage # "idle" => B!Persons(query) \subseteq met
    /\ B!NothingBoundFromBefore

BoardInv == BoardTypeOK /\ OnlyMet

\* What a topic shift leaves in working memory names nobody.
LEMMA EvictedNames ==
    ASSUME NEW m, NEW scope \in B!Shift, NEW persons
    PROVE  B!Evicted(m, scope) \in MemoryType /\ Names(B!Evicted(m, scope), persons)
  BY DEF B!Evicted, B!NoMemory, B!Shift, B!Maybe, B!Key, MemoryType, Ids, Names

\* The rows of a statement bring in persons that the statement found.
LEMMA HarvestedNames ==
    ASSUME B!BlackboardAssumption, NEW m \in MemoryType, NEW persons, Names(m, persons),
           NEW rows \in Seq(Person), rows # <<>>, NEW columns \in SUBSET (B!Key \cup {"name"})
    PROVE  /\ B!HarvestedRows(m, rows, columns) \in MemoryType
           /\ Names(B!HarvestedRows(m, rows, columns), persons \cup B!Distinct(rows, columns))
<1> DEFINE key == B!PrimaryKey(columns)
           scope == B!ScopeOfRows(m, rows, columns)
           named == [m EXCEPT !.scope = scope,
                         !.names = @ \cup (IF "name" \in columns THEN ToSet(rows) ELSE {})]
           anchored == {p \in ToSet(rows) : m.anchor = <<key, p>>}
           many == [named EXCEPT
                !.collection = IF key = "none" THEN @ ELSE ToSet(rows),
                !.entities = [k \in B!Key |->
                                 IF k = key /\ anchored # {} THEN m.anchor[2] ELSE @[k]]]
           one == [named EXCEPT
                !.collection = {},
                !.entities = [k \in B!Key |-> IF k \in columns THEN Last(rows) ELSE @[k]],
                !.anchor = IF key = "none" THEN @ ELSE <<key, Last(rows)>>]
<1>1. ToSet(rows) \subseteq Person /\ Last(rows) \in ToSet(rows) /\ Last(rows) \in Person
  BY LastIsElement, ElementOfSeq, LenProperties DEF ToSet
<1>2. scope \in {"INDIVIDUAL", "COLLECTION"}
  BY DEF B!ScopeOfRows
<1>3. /\ key \in {"customer_id", "bvn", "none"}
      /\ key # "none" => columns # {} /\ key \in B!Key
      /\ columns # {} => B!Distinct(rows, columns) = ToSet(rows)
  BY DEF B!PrimaryKey, B!Distinct, B!Key, B!ToSet, ToSet
<1> HIDE DEF key, scope
<1>4. named \in MemoryType /\ Names(named, persons)
      /\ named.entities = m.entities /\ named.anchor = m.anchor
      /\ named.collection = m.collection
  BY <1>1, <1>2 DEF MemoryType, Names
<1>5. B!HarvestedRows(m, rows, columns) = IF scope = "COLLECTION" THEN many ELSE one
  BY DEF B!HarvestedRows, key, scope, B!ToSet, ToSet, B!Last, Last
<1> HIDE DEF named
<1>6. many \in MemoryType /\ Names(many, persons \cup B!Distinct(rows, columns))
  <2> DEFINE entities == [k \in B!Key |-> IF k = key /\ anchored # {} THEN m.anchor[2]
                                          ELSE named.entities[k]]
             collection == IF key = "none" THEN named.collection ELSE ToSet(rows)
  <2>1. many = [named EXCEPT !.collection = collection, !.entities = entities]
    OBVIOUS
  <2>2. anchored # {} => m.anchor[2] \in ToSet(rows)
    OBVIOUS
  <2>3. /\ entities \in Ids
        /\ \A k \in B!Key : entities[k] \in persons \cup B!Distinct(rows, columns) \cup {None}
    <3>1. ASSUME NEW k \in B!Key, k = key, anchored # {}
          PROVE  entities[k] = m.anchor[2] /\ entities[k] \in Person
                 /\ entities[k] \in B!Distinct(rows, columns)
      <4>1. key # "none"
        BY <3>1, <1>3 DEF B!Key
      <4>2. entities[k] = m.anchor[2]
        BY <3>1
      <4> QED  BY <1>1, <1>3, <2>2, <3>1, <4>1, <4>2
    <3>2. ASSUME NEW k \in B!Key, ~(k = key /\ anchored # {})
          PROVE  entities[k] = named.entities[k]
      BY <3>2
    <3>3. named.entities \in Ids
          /\ \A k \in B!Key : named.entities[k] \in persons \cup {None}
      BY <1>4 DEF MemoryType, Names
    <3>4. DOMAIN entities = B!Key /\ entities = [k \in B!Key |-> entities[k]]
      OBVIOUS
    <3>5. \A k \in B!Key : /\ entities[k] \in B!Maybe
                          /\ entities[k] \in persons \cup B!Distinct(rows, columns) \cup {None}
      <4> HIDE DEF entities
      <4> QED  BY <3>1, <3>2, <3>3 DEF Ids, B!Maybe
    <3> HIDE DEF entities
    <3> QED  BY <3>4, <3>5 DEF Ids
  <2>4. collection \subseteq Person /\ collection \subseteq persons \cup B!Distinct(rows, columns)
    BY <1>1, <1>3, <1>4 DEF MemoryType, Names
  <2> HIDE DEF entities, collection, many
  <2> QED  BY <1>4, <2>1, <2>3, <2>4 DEF MemoryType, Names
<1>7. one \in MemoryType /\ Names(one, persons \cup B!Distinct(rows, columns))
  <2> DEFINE entities == [k \in B!Key |-> IF k \in columns THEN Last(rows)
                                          ELSE named.entities[k]]
             anchor == IF key = "none" THEN named.anchor ELSE <<key, Last(rows)>>
  <2>1. one = [named EXCEPT !.collection = {}, !.entities = entities, !.anchor = anchor]
    OBVIOUS
  <2>2. \A k \in B!Key : k \in columns => B!Distinct(rows, columns) = ToSet(rows)
    BY <1>3
  <2>3. /\ entities \in Ids
        /\ \A k \in B!Key : entities[k] \in persons \cup B!Distinct(rows, columns) \cup {None}
    BY <1>1, <1>4, <2>2 DEF MemoryType, Names, Ids, B!Maybe
  <2>4. /\ anchor \in {<<>>} \cup (B!Key \X Person)
        /\ anchor # <<>> => anchor[2] \in persons \cup B!Distinct(rows, columns)
    BY <1>1, <1>3, <1>4 DEF MemoryType, Names
  <2> HIDE DEF entities, anchor, one
  <2> QED  BY <1>4, <2>1, <2>3, <2>4 DEF MemoryType, Names
<1> QED  BY <1>5, <1>6, <1>7

\* Between two turns nothing is saved and nothing is asked.
LEMMA NoTurnNames ==
    /\ B!NoTurn \in MemoryType \X SUBSET Person
    /\ Names(B!NoTurn[1], B!NoTurn[2])
    /\ B!NoQuery \in Ids
  BY DEF B!NoTurn, B!NoQuery, B!NoMemory, MemoryType, Names, Ids, B!Key, B!Maybe

\* So do the identifiers in the question and the answer.
LEMMA ExtractedNames ==
    ASSUME B!BlackboardAssumption, NEW m \in MemoryType, NEW persons, Names(m, persons),
           NEW ids \in Ids
    PROVE  /\ B!Extracted(m, ids) \in MemoryType
           /\ Names(B!Extracted(m, ids), persons \cup B!Persons(ids))
<1> DEFINE new == {k \in B!Key : /\ ids[k] # None /\ m.entities[k] = None
                                 /\ k = "customer_id" => m.scope # "COLLECTION"}
<1>1. CASE m.scope \in B!Shift
  BY <1>1 DEF B!Extracted, Names
<1>2. CASE m.scope \notin B!Shift
  <2>1. \A k \in new : ids[k] \in Person /\ ids[k] \in B!Persons(ids)
    BY DEF Ids, B!Maybe, B!Persons
  <2>2. B!Extracted(m, ids) =
          [m EXCEPT !.entities = [k \in B!Key |-> IF k \in new THEN ids[k] ELSE @[k]],
                    !.anchor = IF "customer_id" \in new
                               THEN <<"customer_id", ids["customer_id"]>> ELSE @]
    BY <1>2 DEF B!Extracted
  <2>3. "customer_id" \in B!Key /\ new \subseteq B!Key
    BY DEF B!Key
  <2> DEFINE entities == [k \in B!Key |-> IF k \in new THEN ids[k] ELSE m.entities[k]]
             anchor == IF "customer_id" \in new
                       THEN <<"customer_id", ids["customer_id"]>> ELSE m.anchor
  <2>4. B!Extracted(m, ids) = [m EXCEPT !.entities = entities, !.anchor = anchor]
    BY <2>2
  <2>5. /\ entities \in Ids
        /\ \A k \in B!Key : entities[k] \in persons \cup B!Persons(ids) \cup {None}
    <3> HIDE DEF new
    <3> QED  BY <2>1 DEF MemoryType, Names, Ids, B!Maybe
  <2>6. /\ anchor \in {<<>>} \cup (B!Key \X Person)
        /\ anchor # <<>> => anchor[2] \in persons \cup B!Persons(ids)
    <3> HIDE DEF new
    <3> QED  BY <2>1, <2>3 DEF MemoryType, Names
  <2> HIDE DEF entities, anchor
  <2> QED  BY <2>4, <2>5, <2>6 DEF MemoryType, Names
<1> QED  BY <1>1, <1>2

\* Every step of a turn binds, keeps and asks for persons that were met only.
LEMMA BoardInvStep ==
    ASSUME B!BlackboardAssumption, BoardInv, [B!BoardNext]_(B!boardVars)
    PROVE  BoardInv'
<1> USE DEF BoardInv, BoardTypeOK, OnlyMet, B!NothingBoundFromBefore
<1>1. CASE B!Condense
  <2>1. /\ query' \in Ids /\ stage' = "plan" /\ saved' = <<memory, met>>
        /\ B!Persons(query)' \subseteq Person
    BY <1>1 DEF B!Condense, Ids, B!Persons, B!Maybe
  <2>2. CASE memory' = memory /\ met' = met \cup B!Persons(query')
    BY <2>1, <2>2 DEF Names, B!Persons
  <2>3. CASE (\E scope \in B!Shift : memory' = B!Evicted(memory, scope))
             /\ met' = B!Persons(query')
    BY <2>1, <2>3, EvictedNames DEF B!Persons
  <2> QED  BY <1>1, <2>2, <2>3 DEF B!Condense
<1>2. CASE B!Bind
  <2> DEFINE bvn == IF memory.entities["bvn"] # None THEN memory.entities["bvn"] ELSE query["bvn"]
             bridged == [memory EXCEPT !.entities["customer_id"] = bvn,
                                       !.anchor = <<"customer_id", bvn>>]
  <2>1. /\ stage = "plan" /\ stage' = "statement" /\ bound' = B!Bindings(memory')
        /\ UNCHANGED <<saved, query, met>>
        /\ memory' = memory \/ (bvn # None /\ memory' = bridged)
    BY <1>2 DEF B!Bind
  <2>2. bvn # None => bvn \in met
    BY <2>1 DEF Names, MemoryType, Ids, B!Persons, B!Maybe, B!Key
  <2>3. bvn # None => bridged \in MemoryType /\ Names(bridged, met)
    <3> HIDE DEF bvn
    <3> QED  BY <2>2 DEF Names, MemoryType, Ids, B!Maybe, B!Key
  <2>4. memory' \in MemoryType /\ Names(memory', met)
    BY <2>1, <2>3
  <2>5. B!Bindings(memory') \subseteq met
    BY <2>4 DEF B!Bindings, Names, B!Persons
  <2> QED  BY <2>1, <2>4, <2>5 DEF Names
<1>3. CASE B!HarvestStatement
  <2>1. PICK rows \in B!BoundedSeq(Person, 2), columns \in SUBSET (B!Key \cup {"name"}),
             said \in B!Maybe :
          LET ids == [query EXCEPT !["customer_id"] = IF @ # None THEN @ ELSE said]
              first == IF rows = <<>> THEN memory ELSE B!HarvestedRows(memory, rows, columns)
          IN /\ memory' = B!Extracted(first, ids)
             /\ met' = met \cup B!Distinct(rows, columns) \cup B!Persons(ids)
    BY <1>3 DEF B!HarvestStatement
  <2> DEFINE ids == [query EXCEPT !["customer_id"] = IF @ # None THEN @ ELSE said]
             first == IF rows = <<>> THEN memory ELSE B!HarvestedRows(memory, rows, columns)
  <2>2. /\ stage' = "idle" /\ saved' = B!NoTurn /\ query' = B!NoQuery
    BY <1>3 DEF B!HarvestStatement, B!EndsAt
  <2>3. ids \in Ids /\ B!Persons(ids) \subseteq Person
    BY DEF Ids, B!Maybe, B!Persons
  <2>4. rows \in Seq(Person) /\ B!Distinct(rows, columns) \subseteq Person
    <3>1. PICK n \in 0..2 : rows \in [1..n -> Person]
      BY DEF B!BoundedSeq, B!SeqOf
    <3>2. rows \in Seq(Person) /\ B!ToSet(rows) \subseteq Person
      <4>1. n \in Nat /\ Seq(Person) = UNION {[1..k -> Person] : k \in Nat}
        BY SeqDef
      <4>2. rows \in Seq(Person)
        BY <3>1, <4>1, Zenon
      <4> QED  BY <3>1, <4>2 DEF B!ToSet
    <3> QED  BY <3>2 DEF B!Distinct
  <2>5. first \in MemoryType /\ Names(first, met \cup B!Distinct(rows, columns))
    <3>1. CASE rows = <<>>
      BY <3>1 DEF Names
    <3>2. CASE rows # <<>>
      BY <2>4, <3>2, HarvestedNames
    <3> QED  BY <3>1, <3>2
  <2> HIDE DEF ids, first
  <2>6. /\ memory' = B!Extracted(first, ids)
        /\ met' = met \cup B!Distinct(rows, columns) \cup B!Persons(ids)
    BY <2>1 DEF ids, first
  <2>7. memory' \in MemoryType /\ Names(memory', met')
    BY <2>3, <2>5, <2>6, ExtractedNames
  <2> QED  BY <2>2, <2>3, <2>4, <2>6, <2>7, NoTurnNames
<1>4. CASE B!HarvestText
  <2>1. PICK said \in B!Maybe :
          LET ids == [query EXCEPT !["customer_id"] = IF @ # None THEN @ ELSE said]
          IN memory' = B!Extracted(memory, ids) /\ met' = met \cup B!Persons(ids)
    BY <1>4 DEF B!HarvestText
  <2> DEFINE ids == [query EXCEPT !["customer_id"] = IF @ # None THEN @ ELSE said]
  <2>2. /\ stage' = "idle" /\ saved' = B!NoTurn /\ query' = B!NoQuery
    BY <1>4 DEF B!HarvestText, B!EndsAt
  <2>3. ids \in Ids /\ B!Persons(ids) \subseteq Person
    BY DEF Ids, B!Maybe, B!Persons
  <2> HIDE DEF ids
  <2>4. memory' = B!Extracted(memory, ids) /\ met' = met \cup B!Persons(ids)
    BY <2>1 DEF ids
  <2>5. memory' \in MemoryType /\ Names(memory', met')
    BY <2>3, <2>4, ExtractedNames
  <2> QED  BY <2>2, <2>3, <2>4, <2>5, NoTurnNames
<1>5. CASE B!HarvestMeta
  <2>1. "SYSTEM_META" \in B!Shift
    BY DEF B!Shift
  <2>2. /\ memory' = B!Evicted(memory, "SYSTEM_META") /\ met' = {}
        /\ stage' = "idle" /\ saved' = B!NoTurn /\ query' = B!NoQuery
    BY <1>5 DEF B!HarvestMeta, B!EndsAt
  <2> QED  BY <2>1, <2>2, EvictedNames, NoTurnNames
<1>6. CASE B!TurnFails
  <2>1. /\ stage' = "idle" /\ saved' = B!NoTurn /\ query' = B!NoQuery
        /\ \/ memory' = memory /\ met' = met
           \/ memory' = saved[1] /\ met' = saved[2]
    BY <1>6 DEF B!TurnFails, B!EndsAt
  <2> QED  BY <2>1, NoTurnNames DEF Names
<1>7. CASE UNCHANGED B!boardVars
  BY <1>7 DEF B!boardVars, Names
<1> QED  BY <1>1, <1>2, <1>3, <1>4, <1>5, <1>6, <1>7 DEF B!BoardNext

\* However many turns shift, fail or are taken back, a statement is bound only
\* to persons met since the last topic shift (condense, evict_for_topic_shift,
\* harvest).
THEOREM NothingBoundFromBeforeAlways == Spec => []NothingBoundFromBefore
<1> DEFINE Inv == part = "blackboard" => BoardInv
<1>1. Init => Inv
  BY BoundsAssumption DEF Init, B!BoardInit, BoardInv, BoardTypeOK, OnlyMet, Names,
     MemoryType, Ids, B!NoMemory, B!NoQuery, B!NoTurn, B!Key, B!Maybe, B!NothingBoundFromBefore
<1>2. Inv /\ [Next]_vars => Inv'
  BY Parts, BoardInvStep, BoundsAssumption
<1>3. Inv => NothingBoundFromBefore
  BY DEF BoardInv, OnlyMet, NothingBoundFromBefore
<1> QED  BY <1>1, <1>2, <1>3, PTL DEF Spec
=============================================================================
