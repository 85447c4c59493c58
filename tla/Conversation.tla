---------------------------- MODULE Conversation ----------------------------
(***************************************************************************)
(* The turns of one chat session: execute_chat_query and                   *)
(* delete_chat_session of app/routes/chat.py, and the working memory that  *)
(* SessionContextManager keeps in three tiers (Redis, the chat_sessions    *)
(* row, a dictionary in each server process) around the query stream of    *)
(* the orchestrator.  A memory is the set of turns that have updated it;   *)
(* it is a Python object that the dictionary and the turns may share, so   *)
(* objects have identities: an object is named by the turn that made it.   *)
(***************************************************************************)
EXTENDS Naturals, FiniteSets

CONSTANTS
    Proc,           \* server processes
    Turn,           \* chat queries of the session
    None,           \* no object, no memory
    MaxFaults,      \* bound on crashes and on errors of Redis or PostgreSQL
    MaxDeletions    \* bound on deletions of the session

ASSUME ConversationAssumption ==
    /\ None \notin Turn
    /\ \A m \in SUBSET Turn : None # m
    /\ MaxFaults \in Nat
    /\ MaxDeletions \in Nat

VARIABLES
    session,    \* the ChatSession row and its working_memory column
    asked,      \* turns whose user message is stored
    answered,   \* turns whose assistant message is stored
    redis,      \* session_memory:{id}
    heap,       \* the memory objects
    cache,      \* _IN_MEMORY_CACHE of each process
    client,     \* _redis_client of each process, looked for once
    turn,       \* the turns being served
    faults, deletions

rows == <<session, asked, answered>>
objects == <<heap, cache>>
bounds == <<faults, deletions>>
vars == <<rows, redis, objects, client, turn, bounds>>

Memory == SUBSET Turn
Pc == {"idle", "create", "ask", "refresh", "redis", "connect", "row", "warm",
       "answer", "publish", "persist", "reply", "done", "failed", "lost"}
NoSession == [live |-> FALSE, memory |-> None]

Init ==
    /\ session = NoSession
    /\ asked = {}
    /\ answered = {}
    /\ redis = None
    /\ heap = [t \in Turn |-> {}]
    /\ cache = [p \in Proc |-> None]
    /\ client = [p \in Proc |-> "unset"]
    /\ turn \in [Turn -> [pc : {"idle"}, proc : Proc, obj : {None},
                          db : {TRUE}]]
    /\ faults = 0
    /\ deletions = 0

-----------------------------------------------------------------------------
(* Helpers.                                                                *)

Fault == faults < MaxFaults /\ faults' = faults + 1

Goto(t, pc) == turn' = [turn EXCEPT ![t].pc = pc]

Running(t) == turn[t].pc \notin {"idle", "done", "failed", "lost"}

HasRedis(t) == client[turn[t].proc] = "redis"

\* _write_to_redis of memory m by turn t: errors are logged and swallowed.
WriteRedis(t, m) ==
    \/ HasRedis(t) /\ redis' = m /\ UNCHANGED faults
    \/ ~HasRedis(t) /\ UNCHANGED <<redis, faults>>
    \/ HasRedis(t) /\ Fault /\ UNCHANGED redis

\* The process of turn t remembers object o.
Remember(t, o) == cache' = [cache EXCEPT ![turn[t].proc] = o]

\* Turn t goes on with a new object that holds memory m.
Load(t, m, pc) ==
    /\ heap' = [heap EXCEPT ![t] = m]
    /\ turn' = [turn EXCEPT ![t].obj = t, ![t].pc = pc]

\* The row exists and has a memory.
Stored == session.live /\ session.memory # None

\* The object the process remembers, shared with whoever uses it, or a fresh
\* one; db says whether the turn's database session is still usable.
UseLocal(t, db) ==
    LET known == cache[turn[t].proc] IN
    IF known # None
    THEN /\ turn' = [turn EXCEPT ![t].obj = known, ![t].db = db,
                                 ![t].pc = "answer"]
         /\ UNCHANGED <<heap, cache>>
    ELSE /\ turn' = [turn EXCEPT ![t].obj = t, ![t].db = db, ![t].pc = "answer"]
         /\ heap' = [heap EXCEPT ![t] = {}]
         /\ Remember(t, t)

-----------------------------------------------------------------------------
(* Mutants: the plausible mistakes the properties are tested against.      *)

\* delete_session that leaves the row's memory column behind.
DeleteSession_KeepsMemory ==
    /\ session.live
    /\ deletions < MaxDeletions
    /\ deletions' = deletions + 1
    /\ session' = [session EXCEPT !.live = FALSE]
    /\ asked' = {}
    /\ answered' = {}
    /\ UNCHANGED <<redis, objects, client, turn, faults>>

\* get_memory that looks into the dictionary before the row.
ReadLocal_BeforeRow(t) ==
    /\ turn[t].pc = "row"
    /\ cache[turn[t].proc] # None \/ ~Stored
    /\ UseLocal(t, TRUE)
    /\ UNCHANGED <<rows, redis, client, bounds>>

\* save_memory that leaves Redis to the next reader.
Publish_Skipped(t) ==
    /\ turn[t].pc = "publish"
    /\ Goto(t, "persist")
    /\ UNCHANGED <<rows, redis, objects, client, bounds>>

\* save_memory called without the database session.
Persist_Skipped(t) ==
    /\ turn[t].pc = "persist"
    /\ Goto(t, "reply")
    /\ UNCHANGED <<rows, redis, objects, client, bounds>>

-----------------------------------------------------------------------------
(* execute_chat_query: the session row and the user message.               *)

\* get_or_create_session: the lookup.
Arrive(t) ==
    /\ turn[t].pc = "idle"
    /\ Goto(t, IF session.live THEN "ask" ELSE "create")
    /\ UNCHANGED <<rows, redis, objects, client, bounds>>

\* The insert, under the id the client sent; a turn that created the row in
\* between makes it fail on the primary key.
Create(t) ==
    /\ turn[t].pc = "create"
    /\ IF session.live
       THEN Goto(t, "failed") /\ UNCHANGED session
       ELSE Goto(t, "ask") /\ session' = [NoSession EXCEPT !.live = TRUE]
    /\ UNCHANGED <<asked, answered, redis, objects, client, bounds>>

\* add_message("user"): the foreign key demands the session row.
Ask(t) ==
    /\ turn[t].pc = "ask"
    /\ IF session.live
       THEN Goto(t, "refresh") /\ asked' = asked \cup {t}
       ELSE Goto(t, "failed") /\ UNCHANGED asked
    /\ UNCHANGED <<session, answered, redis, objects, client, bounds>>

\* The committed message is read back, which raises if it is gone.
Refresh(t) ==
    /\ turn[t].pc = "refresh"
    /\ Goto(t, IF t \in asked THEN "redis" ELSE "failed")
    /\ UNCHANGED <<rows, redis, objects, client, bounds>>

-----------------------------------------------------------------------------
(* get_memory.                                                             *)

\* The first turn of a process marks the client as looked for, and only then
\* connects; to the turns that come in between Redis is unavailable.
LookForRedis(t) ==
    /\ turn[t].pc = "redis"
    /\ client[turn[t].proc] = "unset"
    /\ client' = [client EXCEPT ![turn[t].proc] = "looking"]
    /\ Goto(t, "connect")
    /\ UNCHANGED <<rows, redis, objects, bounds>>

Connect(t) ==
    /\ turn[t].pc = "connect"
    /\ \E found \in {"redis", "none"} :
          /\ client' = [client EXCEPT ![turn[t].proc] = found]
          /\ IF found = "none" THEN Fault ELSE UNCHANGED faults
    /\ Goto(t, "redis")
    /\ UNCHANGED <<rows, redis, objects, deletions>>

ReadRedis(t) ==
    /\ turn[t].pc = "redis"
    /\ HasRedis(t) /\ redis # None
    /\ Load(t, redis, "answer")
    /\ Remember(t, t)
    /\ UNCHANGED <<rows, redis, client, bounds>>

\* Not connected, no value, or an error.
MissRedis(t) ==
    /\ turn[t].pc = "redis"
    /\ client[turn[t].proc] # "unset"
    /\ IF HasRedis(t) /\ redis # None THEN Fault ELSE UNCHANGED faults
    /\ Goto(t, "row")
    /\ UNCHANGED <<rows, redis, objects, client, deletions>>

ReadRow(t) ==
    /\ turn[t].pc = "row"
    /\ Stored
    /\ Load(t, session.memory, "warm")
    /\ UNCHANGED <<rows, redis, cache, client, bounds>>

\* The value read from the row is put back into Redis.
Warm(t) ==
    /\ turn[t].pc = "warm"
    /\ WriteRedis(t, heap[turn[t].obj])
    /\ Remember(t, turn[t].obj)
    /\ Goto(t, "answer")
    /\ UNCHANGED <<rows, heap, client, deletions>>

\* No row, no memory in it, or an error, after which the database session may
\* refuse every statement.
ReadLocal(t) ==
    /\ turn[t].pc = "row"
    /\ \/ ~Stored /\ UseLocal(t, TRUE) /\ UNCHANGED faults
       \/ Fault /\ \E db \in BOOLEAN : UseLocal(t, db)
    /\ UNCHANGED <<rows, redis, client, deletions>>

-----------------------------------------------------------------------------
(* The answer, and save_memory.                                            *)

\* A strategy, the catalog or the language model raises.
AnswerFails(t) ==
    /\ turn[t].pc = "answer"
    /\ Goto(t, "failed")
    /\ UNCHANGED <<rows, redis, objects, client, bounds>>

\* The answer is complete: harvest changes the object in place, whoever
\* else holds it, and the process remembers it.
Harvest(t) ==
    /\ turn[t].pc = "answer"
    /\ heap' = [heap EXCEPT ![turn[t].obj] = heap[turn[t].obj] \cup {t}]
    /\ Remember(t, turn[t].obj)
    /\ Goto(t, "publish")
    /\ UNCHANGED <<rows, redis, client, bounds>>

Publish(t) ==
    /\ turn[t].pc = "publish"
    /\ WriteRedis(t, heap[turn[t].obj])
    /\ Goto(t, "persist")
    /\ UNCHANGED <<rows, objects, client, deletions>>

\* The row, if it is still there.
Persist(t) ==
    /\ turn[t].pc = "persist"
    /\ turn[t].db
    /\ session' = IF session.live
                  THEN [session EXCEPT !.memory = heap[turn[t].obj]] ELSE session
    /\ Goto(t, "reply")
    /\ UNCHANGED <<asked, answered, redis, objects, client, bounds>>

\* The error is swallowed, but the database session may stay unusable.
PersistFails(t) ==
    /\ turn[t].pc = "persist"
    /\ \/ ~turn[t].db /\ Goto(t, "reply") /\ UNCHANGED faults
       \/ /\ turn[t].db
          /\ Fault
          /\ \E db \in BOOLEAN :
                turn' = [turn EXCEPT ![t].db = db, ![t].pc = "reply"]
    /\ UNCHANGED <<rows, redis, objects, client, deletions>>

\* add_message("assistant").
Reply(t) ==
    /\ turn[t].pc = "reply"
    /\ IF session.live /\ turn[t].db
       THEN Goto(t, "done") /\ answered' = answered \cup {t}
       ELSE Goto(t, "failed") /\ UNCHANGED answered
    /\ UNCHANGED <<session, asked, redis, objects, client, bounds>>

\* The client of a streamed answer goes away: the generator is closed at the
\* next event it yields, and nothing below that point runs.  A turn that is
\* not streamed simply never takes this step.
Disconnect(t) ==
    /\ turn[t].pc \in {"redis", "answer", "reply"}
    /\ Goto(t, "lost")
    /\ UNCHANGED <<rows, redis, objects, client, bounds>>

-----------------------------------------------------------------------------
(* What happens around the turns.                                          *)

\* delete_chat_session: the row, and the messages with it.  The memory in
\* Redis and in the processes stays.
DeleteSession ==
    /\ session.live
    /\ deletions < MaxDeletions
    /\ deletions' = deletions + 1
    /\ session' = NoSession
    /\ asked' = {}
    /\ answered' = {}
    /\ UNCHANGED <<redis, objects, client, turn, faults>>

\* The Redis key expires, or is evicted.
Expire ==
    /\ redis # None
    /\ redis' = None
    /\ UNCHANGED <<rows, objects, client, turn, bounds>>

\* A server process stops: its turns, its dictionary and its client are lost.
ProcDies(p) ==
    /\ Fault
    /\ cache' = [cache EXCEPT ![p] = None]
    /\ client' = [client EXCEPT ![p] = "unset"]
    /\ turn' = [t \in Turn |-> IF turn[t].proc = p /\ Running(t)
                               THEN [turn[t] EXCEPT !.pc = "lost"] ELSE turn[t]]
    /\ UNCHANGED <<rows, redis, heap, deletions>>

-----------------------------------------------------------------------------
(* Specification.                                                          *)

TurnStep(t) ==
    \/ Arrive(t)    \/ Create(t)  \/ Ask(t) \/ Refresh(t)
    \/ LookForRedis(t) \/ Connect(t)
    \/ ReadRedis(t) \/ MissRedis(t) \/ ReadRow(t) \/ Warm(t) \/ ReadLocal(t)
    \/ AnswerFails(t) \/ Harvest(t)
    \/ Publish(t)   \/ Persist(t) \/ PersistFails(t) \/ Reply(t)
    \/ Disconnect(t)

Next ==
    \/ \E t \in Turn : TurnStep(t)
    \/ DeleteSession
    \/ Expire
    \/ \E p \in Proc : ProcDies(p)

Spec == Init /\ [][Next]_vars

-----------------------------------------------------------------------------
(* Type invariant.                                                         *)

\* The values of every variable; a session that does not exist keeps no
\* memory and no messages (chat_repository.delete_session and its cascades).
TypeOK ==
    /\ session \in [live : BOOLEAN, memory : Memory \cup {None}]
    /\ ~session.live => session = NoSession /\ asked = {} /\ answered = {}
    /\ asked \in SUBSET Turn
    /\ answered \in SUBSET Turn
    /\ redis \in Memory \cup {None}
    /\ heap \in [Turn -> Memory]
    /\ cache \in [Proc -> Turn \cup {None}]
    /\ client \in [Proc -> {"unset", "looking", "redis", "none"}]
    /\ turn \in [Turn -> [pc : Pc, proc : Proc, obj : Turn \cup {None},
                          db : BOOLEAN]]
    /\ faults \in 0..MaxFaults
    /\ deletions \in 0..MaxDeletions
=============================================================================
