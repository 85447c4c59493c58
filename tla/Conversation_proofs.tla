------------------------- MODULE Conversation_proofs -------------------------
(***************************************************************************)
(* Proofs about MCConversation, for any number of turns and processes and  *)
(* any bounds on faults and deletions.                                     *)
(***************************************************************************)
EXTENDS MCConversation, Integers, FiniteSetTheorems, TLAPS

Served == [pc : Pc, proc : Proc, obj : Turn \cup {None}, db : BOOLEAN]

-----------------------------------------------------------------------------
(* Type correctness.  A turn that has loaded a memory holds an object.     *)

Holding == {"warm", "answer", "publish", "persist", "reply"}

Holds(t) == turn[t].pc \in Holding => turn[t].obj \in Turn

TypeInv == TypeOK /\ \A t \in Turn : Holds(t)

\* The initial state is well typed.
LEMMA InitType == Init => TypeInv
<1> SUFFICES ASSUME Init PROVE TypeInv
  OBVIOUS
<1>1. TypeOK
  <2>1. turn \in [Turn -> [pc : Pc, proc : Proc, obj : Turn \cup {None}, db : BOOLEAN]]
    BY DEF Init, Pc
  <2>2. faults \in 0..MaxFaults /\ deletions \in 0..MaxDeletions
    BY ConversationAssumption DEF Init
  <2>3. session \in [live : BOOLEAN, memory : Memory \cup {None}]
    BY DEF Init, NoSession
  <2> QED  BY <2>1, <2>2, <2>3 DEF Init, TypeOK, Memory
<1>2. \A t \in Turn : Holds(t)
  BY DEF Init, Holds, Holding
<1> QED  BY <1>1, <1>2 DEF TypeInv

\* What is known of the variables in every state.
LEMMA Typed ==
    ASSUME TypeInv
    PROVE  /\ session \in [live : BOOLEAN, memory : Memory \cup {None}]
           /\ asked \in SUBSET Turn /\ answered \in SUBSET Turn
           /\ redis \in Memory \cup {None} /\ heap \in [Turn -> Memory]
           /\ cache \in [Proc -> Turn \cup {None}]
           /\ client \in [Proc -> {"unset", "looking", "redis", "none"}]
           /\ turn \in [Turn -> Served]
           /\ faults \in 0..MaxFaults /\ deletions \in 0..MaxDeletions
           /\ ~session.live => session = NoSession /\ asked = {} /\ answered = {}
           /\ \A t \in Turn : Holds(t)
  BY DEF TypeInv, TypeOK, Served

\* And what has to be shown to know it again.
LEMMA TypeCloses ==
    ASSUME session' \in [live : BOOLEAN, memory : Memory \cup {None}],
           asked' \in SUBSET Turn, answered' \in SUBSET Turn,
           redis' \in Memory \cup {None}, heap' \in [Turn -> Memory],
           cache' \in [Proc -> Turn \cup {None}],
           client' \in [Proc -> {"unset", "looking", "redis", "none"}],
           turn' \in [Turn -> Served],
           faults' \in 0..MaxFaults, deletions' \in 0..MaxDeletions,
           ~session'.live => session' = NoSession /\ asked' = {} /\ answered' = {},
           \A t \in Turn : Holds(t)'
    PROVE  TypeInv'
  BY DEF TypeInv, TypeOK, Served, NoSession

\* A fault stays within its bound.
LEMMA FaultType ==
    ASSUME TypeInv, Fault \/ UNCHANGED faults PROVE faults' \in 0..MaxFaults
  BY ConversationAssumption DEF TypeInv, TypeOK, Fault

\* A turn that moves on: only its place changes.
LEMMA GotoType ==
    ASSUME TypeInv, NEW t \in Turn, NEW pc \in Pc, Goto(t, pc),
           pc \in Holding => turn[t].pc \in Holding
    PROVE  /\ turn' \in [Turn -> Served] /\ \A u \in Turn : Holds(u)'
           /\ turn'[t].pc = pc /\ turn'[t].proc = turn[t].proc
           /\ turn'[t].obj = turn[t].obj /\ turn'[t].db = turn[t].db
           /\ \A u \in Turn : u # t => turn'[u] = turn[u]
<1>1. turn \in [Turn -> Served] /\ \A u \in Turn : Holds(u)
  BY Typed
<1>2. turn' = [turn EXCEPT ![t].pc = pc]
  BY DEF Goto
<1>3. /\ turn' \in [Turn -> Served]
      /\ turn'[t].pc = pc /\ turn'[t].proc = turn[t].proc
      /\ turn'[t].obj = turn[t].obj /\ turn'[t].db = turn[t].db
      /\ \A u \in Turn : u # t => turn'[u] = turn[u]
  BY <1>1, <1>2 DEF Served
<1>4. \A u \in Turn : Holds(u)'
  BY <1>1, <1>3 DEF Holds
<1> QED  BY <1>3, <1>4

\* A turn that takes an object.
LEMMA TakeType ==
    ASSUME TypeInv, NEW t \in Turn, NEW o \in Turn, NEW db \in BOOLEAN, NEW pc \in Pc,
           turn' = [turn EXCEPT ![t].obj = o, ![t].db = db, ![t].pc = pc]
    PROVE  /\ turn' \in [Turn -> Served] /\ \A u \in Turn : Holds(u)'
           /\ turn'[t].pc = pc /\ turn'[t].proc = turn[t].proc
           /\ turn'[t].obj = o /\ turn'[t].db = db
           /\ \A u \in Turn : u # t => turn'[u] = turn[u]
<1>1. turn \in [Turn -> Served] /\ \A u \in Turn : Holds(u)
  BY Typed
<1>2. /\ turn' \in [Turn -> Served]
      /\ turn'[t].pc = pc /\ turn'[t].proc = turn[t].proc
      /\ turn'[t].obj = o /\ turn'[t].db = db
      /\ \A u \in Turn : u # t => turn'[u] = turn[u]
  BY <1>1 DEF Served
<1>3. \A u \in Turn : Holds(u)'
  BY <1>1, <1>2 DEF Holds
<1> QED  BY <1>2, <1>3

\* A turn that loads a memory into an object of its own.
LEMMA LoadType ==
    ASSUME TypeInv, NEW t \in Turn, NEW m \in Memory, NEW pc \in Pc, Load(t, m, pc)
    PROVE  /\ turn' \in [Turn -> Served] /\ \A u \in Turn : Holds(u)'
           /\ turn'[t].pc = pc /\ turn'[t].proc = turn[t].proc
           /\ turn'[t].obj = t /\ turn'[t].db = turn[t].db
           /\ \A u \in Turn : u # t => turn'[u] = turn[u]
           /\ heap' \in [Turn -> Memory] /\ heap'[t] = m
<1>1. turn \in [Turn -> Served] /\ heap \in [Turn -> Memory] /\ turn[t].db \in BOOLEAN
  BY Typed DEF Served
<1>2. PICK db \in BOOLEAN :
        db = turn[t].db /\ turn' = [turn EXCEPT ![t].obj = t, ![t].db = db, ![t].pc = pc]
  BY <1>1 DEF Load, Served
<1>3. heap' \in [Turn -> Memory] /\ heap'[t] = m
  BY <1>1 DEF Load
<1> QED  BY <1>1, <1>2, <1>3, TakeType

\* A turn that falls back on what its process remembers.
LEMMA UseLocalType ==
    ASSUME TypeInv, NEW t \in Turn, NEW db \in BOOLEAN, UseLocal(t, db)
    PROVE  /\ turn' \in [Turn -> Served] /\ \A u \in Turn : Holds(u)'
           /\ turn'[t].pc = "answer" /\ turn'[t].proc = turn[t].proc /\ turn'[t].db = db
           /\ \A u \in Turn : u # t => turn'[u] = turn[u]
           /\ heap' \in [Turn -> Memory] /\ cache' \in [Proc -> Turn \cup {None}]
<1>1. /\ turn \in [Turn -> Served] /\ heap \in [Turn -> Memory]
      /\ cache \in [Proc -> Turn \cup {None}] /\ turn[t].proc \in Proc
  BY Typed DEF Served
<1>2. CASE cache[turn[t].proc] # None
  <2>1. PICK o \in Turn : turn' = [turn EXCEPT ![t].obj = o, ![t].db = db, ![t].pc = "answer"]
    BY <1>1, <1>2 DEF UseLocal
  <2>2. UNCHANGED <<heap, cache>>
    BY <1>2 DEF UseLocal
  <2> QED  BY <1>1, <2>1, <2>2, TakeType DEF Pc
<1>3. CASE cache[turn[t].proc] = None
  <2>1. turn' = [turn EXCEPT ![t].obj = t, ![t].db = db, ![t].pc = "answer"]
    BY <1>3 DEF UseLocal
  <2>2. heap' \in [Turn -> Memory] /\ cache' \in [Proc -> Turn \cup {None}]
    BY <1>1, <1>3 DEF UseLocal, Remember, Memory
  <2> QED  BY <2>1, <2>2, TakeType DEF Pc
<1> QED  BY <1>2, <1>3

\* The request up to the stored question.
LEMMA AskingTypes ==
    ASSUME TypeInv, NEW t \in Turn, Arrive(t) \/ Create(t) \/ Ask(t) \/ Refresh(t)
    PROVE  TypeInv'
<1>1. UNCHANGED <<answered, redis, heap, cache, client, faults, deletions>>
  BY DEF Arrive, Create, Ask, Refresh, rows, objects, bounds
<1>2. /\ session' \in [live : BOOLEAN, memory : Memory \cup {None}]
      /\ asked' \in SUBSET Turn
      /\ ~session'.live => session' = NoSession /\ asked' = {} /\ answered' = {}
  BY Typed, <1>1 DEF Arrive, Create, Ask, Refresh, rows, NoSession
<1>3. \E pc \in Pc \ Holding : Goto(t, pc)
  BY DEF Arrive, Create, Ask, Refresh, Pc, Holding
<1>4. turn' \in [Turn -> Served] /\ \A u \in Turn : Holds(u)'
  BY <1>3, GotoType
<1> QED  BY <1>1, <1>2, <1>4, Typed, TypeCloses

\* A write to Redis keeps the type of what it holds.
LEMMA WriteRedisType ==
    ASSUME TypeInv, NEW t \in Turn, NEW m \in Memory, WriteRedis(t, m)
    PROVE  redis' \in Memory \cup {None} /\ faults' \in 0..MaxFaults
<1>1. redis' \in Memory \cup {None}
  BY Typed DEF WriteRedis
<1>2. faults' \in 0..MaxFaults
  BY FaultType DEF WriteRedis
<1> QED  BY <1>1, <1>2

\* get_memory.
LEMMA ReadingTypes ==
    ASSUME TypeInv, NEW t \in Turn,
           \/ LookForRedis(t) \/ Connect(t) \/ ReadRedis(t) \/ MissRedis(t)
           \/ ReadRow(t) \/ Warm(t) \/ ReadLocal(t)
    PROVE  TypeInv'
<1>0. /\ turn \in [Turn -> Served] /\ turn[t].proc \in Proc
      /\ cache \in [Proc -> Turn \cup {None}] /\ heap \in [Turn -> Memory]
      /\ client \in [Proc -> {"unset", "looking", "redis", "none"}]
      /\ redis \in Memory \cup {None}
  BY Typed DEF Served
<1>1. UNCHANGED <<session, asked, answered, deletions>>
  BY DEF LookForRedis, Connect, ReadRedis, MissRedis, ReadRow, Warm, ReadLocal, rows, bounds
<1>2. faults' \in 0..MaxFaults
  <2>1. CASE Warm(t)
    BY <1>0, <2>1, FaultType DEF Warm, WriteRedis
  <2> QED  BY <2>1, FaultType DEF LookForRedis, Connect, ReadRedis, MissRedis, ReadRow, ReadLocal, bounds
<1>c. ASSUME redis' \in Memory \cup {None}, heap' \in [Turn -> Memory],
             cache' \in [Proc -> Turn \cup {None}],
             client' \in [Proc -> {"unset", "looking", "redis", "none"}],
             turn' \in [Turn -> Served], \A u \in Turn : Holds(u)'
      PROVE  TypeInv'
  BY <1>1, <1>2, <1>c, Typed, TypeCloses
<1>3. CASE LookForRedis(t) \/ Connect(t) \/ MissRedis(t)
  <2>1. UNCHANGED <<redis, heap, cache>>
    BY <1>3 DEF LookForRedis, Connect, MissRedis, rows, objects
  <2>2. client' \in [Proc -> {"unset", "looking", "redis", "none"}]
    BY <1>0, <1>3 DEF LookForRedis, Connect, MissRedis
  <2>3. \E pc \in Pc \ Holding : Goto(t, pc)
    BY <1>3 DEF LookForRedis, Connect, MissRedis, Pc, Holding
  <2>4. turn' \in [Turn -> Served] /\ \A u \in Turn : Holds(u)'
    BY <2>3, GotoType
  <2> QED  BY <1>0, <1>c, <2>1, <2>2, <2>4
<1>4. CASE ReadRedis(t)
  <2>1. redis \in Memory /\ UNCHANGED <<redis, client>> /\ Load(t, redis, "answer")
    BY <1>0, <1>4 DEF ReadRedis
  <2>2. cache' \in [Proc -> Turn \cup {None}]
    BY <1>0, <1>4 DEF ReadRedis, Remember
  <2>3. /\ turn' \in [Turn -> Served] /\ \A u \in Turn : Holds(u)'
        /\ heap' \in [Turn -> Memory]
    BY <2>1, LoadType DEF Pc
  <2> QED  BY <1>0, <1>c, <2>1, <2>2, <2>3
<1>5. CASE ReadRow(t)
  <2>1. session.memory \in Memory /\ UNCHANGED <<redis, client, cache>> /\ Load(t, session.memory, "warm")
    BY <1>5, Typed DEF ReadRow, Stored
  <2>2. /\ turn' \in [Turn -> Served] /\ \A u \in Turn : Holds(u)'
        /\ heap' \in [Turn -> Memory]
    BY <2>1, LoadType DEF Pc
  <2> QED  BY <1>0, <1>c, <2>1, <2>2
<1>6. CASE Warm(t)
  <2>1. turn[t].obj \in Turn /\ heap[turn[t].obj] \in Memory
    BY <1>0, <1>6, Typed DEF Warm, Holds, Holding
  <2>2. UNCHANGED <<heap, client>> /\ redis' \in Memory \cup {None}
    BY <1>6, <2>1, WriteRedisType DEF Warm
  <2>3. cache' \in [Proc -> Turn \cup {None}]
    BY <1>0, <1>6, <2>1 DEF Warm, Remember
  <2>4. turn' \in [Turn -> Served] /\ \A u \in Turn : Holds(u)'
    BY <1>6, GotoType DEF Warm, Pc, Holding
  <2> QED  BY <1>0, <1>c, <2>2, <2>3, <2>4
<1>7. CASE ReadLocal(t)
  <2>1. UNCHANGED <<redis, client>> /\ \E db \in BOOLEAN : UseLocal(t, db)
    BY <1>7 DEF ReadLocal
  <2>2. /\ turn' \in [Turn -> Served] /\ \A u \in Turn : Holds(u)'
        /\ heap' \in [Turn -> Memory] /\ cache' \in [Proc -> Turn \cup {None}]
    BY <2>1, UseLocalType
  <2> QED  BY <1>0, <1>c, <2>1, <2>2
<1> QED  BY <1>3, <1>4, <1>5, <1>6, <1>7

\* The answer, and save_memory.
LEMMA SavingTypes ==
    ASSUME TypeInv, NEW t \in Turn,
           \/ AnswerFails(t) \/ Harvest(t) \/ Publish(t) \/ Persist(t) \/ PersistFails(t)
           \/ Reply(t) \/ Disconnect(t)
    PROVE  TypeInv'
<1>0. /\ turn \in [Turn -> Served] /\ turn[t].proc \in Proc
      /\ cache \in [Proc -> Turn \cup {None}] /\ heap \in [Turn -> Memory]
      /\ turn[t].pc \in Holding => turn[t].obj \in Turn /\ heap[turn[t].obj] \in Memory
  BY Typed DEF Served, Holds
<1>1. UNCHANGED <<asked, client, deletions>>
  BY DEF AnswerFails, Harvest, Publish, Persist, PersistFails, Reply, Disconnect, rows, bounds
<1>2. faults' \in 0..MaxFaults
  <2>1. CASE Publish(t)
    BY <1>0, <2>1, FaultType DEF Publish, WriteRedis
  <2> QED  BY <2>1, FaultType DEF AnswerFails, Harvest, Persist, PersistFails, Reply, Disconnect, bounds
<1>3. CASE AnswerFails(t) \/ Disconnect(t)
  <2>1. UNCHANGED <<session, answered, redis, heap, cache>>
    BY <1>3 DEF AnswerFails, Disconnect, rows, objects
  <2>2. \E pc \in Pc \ Holding : Goto(t, pc)
    BY <1>3 DEF AnswerFails, Disconnect, Pc, Holding
  <2>3. turn' \in [Turn -> Served] /\ \A u \in Turn : Holds(u)'
    BY <2>2, GotoType
  <2> QED  BY <1>1, <1>2, <2>1, <2>3, Typed, TypeCloses
<1>4. CASE Harvest(t)
  <2>1. UNCHANGED <<session, answered, redis>> /\ turn[t].pc \in Holding
    BY <1>4 DEF Harvest, rows, Holding
  <2>2. heap' \in [Turn -> Memory]
    <3>1. heap[turn[t].obj] \cup {t} \in Memory
      BY <1>0, <2>1 DEF Memory
    <3> QED  BY <1>0, <1>4, <2>1, <3>1 DEF Harvest
  <2>3. cache' \in [Proc -> Turn \cup {None}]
    BY <1>0, <1>4, <2>1 DEF Harvest, Remember
  <2>4. turn' \in [Turn -> Served] /\ \A u \in Turn : Holds(u)'
    BY <1>4, <2>1, GotoType DEF Harvest, Pc
  <2> QED  BY <1>1, <1>2, <2>1, <2>2, <2>3, <2>4, Typed, TypeCloses
<1>5. CASE Publish(t)
  <2>1. UNCHANGED <<session, answered, heap, cache>> /\ turn[t].pc \in Holding
    BY <1>5 DEF Publish, rows, objects, Holding
  <2>2. redis' \in Memory \cup {None}
    BY <1>0, <1>5, <2>1, WriteRedisType DEF Publish
  <2>3. turn' \in [Turn -> Served] /\ \A u \in Turn : Holds(u)'
    BY <1>5, <2>1, GotoType DEF Publish, Pc
  <2> QED  BY <1>1, <1>2, <2>1, <2>2, <2>3, Typed, TypeCloses
<1>6. CASE Persist(t)
  <2>1. UNCHANGED <<answered, redis, heap, cache>> /\ turn[t].pc \in Holding
    BY <1>6 DEF Persist, objects, Holding
  <2>2. /\ session' \in [live : BOOLEAN, memory : Memory \cup {None}]
        /\ session'.live = session.live
        /\ ~session.live => session' = session
    BY <1>0, <1>6, <2>1, Typed DEF Persist
  <2>3. turn' \in [Turn -> Served] /\ \A u \in Turn : Holds(u)'
    BY <1>6, <2>1, GotoType DEF Persist, Pc
  <2> QED  BY <1>1, <1>2, <2>1, <2>2, <2>3, Typed, TypeCloses
<1>7. CASE PersistFails(t)
  <2>1. UNCHANGED <<session, answered, redis, heap, cache>> /\ turn[t].pc \in Holding
    BY <1>7 DEF PersistFails, rows, objects, Holding
  <2>2. turn' \in [Turn -> Served] /\ \A u \in Turn : Holds(u)'
    <3>1. CASE Goto(t, "reply")
      BY <2>1, <3>1, GotoType DEF Pc
    <3>2. ASSUME NEW db \in BOOLEAN, turn' = [turn EXCEPT ![t].db = db, ![t].pc = "reply"]
          PROVE  turn' \in [Turn -> Served] /\ \A u \in Turn : Holds(u)'
      <4>1. PICK o \in Turn :
              o = turn[t].obj
              /\ turn' = [turn EXCEPT ![t].obj = o, ![t].db = db, ![t].pc = "reply"]
        BY <1>0, <2>1, <3>2 DEF Served
      <4> QED  BY <4>1, TakeType DEF Pc
    <3> QED  BY <1>7, <3>1, <3>2 DEF PersistFails
  <2> QED  BY <1>1, <1>2, <2>1, <2>2, Typed, TypeCloses
<1>8. CASE Reply(t)
  <2>1. UNCHANGED <<session, redis, heap, cache>>
    BY <1>8 DEF Reply, objects
  <2>2. answered' \in SUBSET Turn /\ (~session.live => answered' = answered)
    BY <1>8, Typed DEF Reply
  <2>3. \E pc \in Pc \ Holding : Goto(t, pc)
    BY <1>8 DEF Reply, Pc, Holding
  <2>4. turn' \in [Turn -> Served] /\ \A u \in Turn : Holds(u)'
    BY <2>3, GotoType
  <2> QED  BY <1>1, <1>2, <2>1, <2>2, <2>4, Typed, TypeCloses
<1> QED  BY <1>3, <1>4, <1>5, <1>6, <1>7, <1>8

\* Deletion, expiry and the end of a process.
LEMMA AroundTypes ==
    ASSUME TypeInv, DeleteSession \/ Expire \/ \E p \in Proc : ProcDies(p)
    PROVE  TypeInv'
<1>1. CASE DeleteSession
  <2>1. UNCHANGED <<redis, heap, cache, client, turn, faults>>
    BY <1>1 DEF DeleteSession, objects
  <2>2. session' = NoSession /\ asked' = {} /\ answered' = {} /\ deletions' \in 0..MaxDeletions
    BY <1>1, Typed, ConversationAssumption DEF DeleteSession
  <2>3. NoSession \in [live : BOOLEAN, memory : Memory \cup {None}]
    BY DEF NoSession
  <2>4. \A u \in Turn : Holds(u)'
    BY <2>1, Typed DEF Holds
  <2> QED  BY <2>1, <2>2, <2>3, <2>4, Typed, TypeCloses
<1>2. CASE Expire
  <2>1. UNCHANGED <<session, asked, answered, heap, cache, client, turn, faults, deletions>> /\ redis' = None
    BY <1>2 DEF Expire, rows, objects, bounds
  <2>2. \A u \in Turn : Holds(u)'
    BY <2>1, Typed DEF Holds
  <2> QED  BY <2>1, <2>2, Typed, TypeCloses
<1>3. ASSUME NEW p \in Proc, ProcDies(p)
      PROVE  TypeInv'
  <2>1. UNCHANGED <<session, asked, answered, redis, heap, deletions>> /\ faults' \in 0..MaxFaults
    BY <1>3, FaultType DEF ProcDies, rows
  <2>2. /\ cache' \in [Proc -> Turn \cup {None}]
        /\ client' \in [Proc -> {"unset", "looking", "redis", "none"}]
    BY <1>3, Typed DEF ProcDies
  <2>3. turn' \in [Turn -> Served] /\ \A u \in Turn : Holds(u)'
    <3>1. turn \in [Turn -> Served] /\ \A u \in Turn : Holds(u)
      BY Typed
    <3>2. turn' = [u \in Turn |-> IF turn[u].proc = p /\ Running(u)
                                  THEN [turn[u] EXCEPT !.pc = "lost"] ELSE turn[u]]
      BY <1>3 DEF ProcDies
    <3> QED  BY <3>1, <3>2 DEF Served, Pc, Holds, Holding
  <2> QED  BY <2>1, <2>2, <2>3, Typed, TypeCloses
<1> QED  BY <1>1, <1>2, <1>3

\* Every step keeps the types.
LEMMA NextType == TypeInv /\ [Next]_vars => TypeInv'
<1> SUFFICES ASSUME TypeInv, [Next]_vars PROVE TypeInv'
  OBVIOUS
<1>1. CASE UNCHANGED vars
  BY <1>1 DEF vars, rows, objects, bounds, TypeInv, TypeOK, Holds
<1>2. ASSUME NEW t \in Turn, TurnStep(t)
      PROVE  TypeInv'
  BY <1>2, AskingTypes, ReadingTypes, SavingTypes DEF TurnStep
<1> QED  BY <1>1, <1>2, AroundTypes DEF Next

\* The type invariant of Conversation, with the shape of a session that does
\* not exist.
THEOREM ConversationTypesAlways == MCSpec => []TypeOK
<1>1. MCInit => TypeInv
  BY InitType DEF MCInit
<1>2. TypeInv /\ [MCNext]_hvars => TypeInv'
  BY NextType DEF MCNext, hvars
<1>3. TypeInv => TypeOK
  BY DEF TypeInv
<1> QED  BY <1>1, <1>2, <1>3, PTL DEF MCSpec

-----------------------------------------------------------------------------
(* Turns, one at a time.                                                   *)

IdleIsFresh == \A t \in Turn : turn[t].pc = "idle" => turn[t].db

\* A step of a turn is its own: it was being served or arrives, and the
\* other turns stay where they are.
LEMMA TurnFrame ==
    ASSUME TypeInv, NEW t \in Turn, TurnStep(t)
    PROVE  /\ \A u \in Turn : u # t => turn'[u] = turn[u]
           /\ turn'[t].pc # "idle" /\ turn'[t].proc = turn[t].proc
           /\ turn[t].pc = "idle" \/ Running(t)
           /\ turn[t].pc = "idle" => Arrive(t) /\ Running(t)'
<1>2. CASE Arrive(t) \/ Create(t) \/ Ask(t) \/ Refresh(t)
  <2>1. \E pc \in Pc : pc # "idle" /\ Goto(t, pc)
    BY <1>2 DEF Arrive, Create, Ask, Refresh, Pc
  <2>2. Arrive(t) => Running(t)'
    <3>1. ASSUME Arrive(t) PROVE Running(t)'
      <4>1. turn'[t].pc \in {"ask", "create"}
        BY <3>1, Typed DEF Arrive, Goto, Served
      <4> QED  BY <4>1 DEF Running
    <3> QED  BY <3>1
  <2>3. turn[t].pc = "idle" => Arrive(t)
    BY <1>2 DEF Create, Ask, Refresh
  <2>4. turn[t].pc = "idle" \/ Running(t)
    BY <1>2 DEF Arrive, Create, Ask, Refresh, Running
  <2>5. /\ \A u \in Turn : u # t => turn'[u] = turn[u]
        /\ turn'[t].pc # "idle" /\ turn'[t].proc = turn[t].proc
    <3>1. PICK pc \in Pc : pc # "idle" /\ Goto(t, pc)
      BY <2>1
    <3>2. turn' = [turn EXCEPT ![t].pc = pc] /\ turn \in [Turn -> Served]
      BY <3>1, Typed DEF Goto
    <3> QED  BY <3>1, <3>2 DEF Served
  <2> QED  BY <2>2, <2>3, <2>4, <2>5
<1>3. CASE ~(Arrive(t) \/ Create(t) \/ Ask(t) \/ Refresh(t))
  <2>1. /\ turn[t].pc \in {"redis", "connect", "row", "warm", "answer", "publish", "persist", "reply"}
    BY <1>3 DEF TurnStep, LookForRedis, Connect, ReadRedis, MissRedis, ReadRow, Warm, ReadLocal,
                AnswerFails, Harvest, Publish, Persist, PersistFails, Reply, Disconnect
  <2>2. Running(t) /\ turn[t].pc # "idle"
    BY <2>1 DEF Running
  <2>3. CASE \/ LookForRedis(t) \/ Connect(t) \/ MissRedis(t) \/ Warm(t) \/ AnswerFails(t)
             \/ Harvest(t) \/ Publish(t) \/ Persist(t) \/ Reply(t) \/ Disconnect(t)
    <3>1. PICK pc \in Pc : pc # "idle" /\ Goto(t, pc)
      BY <2>3 DEF LookForRedis, Connect, MissRedis, Warm, AnswerFails, Harvest, Publish, Persist,
                  Reply, Disconnect, Pc
    <3>2. turn' = [turn EXCEPT ![t].pc = pc] /\ turn \in [Turn -> Served]
      BY <3>1, Typed DEF Goto
    <3> QED  BY <2>2, <3>1, <3>2 DEF Served
  <2>4. CASE ReadRedis(t) \/ ReadRow(t)
    <3>1. PICK m \in Memory, pc \in {"answer", "warm"} : Load(t, m, pc)
      BY <2>4, Typed DEF ReadRedis, ReadRow, Stored
    <3> QED  BY <2>2, <3>1, LoadType DEF Pc
  <2>5. CASE ReadLocal(t)
    BY <2>2, <2>5, UseLocalType DEF ReadLocal
  <2>6. CASE PersistFails(t)
    <3>1. turn \in [Turn -> Served]
      BY Typed
    <3>2. CASE Goto(t, "reply")
      <4>1. turn' = [turn EXCEPT ![t].pc = "reply"]
        BY <3>2 DEF Goto
      <4> QED  BY <2>2, <3>1, <4>1 DEF Served
    <3>3. ASSUME NEW db \in BOOLEAN, turn' = [turn EXCEPT ![t].db = db, ![t].pc = "reply"]
          PROVE  /\ \A u \in Turn : u # t => turn'[u] = turn[u]
                 /\ turn'[t].pc # "idle" /\ turn'[t].proc = turn[t].proc
      BY <3>1, <3>3 DEF Served
    <3> QED  BY <2>2, <2>6, <3>2, <3>3 DEF PersistFails
  <2> QED  BY <1>3, <2>3, <2>4, <2>5, <2>6 DEF TurnStep
<1> QED  BY <1>2, <1>3

\* Finitely many turns are under way at any time.
LEMMA CurrentFinite ==
    ASSUME TypeInv, IsFiniteSet(Current), [Next]_vars
    PROVE  IsFiniteSet(Current')
<1>1. ASSUME NEW t \in Turn, TurnStep(t)
      PROVE  IsFiniteSet(Current')
  <2>1. Current' \subseteq Current \cup {t}
    BY <1>1, TurnFrame DEF Current, Running
  <2>2. IsFiniteSet(Current \cup {t})
    BY FS_AddElement
  <2> QED  BY <2>1, <2>2, FS_Subset
<1>2. CASE UNCHANGED turn
  BY <1>2 DEF Current, Running
<1>3. ASSUME NEW p \in Proc, ProcDies(p)
      PROVE  IsFiniteSet(Current')
  <2>1. Current' \subseteq Current
    BY <1>3, Typed DEF ProcDies, Current, Running, Served
  <2> QED  BY <2>1, FS_Subset
<1>4. CASE DeleteSession \/ Expire \/ UNCHANGED vars
  BY <1>2, <1>4 DEF DeleteSession, Expire, vars
<1> QED  BY <1>1, <1>3, <1>4 DEF Next

\* A turn arrives fresh.
LEMMA FreshStep ==
    ASSUME TypeInv, IdleIsFresh, [Next]_vars
    PROVE  IdleIsFresh'
<1>1. ASSUME NEW t \in Turn, TurnStep(t)
      PROVE  IdleIsFresh'
  BY <1>1, TurnFrame DEF IdleIsFresh
<1>2. CASE DeleteSession \/ Expire \/ UNCHANGED vars
  <2>1. UNCHANGED turn
    BY <1>2 DEF DeleteSession, Expire, vars
  <2> QED  BY <2>1 DEF IdleIsFresh
<1>3. ASSUME NEW p \in Proc, ProcDies(p)
      PROVE  IdleIsFresh'
  BY <1>3, Typed DEF ProcDies, IdleIsFresh, Served
<1> QED  BY <1>1, <1>2, <1>3 DEF Next

\* Not more than one element.
LEMMA AtMostOne ==
    ASSUME NEW S, IsFiniteSet(S), Cardinality(S) <= 1, NEW x \in S, NEW y \in S
    PROVE  x = y
<1> SUFFICES ASSUME x # y PROVE FALSE
  OBVIOUS
<1>1. {x, y} \subseteq S
  OBVIOUS
<1>2. Cardinality({x, y}) = 2 /\ IsFiniteSet({x, y})
  <2>1. Cardinality({x}) = 1 /\ IsFiniteSet({x})
    BY FS_Singleton
  <2>2. Cardinality({x} \cup {y}) = Cardinality({x}) + 1 /\ IsFiniteSet({x} \cup {y})
    BY <2>1, FS_AddElement
  <2>3. {x} \cup {y} = {x, y}
    OBVIOUS
  <2> QED  BY <2>1, <2>2, <2>3
<1>3. Cardinality({x, y}) <= Cardinality(S) /\ Cardinality(S) \in Nat
  BY <1>1, FS_Subset, FS_CardinalityType
<1> QED  BY <1>2, <1>3

-----------------------------------------------------------------------------
(* Calm histories.  Between turns the row holds whatever is known, and     *)
(* Redis nothing else.                                                     *)

\* The turns the memory must know.
Known == {t \in Turn : turn[t].pc = "done"} \cup answered

RowKnows == Known # {} => Stored /\ Known \subseteq session.memory

RedisAgrees == redis \in {None, session.memory}

\* Every process reaches Redis, once it has looked for it.
ClientsWork ==
    \A p \in Proc :
        /\ client[p] # "none"
        /\ client[p] = "looking" => \E t \in Turn : turn[t].pc = "connect" /\ turn[t].proc = p

\* What a turn that is being served has in its hands.
OnTheWay(t) ==
    LET pc == turn[t].pc
        m == heap[turn[t].obj] IN
    /\ turn[t].db
    /\ pc # "create" => session.live
    /\ pc = "warm" => m = session.memory
    /\ pc = "answer" => Known \subseteq m
    /\ pc \in {"publish", "persist"} => Known \cup {t} \subseteq m
    /\ pc = "persist" => redis \in {None, m}
    /\ pc = "reply" => Stored /\ t \in session.memory
    /\ pc # "persist" => RedisAgrees
    /\ pc \in {"row"} \cup Holding => HasRedis(t)

Tidy ==
    /\ RowKnows
    /\ ClientsWork
    /\ \A t \in Turn : Running(t) => OnTheWay(t)
    /\ (\A t \in Turn : ~Running(t)) => RedisAgrees

\* Only the turn that is being served matters.
LEMMA TidyCloses ==
    ASSUME TypeInv, NEW t \in Turn, TurnStep(t), \A u \in Turn : u # t => ~Running(u),
           RowKnows', ClientsWork', Running(t)' => OnTheWay(t)', ~Running(t)' => RedisAgrees'
    PROVE  Tidy'
<1>1. \A u \in Turn : u # t => ~Running(u)'
  BY TurnFrame DEF Running
<1>2. \A u \in Turn : Running(u)' => OnTheWay(u)'
  BY <1>1
<1>3. (\A u \in Turn : ~Running(u)') => RedisAgrees'
  BY <1>1
<1> QED  BY <1>2, <1>3 DEF Tidy

\* Unless the turn is connecting, every process has Redis or has not looked.
LEMMA ClientsStay ==
    ASSUME TypeInv, Tidy, NEW t \in Turn, \A u \in Turn : u # t => ~Running(u),
           turn[t].pc # "connect"
    PROVE  /\ \A p \in Proc : client[p] \in {"unset", "redis"}
           /\ UNCHANGED client => ClientsWork'
<1>1. ASSUME NEW p \in Proc PROVE client[p] \in {"unset", "redis"}
  <2>1. client[p] # "looking"
    BY DEF Tidy, ClientsWork, Running
  <2> QED  BY <2>1, Typed DEF Tidy, ClientsWork
<1> QED  BY <1>1 DEF ClientsWork

\* What is known grows by the turn that is done.
LEMMA KnownStep ==
    ASSUME TypeInv, NEW t \in Turn, TurnStep(t), answered' \subseteq answered \cup {t}
    PROVE  /\ turn'[t].pc # "done" /\ answered' = answered => Known' = Known
           /\ Known' \subseteq Known \cup {t}
<1>1. \A u \in Turn : u # t => turn'[u] = turn[u]
  BY TurnFrame
<1>2. turn[t].pc # "done"
  BY TurnFrame DEF Running
<1>3. turn'[t].pc # "done" =>
        {u \in Turn : turn'[u].pc = "done"} = {u \in Turn : turn[u].pc = "done"}
  BY <1>1, <1>2
<1>4. {u \in Turn : turn'[u].pc = "done"} \subseteq {u \in Turn : turn[u].pc = "done"} \cup {t}
  BY <1>1
<1> QED  BY <1>3, <1>4 DEF Known

\* A turn, alone and undisturbed, keeps things tidy up to its answer.
LEMMA TidyReading ==
    ASSUME TypeInv, IdleIsFresh, Tidy, NEW t \in Turn, TurnStep(t),
           \A u \in Turn : u # t => ~Running(u),
           faults' = faults, deletions' = deletions,
           \/ Arrive(t) \/ Create(t) \/ Ask(t) \/ Refresh(t)
           \/ LookForRedis(t) \/ Connect(t) \/ ReadRedis(t) \/ MissRedis(t)
           \/ ReadRow(t) \/ Warm(t) \/ ReadLocal(t)
    PROVE  Tidy'
<1>0. /\ turn \in [Turn -> Served] /\ heap \in [Turn -> Memory]
      /\ session \in [live : BOOLEAN, memory : Memory \cup {None}]
      /\ cache \in [Proc -> Turn \cup {None}] /\ faults \in Nat
      /\ ~session.live => session = NoSession
      /\ Holds(t) /\ redis \in Memory \cup {None} /\ turn[t].proc \in Proc
      /\ client \in [Proc -> {"unset", "looking", "redis", "none"}]
  BY Typed DEF Served
<1>n. ~Fault
  BY <1>0 DEF Fault
<1>1. RedisAgrees
  <2>1. CASE turn[t].pc = "idle"
    BY <2>1 DEF Tidy, Running
  <2>2. CASE Running(t)
    <3>1. turn[t].pc # "persist"
      BY DEF Arrive, Create, Ask, Refresh, LookForRedis, Connect, ReadRedis, MissRedis, ReadRow,
             Warm, ReadLocal
    <3> QED  BY <2>2, <3>1 DEF Tidy, OnTheWay
  <2> QED  BY <2>1, <2>2, TurnFrame
<1>2. turn[t].db /\ (turn[t].pc \notin {"idle", "create"} => session.live /\ OnTheWay(t))
  <2>1. CASE turn[t].pc = "idle"
    BY <2>1 DEF IdleIsFresh
  <2>2. CASE Running(t)
    BY <2>2 DEF Tidy, OnTheWay
  <2> QED  BY <2>1, <2>2, TurnFrame
<1>3. RowKnows /\ UNCHANGED answered
  BY DEF Tidy, Arrive, Create, Ask, Refresh, LookForRedis, Connect, ReadRedis, MissRedis, ReadRow,
         Warm, ReadLocal, rows
<1>p. turn'[t].proc = turn[t].proc
  BY TurnFrame
<1>w. turn[t].pc # "connect" /\ UNCHANGED client => ClientsWork'
  BY ClientsStay
<1>c. ASSUME UNCHANGED session, RedisAgrees', ClientsWork', turn'[t].db,
             turn'[t].pc \in {"row", "warm", "answer"} => HasRedis(t)',
             turn'[t].pc # "done", turn'[t].pc \notin {"publish", "persist", "reply"},
             turn'[t].pc # "create" /\ Running(t)' => session.live,
             turn'[t].pc = "warm" => heap'[turn'[t].obj] = session.memory,
             turn'[t].pc = "answer" => Known \subseteq heap'[turn'[t].obj]
      PROVE  Tidy'
  <2>1. Known' = Known
    BY <1>3, <1>c, KnownStep
  <2>2. RowKnows'
    BY <1>3, <1>c, <2>1 DEF RowKnows, Stored
  <2>3. Running(t)' => OnTheWay(t)'
    BY <1>c, <2>1 DEF OnTheWay, Holding
  <2> QED  BY <1>c, <2>2, <2>3, TidyCloses
<1>g. ASSUME NEW pc \in Pc, Goto(t, pc), UNCHANGED <<session, redis>>,
             pc \notin {"done", "publish", "persist", "reply", "warm", "answer", "create"},
             ClientsWork', pc = "row" => HasRedis(t)',
             Running(t)' => session.live
      PROVE  Tidy'
  <2>1. turn'[t].pc = pc /\ turn'[t].db = turn[t].db
    BY <1>0, <1>g DEF Goto, Served
  <2>2. RedisAgrees'
    BY <1>1, <1>g DEF RedisAgrees
  <2> QED  BY <1>2, <1>c, <1>g, <2>1, <2>2
<1>4. CASE Arrive(t)
  <2>1. /\ UNCHANGED <<session, redis>> /\ Goto(t, IF session.live THEN "ask" ELSE "create")
        /\ ClientsWork'
    BY <1>4, <1>w DEF Arrive, rows
  <2>2. turn'[t].pc = (IF session.live THEN "ask" ELSE "create") /\ turn'[t].db = turn[t].db
    BY <1>0, <2>1 DEF Goto, Served
  <2>3. RedisAgrees'
    BY <1>1, <2>1 DEF RedisAgrees
  <2> QED  BY <1>2, <1>c, <2>1, <2>2, <2>3
<1>5. CASE Create(t)
  <2>w. ClientsWork'
    BY <1>5, <1>w DEF Create
  <2>1. CASE session.live
    BY <1>5, <1>g, <2>w, <2>1 DEF Create, Pc
  <2>2. CASE ~session.live
    <3>1. session' = [NoSession EXCEPT !.live = TRUE] /\ session = NoSession /\ Goto(t, "ask")
          /\ UNCHANGED redis
      BY <1>0, <1>5, <2>2 DEF Create
    <3>2. session'.live /\ session'.memory = session.memory
      BY <3>1 DEF NoSession
    <3>3. turn'[t].pc = "ask" /\ turn'[t].db = turn[t].db
      BY <1>0, <3>1 DEF Goto, Served
    <3>4. Known' = Known
      BY <1>3, <3>3, KnownStep
    <3>5. RowKnows'
      BY <1>3, <2>2, <3>4 DEF RowKnows, Stored
    <3>6. OnTheWay(t)'
      BY <1>1, <1>2, <3>1, <3>2, <3>3 DEF OnTheWay, RedisAgrees, Holding
    <3>7. Running(t)'
      BY <3>3 DEF Running
    <3> QED  BY <2>w, <3>5, <3>6, <3>7, TidyCloses
  <2> QED  BY <2>1, <2>2
<1>6. CASE Ask(t)
  BY <1>2, <1>6, <1>g, <1>w DEF Ask, Pc
<1>7. CASE Refresh(t)
  <2>1. UNCHANGED <<session, redis>> /\ (Goto(t, "redis") \/ Goto(t, "failed")) /\ session.live
        /\ ClientsWork'
    BY <1>2, <1>7, <1>w DEF Refresh, rows
  <2> QED  BY <1>g, <2>1 DEF Pc
<1>8. CASE LookForRedis(t)
  <2>1. /\ UNCHANGED <<session, redis>> /\ session.live /\ Goto(t, "connect")
        /\ client' = [client EXCEPT ![turn[t].proc] = "looking"]
    BY <1>2, <1>8 DEF LookForRedis, rows
  <2>2. turn'[t].pc = "connect"
    BY <1>0, <2>1 DEF Goto, Served
  <2>3. \A p \in Proc : client[p] \in {"unset", "redis"}
    BY <1>8, ClientsStay DEF LookForRedis
  <2>4. ClientsWork'
    BY <1>0, <1>p, <2>1, <2>2, <2>3 DEF ClientsWork
  <2> QED  BY <1>g, <2>1, <2>4 DEF Pc
<1>13. CASE Connect(t)
  <2>1. /\ UNCHANGED <<session, redis>> /\ session.live /\ Goto(t, "redis")
        /\ client' = [client EXCEPT ![turn[t].proc] = "redis"]
    BY <1>2, <1>13, <1>n DEF Connect, rows
  <2>2. ASSUME NEW p \in Proc PROVE client'[p] \notin {"none", "looking"}
    <3>1. CASE p = turn[t].proc
      BY <1>0, <2>1, <3>1
    <3>2. CASE p # turn[t].proc
      <4>1. client[p] # "looking" /\ client[p] # "none"
        BY <3>2 DEF Tidy, ClientsWork, Running
      <4> QED  BY <1>0, <2>1, <3>2, <4>1
    <3> QED  BY <3>1, <3>2
  <2>3. ClientsWork'
    BY <2>2 DEF ClientsWork
  <2> QED  BY <1>g, <2>1, <2>3 DEF Pc
<1>14. CASE MissRedis(t)
  <2>1. UNCHANGED <<session, redis, client>> /\ session.live /\ Goto(t, "row") /\ ClientsWork'
    BY <1>2, <1>14, <1>w DEF MissRedis, rows
  <2>2. HasRedis(t)'
    BY <1>0, <1>14, <1>p, <2>1, ClientsStay DEF MissRedis, HasRedis
  <2> QED  BY <1>g, <2>1, <2>2 DEF Pc
<1>9. CASE ReadRedis(t)
  <2>1. /\ UNCHANGED <<session, redis>> /\ session.live /\ redis \in Memory /\ redis # None
        /\ Load(t, redis, "answer") /\ HasRedis(t)' /\ ClientsWork'
    BY <1>0, <1>2, <1>9, <1>p, <1>w DEF ReadRedis, rows, HasRedis
  <2>2. turn'[t].pc = "answer" /\ turn'[t].db = turn[t].db /\ heap'[turn'[t].obj] = redis
    BY <2>1, LoadType DEF Pc
  <2>3. redis = session.memory /\ RedisAgrees'
    BY <1>1, <2>1 DEF RedisAgrees
  <2>4. Known \subseteq redis
    BY <1>3, <2>3 DEF RowKnows
  <2> QED  BY <1>2, <1>c, <2>1, <2>2, <2>3, <2>4
<1>10. CASE ReadRow(t)
  <2>1. /\ UNCHANGED <<session, redis>> /\ session.live /\ session.memory \in Memory
        /\ Load(t, session.memory, "warm") /\ HasRedis(t)' /\ ClientsWork'
    BY <1>0, <1>2, <1>10, <1>p, <1>w DEF ReadRow, Stored, rows, HasRedis, OnTheWay
  <2>2. turn'[t].pc = "warm" /\ turn'[t].db = turn[t].db /\ heap'[turn'[t].obj] = session.memory
    BY <2>1, LoadType DEF Pc
  <2>3. RedisAgrees'
    BY <1>1, <2>1 DEF RedisAgrees
  <2> QED  BY <1>2, <1>c, <2>1, <2>2, <2>3
<1>11. CASE Warm(t)
  <2>1. /\ heap[turn[t].obj] = session.memory /\ session.live /\ UNCHANGED <<session, heap>>
        /\ HasRedis(t)' /\ ClientsWork'
    BY <1>2, <1>11, <1>p, <1>w DEF Warm, OnTheWay, rows, HasRedis, Holding
  <2>2. RedisAgrees'
    BY <1>1, <1>11, <2>1 DEF Warm, WriteRedis, RedisAgrees
  <2>3. turn'[t].pc = "answer" /\ turn'[t].db = turn[t].db /\ turn'[t].obj = turn[t].obj
    BY <1>0, <1>11 DEF Warm, Goto, Served
  <2>4. Known \subseteq session.memory
    BY <1>3 DEF RowKnows
  <2> QED  BY <1>2, <1>c, <2>1, <2>2, <2>3, <2>4
<1>12. CASE ReadLocal(t)
  <2>1. /\ UNCHANGED <<session, redis>> /\ session.live /\ ~Stored /\ UseLocal(t, TRUE)
        /\ HasRedis(t)' /\ ClientsWork'
    BY <1>2, <1>12, <1>n, <1>p, <1>w DEF ReadLocal, rows, HasRedis, OnTheWay
  <2>2. Known = {}
    BY <1>3, <2>1 DEF RowKnows
  <2>3. turn'[t].pc = "answer" /\ turn'[t].db
    BY <2>1, UseLocalType
  <2>4. RedisAgrees'
    BY <1>1, <2>1 DEF RedisAgrees
  <2> QED  BY <1>c, <2>1, <2>2, <2>3, <2>4
<1> QED  BY <1>4, <1>5, <1>6, <1>7, <1>8, <1>9, <1>10, <1>11, <1>12, <1>13, <1>14

\* And so it does from its answer on.
LEMMA TidySaving ==
    ASSUME TypeInv, IdleIsFresh, Tidy, NEW t \in Turn, TurnStep(t),
           \A u \in Turn : u # t => ~Running(u),
           faults' = faults, deletions' = deletions,
           \/ AnswerFails(t) \/ Harvest(t) \/ Publish(t) \/ Persist(t) \/ PersistFails(t)
           \/ Reply(t) \/ Disconnect(t)
    PROVE  Tidy'
<1>0. /\ turn \in [Turn -> Served] /\ heap \in [Turn -> Memory]
      /\ session \in [live : BOOLEAN, memory : Memory \cup {None}]
      /\ faults \in Nat /\ answered \in SUBSET Turn
      /\ turn[t].pc \in Holding => turn[t].obj \in Turn
  BY Typed DEF Holds
<1>n. ~Fault
  BY <1>0 DEF Fault
<1>1. Running(t) /\ OnTheWay(t) /\ session.live /\ turn[t].db /\ RowKnows
  <2>1. Running(t) /\ turn[t].pc # "create"
    BY DEF AnswerFails, Harvest, Publish, Persist, PersistFails, Reply, Disconnect, Running
  <2> QED  BY <2>1 DEF Tidy, OnTheWay
<1>w. ClientsWork' /\ turn'[t].proc = turn[t].proc /\ UNCHANGED client
  <2>1. turn[t].pc # "connect" /\ UNCHANGED client
    BY DEF AnswerFails, Harvest, Publish, Persist, PersistFails, Reply, Disconnect
  <2> QED  BY <2>1, TurnFrame, ClientsStay
<1>r. turn[t].pc \in Holding => HasRedis(t) /\ HasRedis(t)'
  BY <1>1, <1>w DEF OnTheWay, HasRedis
<1>2. CASE AnswerFails(t) \/ Disconnect(t)
  <2>1. UNCHANGED <<session, redis, answered>> /\ turn[t].pc # "persist"
    BY <1>2 DEF AnswerFails, Disconnect, rows
  <2>2. turn'[t].pc \in {"failed", "lost"}
    BY <1>0, <1>2 DEF AnswerFails, Disconnect, Goto, Served
  <2>3. ~Running(t)' /\ Known' = Known
    BY <2>1, <2>2, KnownStep DEF Running
  <2>4. RowKnows' /\ RedisAgrees'
    BY <1>1, <2>1, <2>3 DEF RowKnows, RedisAgrees, OnTheWay, Stored
  <2> QED  BY <2>3, <2>4, <1>w, TidyCloses
<1>3. CASE Harvest(t)
  <2>1. UNCHANGED <<session, redis, answered>> /\ turn[t].pc = "answer"
    BY <1>3 DEF Harvest, rows
  <2>2. /\ turn'[t].pc = "publish" /\ turn'[t].db = turn[t].db /\ turn'[t].obj = turn[t].obj
    BY <1>0, <1>3 DEF Harvest, Goto, Served
  <2>3. turn[t].obj \in Turn /\ heap'[turn[t].obj] = heap[turn[t].obj] \cup {t}
    BY <1>0, <1>3, <2>1 DEF Harvest, Holding
  <2>4. Known' = Known /\ Known \subseteq heap[turn[t].obj]
    BY <1>1, <2>1, <2>2, KnownStep DEF OnTheWay
  <2>5. RowKnows' /\ RedisAgrees'
    BY <1>1, <2>1, <2>4 DEF RowKnows, RedisAgrees, OnTheWay, Stored
  <2>6. OnTheWay(t)'
    BY <1>1, <1>r, <2>1, <2>2, <2>3, <2>4, <2>5 DEF OnTheWay, Holding
  <2> QED  BY <2>5, <2>6, <1>w, TidyCloses
<1>4. CASE Publish(t)
  <2>1. UNCHANGED <<session, heap, answered>> /\ turn[t].pc = "publish"
    BY <1>4 DEF Publish, rows, objects
  <2>2. /\ turn'[t].pc = "persist" /\ turn'[t].db = turn[t].db /\ turn'[t].obj = turn[t].obj
    BY <1>0, <1>4 DEF Publish, Goto, Served
  <2>3. redis' = heap[turn[t].obj]
    BY <1>4, <1>n, <1>r, <2>1 DEF Publish, WriteRedis, Holding
  <2>4. Known' = Known /\ Known \cup {t} \subseteq heap[turn[t].obj]
    BY <1>1, <2>1, <2>2, KnownStep DEF OnTheWay
  <2>5. RowKnows'
    BY <1>1, <2>1, <2>4 DEF RowKnows, Stored
  <2>6. OnTheWay(t)' /\ Running(t)'
    BY <1>1, <1>r, <2>1, <2>2, <2>3, <2>4 DEF OnTheWay, Running, Holding
  <2> QED  BY <2>5, <2>6, <1>w, TidyCloses
<1>5. CASE Persist(t)
  <2>1. UNCHANGED <<redis, heap, answered>> /\ turn[t].pc = "persist"
    BY <1>5 DEF Persist, objects
  <2>2. /\ turn'[t].pc = "reply" /\ turn'[t].db = turn[t].db /\ turn'[t].obj = turn[t].obj
    BY <1>0, <1>5 DEF Persist, Goto, Served
  <2>3. session'.live /\ session'.memory = heap[turn[t].obj]
    BY <1>0, <1>1, <1>5 DEF Persist
  <2>4. heap[turn[t].obj] # None
    <3>1. heap[turn[t].obj] \in SUBSET Turn
      BY <1>0, <2>1 DEF Holding, Memory
    <3> QED  BY <3>1, ConversationAssumption
  <2>5. Known' = Known /\ Known \cup {t} \subseteq heap[turn[t].obj]
    BY <1>1, <2>1, <2>2, KnownStep DEF OnTheWay
  <2>6. RowKnows'
    BY <2>3, <2>4, <2>5 DEF RowKnows, Stored
  <2>7. RedisAgrees'
    <3>1. redis \in {None, heap[turn[t].obj]}
      BY <1>1, <2>1 DEF OnTheWay
    <3> QED  BY <2>1, <2>3, <3>1 DEF RedisAgrees
  <2>8. OnTheWay(t)'
    BY <1>1, <1>r, <2>1, <2>2, <2>3, <2>4, <2>5, <2>7 DEF OnTheWay, Stored, Holding
  <2> QED  BY <2>6, <2>7, <2>8, <1>w, TidyCloses
<1>6. CASE PersistFails(t)
  BY <1>1, <1>6, <1>n DEF PersistFails
<1>7. CASE Reply(t)
  <2>1. UNCHANGED <<session, redis, heap>> /\ turn[t].pc = "reply" /\ answered' = answered \cup {t}
    BY <1>1, <1>7 DEF Reply, objects
  <2>2. turn'[t].pc = "done"
    BY <1>0, <1>1, <1>7 DEF Reply, Goto, Served
  <2>3. Known' \subseteq Known \cup {t}
    BY <2>1, KnownStep
  <2>4. Stored /\ t \in session.memory /\ Known \subseteq session.memory
    BY <1>1, <2>1 DEF OnTheWay, RowKnows
  <2>5. RowKnows' /\ RedisAgrees' /\ ~Running(t)'
    BY <1>1, <2>1, <2>2, <2>3, <2>4 DEF RowKnows, RedisAgrees, OnTheWay, Stored, Running
  <2> QED  BY <2>5, <1>w, TidyCloses
<1> QED  BY <1>2, <1>3, <1>4, <1>5, <1>6, <1>7

-----------------------------------------------------------------------------
(* A turn alone.  Nothing is known of the tiers when it arrives; it works  *)
(* its way through them.                                                   *)

Solo(t) ==
    LET pc == turn[t].pc
        m == heap[turn[t].obj] IN
    /\ Running(t)
    /\ \A u \in Turn : u # t => ~Running(u)
    /\ turn[t].db
    /\ pc # "create" => session.live
    /\ pc \in {"publish", "persist", "reply"} =>
          /\ t \in m
          /\ cache[turn[t].proc] = turn[t].obj
    /\ pc = "persist" /\ HasRedis(t) => redis \in {None, m}
    /\ pc = "reply" => session.memory = m /\ (HasRedis(t) => redis \in {None, m})

\* What a turn alone has still to show after a step.
LEMMA SoloCloses ==
    ASSUME TypeInv, NEW t \in Turn, TurnStep(t), \A u \in Turn : u # t => ~Running(u),
           Running(t)', turn'[t].db, turn'[t].pc # "create" => session'.live,
           turn'[t].pc \notin {"publish", "persist", "reply"}
    PROVE  Solo(t)'
<1>1. \A u \in Turn : u # t => ~Running(u)'
  BY TurnFrame DEF Running
<1> QED  BY <1>1 DEF Solo

\* A turn that arrives when no other is served is alone.
LEMMA SoloArrives ==
    ASSUME TypeInv, IdleIsFresh, NEW t \in Turn, Arrive(t), \A u \in Turn : ~Running(u)
    PROVE  Solo(t)'
<1>1. TurnStep(t) /\ UNCHANGED session
  BY DEF TurnStep, Arrive, rows
<1>2. /\ turn'[t].pc = (IF session.live THEN "ask" ELSE "create")
      /\ turn'[t].db = turn[t].db /\ turn[t].db
  BY Typed DEF Arrive, Goto, Served, IdleIsFresh
<1> QED  BY <1>1, <1>2, SoloCloses DEF Running

\* A turn alone stays so until it ends, and takes the tiers along.
LEMMA SoloStep ==
    ASSUME TypeInv, NEW t \in Turn, TurnStep(t), Solo(t), Running(t)',
           faults' = faults, deletions' = deletions
    PROVE  Solo(t)'
<1>0. /\ turn \in [Turn -> Served] /\ heap \in [Turn -> Memory]
      /\ session \in [live : BOOLEAN, memory : Memory \cup {None}]
      /\ cache \in [Proc -> Turn \cup {None}] /\ faults \in Nat
      /\ turn[t].pc \in Holding => turn[t].obj \in Turn
      /\ turn[t].proc \in Proc
  BY Typed DEF Served, Holds
<1>n. ~Fault
  BY <1>0 DEF Fault
<1>1. /\ \A u \in Turn : u # t => ~Running(u)
      /\ turn[t].db /\ (turn[t].pc # "create" => session.live) /\ turn[t].pc # "idle"
  BY DEF Solo, Running
<1>2. (\A u \in Turn : u # t => ~Running(u)') /\ turn'[t].proc = turn[t].proc
  BY <1>1, TurnFrame DEF Running
<1>g. ASSUME NEW pc \in Pc, Goto(t, pc), pc \notin {"publish", "persist", "reply", "create"},
             session'.live
      PROVE  Solo(t)'
  <2>1. turn'[t].pc = pc /\ turn'[t].db = turn[t].db
    BY <1>0, <1>g DEF Goto, Served
  <2> QED  BY <1>1, <1>g, <2>1, SoloCloses
<1>3. CASE Create(t)
  <2>1. ~session.live
    <3>1. SUFFICES ASSUME session.live PROVE FALSE
      OBVIOUS
    <3>2. turn'[t].pc = "failed"
      BY <1>0, <1>3, <3>1 DEF Create, Goto, Served
    <3> QED  BY <3>2 DEF Running
  <2>2. Goto(t, "ask") /\ session'.live
    BY <1>3, <2>1 DEF Create, NoSession
  <2> QED  BY <1>g, <2>2 DEF Pc
<1>4. CASE Ask(t) \/ Refresh(t) \/ LookForRedis(t) \/ Connect(t) \/ MissRedis(t) \/ Warm(t)
  <2>1. UNCHANGED session /\ session.live
    BY <1>1, <1>4 DEF Ask, Refresh, LookForRedis, Connect, MissRedis, Warm, rows
  <2>2. \E pc \in Pc : Goto(t, pc) /\ pc \notin {"publish", "persist", "reply", "create"}
    BY <1>4 DEF Ask, Refresh, LookForRedis, Connect, MissRedis, Warm, Pc
  <2> QED  BY <1>g, <2>1, <2>2
<1>5. CASE ReadRedis(t) \/ ReadRow(t)
  <2>1. UNCHANGED session /\ session.live
    BY <1>1, <1>5 DEF ReadRedis, ReadRow, rows
  <2>2. PICK m \in Memory, pc \in {"answer", "warm"} : Load(t, m, pc)
    BY <1>5, Typed DEF ReadRedis, ReadRow, Stored
  <2>3. turn'[t].pc = pc /\ turn'[t].db = turn[t].db
    BY <2>2, LoadType DEF Pc
  <2> QED  BY <1>1, <2>1, <2>2, <2>3, SoloCloses
<1>6. CASE ReadLocal(t)
  <2>1. UNCHANGED session /\ session.live /\ UseLocal(t, TRUE)
    BY <1>1, <1>6, <1>n DEF ReadLocal, rows
  <2>2. turn'[t].pc = "answer" /\ turn'[t].db
    BY <2>1, UseLocalType
  <2> QED  BY <1>1, <2>1, <2>2, SoloCloses
<1>7. CASE Harvest(t)
  <2>1. /\ turn'[t].pc = "publish" /\ turn'[t].db = turn[t].db /\ turn'[t].obj = turn[t].obj
        /\ turn[t].pc = "answer" /\ UNCHANGED session
    BY <1>0, <1>7 DEF Harvest, Goto, Served, rows
  <2>2. turn[t].obj \in Turn /\ t \in heap'[turn[t].obj]
    BY <1>0, <1>7, <2>1 DEF Harvest, Holding
  <2>3. cache'[turn[t].proc] = turn[t].obj
    BY <1>0, <1>7 DEF Harvest, Remember
  <2> QED  BY <1>1, <1>2, <2>1, <2>2, <2>3 DEF Solo
<1>8. CASE Publish(t)
  <2>1. /\ turn'[t].pc = "persist" /\ turn'[t].db = turn[t].db /\ turn'[t].obj = turn[t].obj
        /\ turn[t].pc = "publish" /\ UNCHANGED <<session, heap, cache, client>>
    BY <1>0, <1>8 DEF Publish, Goto, Served, rows, objects
  <2>2. HasRedis(t) => redis' = heap[turn[t].obj]
    BY <1>8, <1>n DEF Publish, WriteRedis
  <2>3. HasRedis(t)' => HasRedis(t)
    BY <1>2, <2>1 DEF HasRedis
  <2> QED  BY <1>1, <1>2, <2>1, <2>2, <2>3 DEF Solo
<1>9. CASE Persist(t)
  <2>1. /\ turn'[t].pc = "reply" /\ turn'[t].db = turn[t].db /\ turn'[t].obj = turn[t].obj
        /\ turn[t].pc = "persist" /\ UNCHANGED <<redis, heap, cache, client>>
    BY <1>0, <1>9 DEF Persist, Goto, Served, objects
  <2>2. session'.live /\ session'.memory = heap[turn[t].obj]
    BY <1>0, <1>1, <1>9 DEF Persist
  <2>3. HasRedis(t)' => HasRedis(t)
    BY <1>2, <2>1 DEF HasRedis
  <2> QED  BY <1>1, <1>2, <2>1, <2>2, <2>3 DEF Solo
<1>10. CASE PersistFails(t)
  BY <1>1, <1>10, <1>n DEF PersistFails
<1>11. CASE Arrive(t) \/ AnswerFails(t) \/ Reply(t) \/ Disconnect(t)
  <2>1. PICK pc \in {"failed", "done", "lost"} : Goto(t, pc)
    BY <1>1, <1>11 DEF Arrive, AnswerFails, Reply, Disconnect
  <2>2. turn'[t].pc = pc
    BY <1>0, <2>1 DEF Goto, Served
  <2> QED  BY <2>1, <2>2 DEF Running
<1> QED  BY <1>3, <1>4, <1>5, <1>6, <1>7, <1>8, <1>9, <1>10, <1>11 DEF TurnStep

-----------------------------------------------------------------------------
(* The histories.                                                          *)

OneAtATime == \A t, u \in Turn : Running(t) /\ Running(u) => t = u

HistoryInv ==
    /\ TypeInv
    /\ IsFiniteSet(Current)
    /\ IdleIsFresh
    /\ calm \in BOOLEAN
    /\ calm => OneAtATime /\ Tidy
    /\ solo \in Turn \cup {None}
    /\ solo # None => Solo(solo)

\* The histories begin with nothing behind them.
LEMMA HistoryInit == MCInit => HistoryInv
<1> SUFFICES ASSUME MCInit PROVE HistoryInv
  OBVIOUS
<1>1. TypeInv /\ Init /\ calm = TRUE /\ solo = None
  BY InitType DEF MCInit
<1>2. \A t \in Turn : turn[t].pc = "idle" /\ turn[t].db
  BY <1>1 DEF Init
<1>3. Current = {} /\ IsFiniteSet(Current)
  <2>1. Current = {}
    BY <1>2 DEF Current, Running
  <2> QED  BY <2>1, FS_EmptySet
<1>4. IdleIsFresh /\ OneAtATime
  BY <1>2 DEF IdleIsFresh, OneAtATime, Running
<1>5. Known = {} /\ redis = None /\ client = [p \in Proc |-> "unset"]
  BY <1>1, <1>2 DEF Known, Init
<1>6. Tidy
  BY <1>2, <1>5 DEF Tidy, RowKnows, ClientsWork, RedisAgrees, Running
<1> QED  BY <1>1, <1>3, <1>4, <1>6 DEF HistoryInv

\* A step that leaves a calm history calm.
LEMMA CalmStep ==
    ASSUME HistoryInv, MCNext, calm', IsFiniteSet(Current')
    PROVE  OneAtATime' /\ Tidy'
<1>1. /\ TypeInv /\ IdleIsFresh /\ OneAtATime /\ Tidy
      /\ faults' = faults /\ deletions' = deletions /\ Cardinality(Current') <= 1
  BY DEF HistoryInv, MCNext, Observe
<1>2. OneAtATime'
  <2>1. ASSUME NEW t \in Turn, NEW u \in Turn, Running(t)', Running(u)'
        PROVE  t = u
    <3>1. t \in Current' /\ u \in Current'
      BY <2>1 DEF Current
    <3> DEFINE S == Current'
    <3>2. IsFiniteSet(S) /\ Cardinality(S) <= 1 /\ t \in S /\ u \in S
      BY <1>1, <3>1
    <3> HIDE DEF S
    <3> QED  BY <3>2, AtMostOne
  <2> QED  BY <2>1 DEF OneAtATime
<1>3. ASSUME NEW t \in Turn, TurnStep(t)
      PROVE  Tidy'
  <2>1. ASSUME NEW u \in Turn, u # t PROVE ~Running(u)
    <3>1. turn'[u] = turn[u]
      BY <1>1, <1>3, <2>1, TurnFrame
    <3>2. Running(u)' <=> Running(u)
      BY <3>1 DEF Running
    <3>3. Running(t) \/ Running(t)'
      BY <1>1, <1>3, TurnFrame
    <3> QED  BY <1>1, <1>2, <2>1, <3>2, <3>3 DEF OneAtATime
  <2> QED  BY <1>1, <1>3, <2>1, TidyReading, TidySaving DEF TurnStep
<1>4. ASSUME Expire PROVE Tidy'
  <2>1. UNCHANGED <<session, asked, answered, heap, cache, client, turn>> /\ redis' = None
    BY <1>4 DEF Expire, rows, objects
  <2>2. RowKnows' /\ ClientsWork' /\ RedisAgrees'
    BY <1>1, <2>1 DEF Tidy, RowKnows, ClientsWork, RedisAgrees, Known, Stored
  <2>3. \A t \in Turn : Running(t)' => OnTheWay(t)'
    BY <1>1, <2>1 DEF Tidy, OnTheWay, RedisAgrees, Running, Known, Stored, HasRedis
  <2> QED  BY <2>2, <2>3 DEF Tidy
<1>5. ~DeleteSession
  BY <1>1, Typed DEF DeleteSession
<1>6. \A p \in Proc : ~ProcDies(p)
  BY <1>1, Typed DEF ProcDies, Fault
<1> QED  BY <1>2, <1>3, <1>4, <1>5, <1>6 DEF MCNext, Next

\* A step that leaves a turn alone.
LEMMA AloneStep ==
    ASSUME HistoryInv, MCNext, solo' # None
    PROVE  \E t \in Turn : solo' = t /\ Solo(t)'
<1>1. TypeInv /\ IdleIsFresh /\ (solo # None => solo \in Turn /\ Solo(solo))
  BY DEF HistoryInv
<1>2. PICK t \in Turn : /\ t = solo' /\ Current' = {t} /\ (solo = t \/ Current = {})
                        /\ faults' = faults /\ deletions' = deletions
  <2>1. ~(faults' # faults \/ deletions' # deletions)
    BY DEF MCNext, Observe
  <2>2. \E t \in Turn : Current' = {t} /\ (solo = t \/ Current = {})
    BY DEF MCNext, Observe
  <2>3. solo' = CHOOSE t \in Turn : Current' = {t} /\ (solo = t \/ Current = {})
    BY <2>2, <2>1 DEF MCNext, Observe
  <2> QED  BY <2>1, <2>2, <2>3
<1>3. Running(t)' /\ \A u \in Turn : u # t => ~Running(u)'
  BY <1>2 DEF Current
<1>4. ASSUME solo = t PROVE Solo(t)
  BY <1>1, <1>4, ConversationAssumption
<1>5. \A u \in Turn : u # t => ~Running(u)
  <2>1. CASE solo = t
    BY <1>4, <2>1 DEF Solo
  <2>2. CASE Current = {}
    BY <2>2 DEF Current
  <2> QED  BY <1>2, <2>1, <2>2
<1>6. ASSUME NEW u \in Turn, TurnStep(u)
      PROVE  Solo(t)'
  <2>1. u = t
    <3>1. Running(u) \/ Running(u)'
      BY <1>1, <1>6, TurnFrame
    <3> QED  BY <1>3, <1>5, <3>1
  <2>2. CASE Running(t)
    <3>1. Current # {}
      BY <2>2 DEF Current
    <3> QED  BY <1>1, <1>2, <1>3, <1>4, <1>6, <2>1, <3>1, SoloStep
  <2>3. CASE ~Running(t)
    <3>1. Arrive(t)
      BY <1>1, <1>6, <2>1, <2>3, TurnFrame
    <3> QED  BY <1>1, <1>5, <2>3, <3>1, SoloArrives
  <2> QED  BY <2>2, <2>3
<1>7. ASSUME Expire PROVE Solo(t)'
  <2>1. UNCHANGED <<session, heap, cache, client, turn>> /\ redis' = None
    BY <1>7 DEF Expire, rows, objects
  <2>2. Running(t)
    BY <1>3, <2>1 DEF Running
  <2>3. Solo(t)
    <3>1. Current # {}
      BY <2>2 DEF Current
    <3> QED  BY <1>2, <1>4, <3>1
  <2> QED  BY <2>1, <2>3 DEF Solo, Running, HasRedis
<1>8. ~DeleteSession
  BY <1>1, <1>2, Typed DEF DeleteSession
<1>9. \A p \in Proc : ~ProcDies(p)
  BY <1>1, <1>2, Typed DEF ProcDies, Fault
<1>10. Solo(t)'
  BY <1>6, <1>7, <1>8, <1>9 DEF MCNext, Next
<1> QED  BY <1>2, <1>10

\* Every step keeps the invariant.
LEMMA HistoryStep == HistoryInv /\ [MCNext]_hvars => HistoryInv'
<1> SUFFICES ASSUME HistoryInv, [MCNext]_hvars PROVE HistoryInv'
  OBVIOUS
<1>1. TypeInv' /\ IsFiniteSet(Current') /\ IdleIsFresh'
  <2>1. [Next]_vars
    BY DEF MCNext, hvars
  <2> QED  BY <2>1, NextType, CurrentFinite, FreshStep DEF HistoryInv
<1>2. CASE MCNext
  <2>1. calm' \in BOOLEAN /\ (calm' => OneAtATime' /\ Tidy')
    BY <1>1, <1>2, CalmStep DEF MCNext, Observe
  <2>2. solo' \in Turn \cup {None} /\ (solo' # None => Solo(solo)')
    <3>1. ASSUME solo' # None PROVE solo' \in Turn /\ Solo(solo)'
      <4>1. PICK t \in Turn : solo' = t /\ Solo(t)'
        BY <1>2, <3>1, AloneStep
      <4> QED  BY <4>1 DEF Solo, HasRedis
    <3> QED  BY <3>1
  <2> QED  BY <1>1, <2>1, <2>2 DEF HistoryInv
<1>3. CASE UNCHANGED hvars
  <2>1. UNCHANGED <<session, asked, answered, redis, heap, cache, client, turn, calm, solo>>
    BY <1>3 DEF hvars, vars, rows, objects
  <2>2. (calm => OneAtATime /\ Tidy)'
    <3>1. OneAtATime => OneAtATime'
      BY <2>1 DEF OneAtATime, Running
    <3>2. Tidy => Tidy'
      BY <2>1 DEF Tidy, RowKnows, ClientsWork, RedisAgrees, OnTheWay, Known, Stored, Running, HasRedis
    <3> QED  BY <2>1, <3>1, <3>2 DEF HistoryInv
  <2>3. solo' \in Turn \cup {None} /\ (solo' # None => Solo(solo)')
    BY <2>1 DEF HistoryInv, Solo, Running, HasRedis
  <2> QED  BY <1>1, <2>1, <2>2, <2>3 DEF HistoryInv
<1> QED  BY <1>2, <1>3

\* The invariant holds in every reachable state.
LEMMA HistoryAlways == MCSpec => []HistoryInv
  BY HistoryInit, HistoryStep, PTL DEF MCSpec

\* While turns follow one another undisturbed, the memory a turn answers with
\* was updated by every turn that is done (get_memory).
THEOREM RemembersEveryTurnAlways == MCSpec => []RemembersEveryTurn
<1>1. HistoryInv => RemembersEveryTurn
  <2> SUFFICES ASSUME HistoryInv, calm, NEW t \in Turn, turn[t].pc = "answer"
               PROVE  {u \in Turn : turn[u].pc = "done"} \subseteq heap[turn[t].obj]
    BY DEF RemembersEveryTurn
  <2>1. Tidy /\ Running(t)
    BY DEF HistoryInv, Running
  <2> QED  BY <2>1 DEF Tidy, OnTheWay, Known
<1> QED  BY <1>1, HistoryAlways, PTL

\* And between such turns Redis holds nothing or what the row holds, which
\* includes every turn that was answered (save_memory).
THEOREM TiersAgreeAlways == MCSpec => []TiersAgree
<1>1. HistoryInv => TiersAgree
  <2> SUFFICES ASSUME HistoryInv, calm, Current = {}
               PROVE  /\ redis \in {None, session.memory}
                      /\ answered # {} => Stored /\ answered \subseteq session.memory
    BY DEF TiersAgree
  <2>1. Tidy /\ \A t \in Turn : ~Running(t)
    BY DEF HistoryInv, Current
  <2> QED  BY <2>1 DEF Tidy, RowKnows, RedisAgrees, Known
<1> QED  BY <1>1, HistoryAlways, PTL

\* One turn that runs alone and undisturbed in a process with Redis brings
\* the three tiers together, whatever came before it (save_memory).
THEOREM CleanTurnHealsAlways == MCSpec => CleanTurnHeals
<1> DEFINE Heals ==
      LET p == turn[solo].proc IN
      solo # None /\ turn[solo].pc = "reply" /\ turn'[solo].pc = "done" /\ client[p] = "redis"
        => /\ redis' \in {None, session'.memory}
           /\ heap'[cache'[p]] = session'.memory
           /\ solo \in session'.memory
<1>1. HistoryInv /\ [MCNext]_hvars => [Heals]_hvars
  <2> SUFFICES ASSUME HistoryInv, MCNext, solo # None, turn[solo].pc = "reply",
                      turn'[solo].pc = "done", client[turn[solo].proc] = "redis"
               PROVE  /\ redis' \in {None, session'.memory}
                      /\ heap'[cache'[turn[solo].proc]] = session'.memory
                      /\ solo \in session'.memory
    OBVIOUS
  <2>1. solo \in Turn /\ Solo(solo) /\ TypeInv
    BY DEF HistoryInv
  <2>2. /\ session.memory = heap[turn[solo].obj] /\ solo \in heap[turn[solo].obj]
        /\ cache[turn[solo].proc] = turn[solo].obj
        /\ redis \in {None, heap[turn[solo].obj]}
    BY <2>1 DEF Solo, HasRedis
  <2>3. TurnStep(solo)
    <3>1. turn'[solo] # turn[solo]
      OBVIOUS
    <3>2. ~DeleteSession /\ ~Expire
      BY <3>1 DEF DeleteSession, Expire
    <3>3. \A p \in Proc : ~ProcDies(p)
      BY <2>1, Typed DEF ProcDies, Served
    <3>4. PICK u \in Turn : TurnStep(u)
      BY <3>2, <3>3 DEF MCNext, Next
    <3> QED  BY <2>1, <3>1, <3>4, TurnFrame
  <2>4. UNCHANGED <<session, redis, heap, cache>>
    <3>1. Reply(solo) \/ Disconnect(solo)
      BY <2>3 DEF TurnStep, Arrive, Create, Ask, Refresh, LookForRedis, Connect, ReadRedis, MissRedis,
                  ReadRow, Warm, ReadLocal, AnswerFails, Harvest, Publish, Persist, PersistFails
    <3> QED  BY <3>1 DEF Reply, Disconnect, rows, objects
  <2> QED  BY <2>2, <2>4
<1>2. CleanTurnHeals <=> [][Heals]_hvars
  BY DEF CleanTurnHeals
<1> QED  BY <1>1, <1>2, HistoryAlways, PTL DEF MCSpec
=============================================================================
