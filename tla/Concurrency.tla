---------------------------- MODULE Concurrency ----------------------------
(***************************************************************************)
(* The count of requests in flight (observatory/buffer.py), as the ASGI    *)
(* middleware maintains it.  The workers of a deployment share a sorted    *)
(* set in Redis: one member per request, its score the time of arrival.    *)
(* A member whose score is a lease old no longer counts, so requests whose *)
(* worker died leave the count by themselves.  A worker without Redis, or  *)
(* whose call to Redis fails, counts in a variable of its own.             *)
(*                                                                         *)
(* Time is relative: scores and requests carry an age in ticks, which      *)
(* stops growing at Lease, the age from which a member counts as expired.  *)
(***************************************************************************)
EXTENDS Naturals, FiniteSets

CONSTANTS Worker, Request, Lease, MaxFaults, None

\* Assumed of the constants; an instance states it for the values it gives them.
LeaseAssumption ==
    /\ Lease \in Nat \ {0} /\ MaxFaults \in Nat
    /\ IsFiniteSet(Request) /\ None \notin Nat \cup Worker

VARIABLES
    client,     \* client[w]: what get_redis() found when w first called it
    up,         \* Redis answers
    active,     \* the sorted set: age of each member, None when absent
    local,      \* _current_concurrency of each worker
    req,        \* the request, from the middleware's entry to its finally
    faults      \* failures so far, at most MaxFaults

vars == <<client, up, active, local, req, faults>>

Age == 0..Lease
Idle == [pc |-> "new", worker |-> None, age |-> 0]

TypeOK ==
    /\ client \in [Worker -> {"redis", "none"}]
    /\ up \in BOOLEAN
    /\ active \in [Request -> Age \cup {None}]
    /\ local \in [Worker -> 0..2 * Cardinality(Request)]
    /\ req \in [Request -> [pc : {"new", "running", "over"}, worker : Worker \cup {None}, age : Age]]
    /\ faults \in 0..MaxFaults

Init ==
    /\ client \in [Worker -> {"redis", "none"}]
    /\ up = TRUE
    /\ active = [r \in Request |-> None]
    /\ local = [w \in Worker |-> 0]
    /\ req = [r \in Request |-> Idle]
    /\ faults = 0

-----------------------------------------------------------------------------
Served(w) == {r \in Request : req[r].pc = "running" /\ req[r].worker = w}

Reaches(w) == client[w] = "redis" /\ up

\* zremrangebyscore: drop the members whose lease is over.
Unexpired_Never(set) == set
Unexpired(set) == [r \in Request |-> IF set[r] = Lease THEN None ELSE set[r]]

Members(set) == {r \in Request : set[r] # None}

\* The pipeline shared by both operations: prune, change, count.  The
\* worker's own variable is set to the count Redis returned.
ThroughRedis(w, changed) ==
    /\ active' = Unexpired(changed)
    /\ local' = [local EXCEPT ![w] = Cardinality(Members(active'))]

LocalOnly(w, n) ==
    /\ local' = [local EXCEPT ![w] = n]
    /\ UNCHANGED active

AddMember(r) == [active EXCEPT ![r] = 0]

RemoveMember_Forgotten(r) == active
RemoveMember(r) == [active EXCEPT ![r] = None]

\* max(0, n - 1): an entry may have gone to Redis, or expired there.
Unless0_Plain(n) == n - 1
Unless0(n) == IF n = 0 THEN 0 ELSE n - 1

\* The middleware enters a request of a user: increment_concurrency.
Enter(r, w) ==
    /\ req[r].pc = "new"
    /\ req' = [req EXCEPT ![r] = [pc |-> "running", worker |-> w, age |-> 0]]
    /\ IF Reaches(w) THEN ThroughRedis(w, AddMember(r))
                     ELSE LocalOnly(w, local[w] + 1)
    /\ UNCHANGED <<client, up, faults>>

\* The finally block of the middleware, reached when the response is
\* complete, the application raised or the client left.
Leave(r) ==
    LET w == req[r].worker IN
    /\ req[r].pc = "running"
    /\ req' = [req EXCEPT ![r].pc = "over"]
    /\ IF Reaches(w) THEN ThroughRedis(w, RemoveMember(r))
                     ELSE LocalOnly(w, Unless0(local[w]))
    /\ UNCHANGED <<client, up, faults>>

\* current_concurrency prunes the set before it counts.
Prune(w) ==
    /\ Reaches(w)
    /\ active' = Unexpired(active)
    /\ UNCHANGED <<client, up, local, req, faults>>

Older(age) == IF age \in Nat /\ age < Lease THEN age + 1 ELSE age

\* The id of a request is never used again; here it is, when a lease has
\* passed since the request came and it is over and forgotten.
Aged(r) ==
    IF \/ req[r].pc = "new"
       \/ req[r].pc = "over" /\ req[r].age = Lease /\ active[r] = None
    THEN Idle
    ELSE [req[r] EXCEPT !.age = Older(req[r].age)]

Tick ==
    /\ active' = [r \in Request |-> Older(active[r])]
    /\ req' = [r \in Request |-> Aged(r)]
    /\ UNCHANGED <<client, up, local, faults>>

\* A worker is killed: none of its requests reaches its finally block.
\* Its successor looks for Redis anew.
WorkerDies(w) ==
    /\ faults < MaxFaults /\ faults' = faults + 1
    /\ req' = [r \in Request |->
                  IF r \in Served(w) THEN [req[r] EXCEPT !.pc = "over"] ELSE req[r]]
    /\ local' = [local EXCEPT ![w] = 0]
    /\ client' = [client EXCEPT ![w] = IF up THEN "redis" ELSE "none"]
    /\ UNCHANGED <<up, active>>

RedisFails ==
    /\ up /\ faults < MaxFaults
    /\ up' = FALSE /\ faults' = faults + 1
    /\ UNCHANGED <<client, active, local, req>>

RedisRecovers ==
    /\ ~up /\ up' = TRUE
    /\ UNCHANGED <<client, active, local, req, faults>>

Next ==
    \/ \E r \in Request, w \in Worker : Enter(r, w)
    \/ \E r \in Request : Leave(r)
    \/ \E w \in Worker : Prune(w) \/ WorkerDies(w)
    \/ Tick \/ RedisFails \/ RedisRecovers

-----------------------------------------------------------------------------
\* What a reader of worker w is told (current_concurrency).
Shown(w) ==
    IF Reaches(w) THEN Cardinality(Members(Unexpired(active))) ELSE local[w]

\* The requests a lease still stands for.
Young == {r \in Request : req[r].pc = "running" /\ req[r].age < Lease}

\* As long as nothing failed, a worker with Redis shows exactly the running
\* requests, of every such worker, that are younger than the lease, and a
\* worker without Redis all of its own: every exit of a request takes back
\* what its entry added, whatever overlaps (increment_concurrency,
\* decrement_concurrency).
CountIsExact ==
    faults = 0 => \A w \in Worker :
        Shown(w) = IF client[w] = "redis"
                   THEN Cardinality({r \in Young : client[req[r].worker] = "redis"})
                   ELSE Cardinality(Served(w))

\* Whatever failed, a worker that reaches Redis shows no request that came a
\* lease ago or longer: one whose worker died, or whose exit Redis missed,
\* leaves the count by itself ("self-healing leases").
LeasedOnly ==
    \A w \in Worker : Reaches(w) =>
        Shown(w) <= Cardinality({r \in Request : req[r].pc # "new" /\ req[r].age < Lease})
=============================================================================
