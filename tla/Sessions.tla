------------------------------ MODULE Sessions ------------------------------
(***************************************************************************)
(* The number of signed-in users the dashboard shows                       *)
(* (observatory/buffer.py, app/dependencies.py, routes/auth.py).  Every    *)
(* authenticated request records its user in the memory of the worker, in  *)
(* a sorted set in Redis, and in a key of its own that expires; logging    *)
(* out removes the user from the three.  The count is the sorted set's,    *)
(* or, when that is empty, the number of keys, or else of the worker's     *)
(* own entries.                                                            *)
(*                                                                         *)
(* Time is relative: entries carry an age in ticks, and expire at Life     *)
(* (ACCESS_TOKEN_EXPIRE_MINUTES).                                          *)
(***************************************************************************)
EXTENDS Naturals, FiniteSets

CONSTANTS Worker, User, Call, Life, MaxRedisOutages, None

\* Assumed of the constants; an instance states it for the values it gives them.
SessionAssumption ==
    Life \in Nat \ {0} /\ MaxRedisOutages \in Nat /\ None \notin Nat \cup User

VARIABLES
    session,    \* [own, zset, key]: the age of each user's entry, or None
    call,       \* the authenticated requests being served
    seen,       \* age of each user's last request, Life + 1 at most
    signed,     \* "never", then "in" since a login or "out" since a logout
    reachable, redisOutages

vars == <<session, call, seen, signed, reachable, redisOutages>>

Nobody == [u \in User |-> None]
NoCall == [pc |-> "none", user |-> None, worker |-> None]

Init ==
    /\ session = [own |-> [w \in Worker |-> Nobody], zset |-> Nobody, key |-> Nobody]
    /\ call = [c \in Call |-> NoCall]
    /\ seen = [u \in User |-> Life + 1]
    /\ signed = [u \in User |-> "never"]
    /\ reachable \in BOOLEAN /\ redisOutages = 0

-----------------------------------------------------------------------------
\* zremrangebyscore 0 cutoff, and the comprehension over the worker's own
\* entries, which keeps those whose age is exactly the window.
Kept_OneTooYoung(entries) ==
    [u \in User |-> IF entries[u] # None /\ entries[u] + 1 >= Life THEN None ELSE entries[u]]
Kept(entries) == [u \in User |-> IF entries[u] # None /\ entries[u] >= Life THEN None ELSE entries[u]]
KeptOwn_Unpruned(entries) == entries
KeptOwn(entries) == [u \in User |-> IF entries[u] # None /\ entries[u] > Life THEN None ELSE entries[u]]
Some(entries) == {u \in User : entries[u] # None}
Entered(entries, u) == [entries EXCEPT ![u] = 0]
Without(entries, u) == [entries EXCEPT ![u] = None]
OnWorker(w, entries) == [session.own EXCEPT ![w] = entries]

\* login, or get_current_user of any authenticated request, a logout too:
\* the entry in the memory of the worker first ...
Visit(c, u, w, pc) ==
    /\ call[c].pc = "none"
    /\ session' = [session EXCEPT !.own = OnWorker(w, Entered(session.own[w], u))]
    /\ call' = [call EXCEPT ![c] = [pc |-> pc, user |-> u, worker |-> w]]
    /\ seen' = [seen EXCEPT ![u] = 0]
    /\ UNCHANGED <<reachable, redisOutages>>

Login(c, u, w) ==
    Visit(c, u, w, "record") /\ signed' = [signed EXCEPT ![u] = "in"]

\* A token stays valid after a logout, and its holder may go on.  That it
\* expires only takes requests away.
Authenticate(c, u, w) ==
    signed[u] # "never" /\ Visit(c, u, w, "record") /\ UNCHANGED signed

Logout(c, u, w) ==
    signed[u] # "never" /\ Visit(c, u, w, "record-logout") /\ UNCHANGED signed

\* ... then those in Redis.  A logout goes on to remove what was recorded.
Record(c) ==
    LET u == call[c].user IN
    /\ call[c].pc \in {"record", "record-logout"}
    /\ session' = IF reachable
                  THEN [session EXCEPT !.zset = Entered(Kept(session.zset), u),
                                       !.key = Entered(session.key, u)]
                  ELSE session
    /\ call' = [call EXCEPT ![c] = IF call[c].pc = "record" THEN NoCall
                                   ELSE [call[c] EXCEPT !.pc = "remove"]]
    /\ UNCHANGED <<seen, signed, reachable, redisOutages>>

\* remove_active_session, on the worker that serves the logout.
Remove(c) ==
    LET u == call[c].user
        w == call[c].worker
    IN /\ call[c].pc = "remove"
       /\ session' = [own |-> OnWorker(w, Without(session.own[w], u)),
                      zset |-> IF reachable THEN Without(session.zset, u) ELSE session.zset,
                      key |-> IF reachable THEN Without(session.key, u) ELSE session.key]
       /\ signed' = [signed EXCEPT ![u] = "out"]
       /\ call' = [call EXCEPT ![c] = NoCall]
       /\ UNCHANGED <<seen, reachable, redisOutages>>

\* get_active_sessions_count prunes what it looks at.
Count(w) ==
    /\ LET pruned == IF reachable THEN Kept(session.zset) ELSE session.zset
           inRedis == reachable /\ Some(pruned) \cup Some(session.key) # {}
       IN session' = [session EXCEPT
                         !.zset = pruned,
                         !.own = IF inRedis THEN session.own
                                 ELSE OnWorker(w, KeptOwn(session.own[w]))]
    /\ UNCHANGED <<call, seen, signed, reachable, redisOutages>>

Grow(age) == IF age \in Nat /\ age <= Life THEN age + 1 ELSE age
GrowAll(entries) == [u \in User |-> Grow(entries[u])]

\* A request is over within a tick.  The keys expire by themselves.
Tick ==
    /\ \A c \in Call : call[c].pc = "none"
    /\ session' = [own |-> [w \in Worker |-> GrowAll(session.own[w])],
                   zset |-> GrowAll(session.zset), key |-> Kept(GrowAll(session.key))]
    /\ seen' = GrowAll(seen)
    /\ UNCHANGED <<call, signed, reachable, redisOutages>>

RedisChanges ==
    /\ redisOutages < MaxRedisOutages
    /\ reachable' = ~reachable /\ redisOutages' = redisOutages + 1
    /\ UNCHANGED <<session, call, seen, signed>>

Next ==
    \/ \E c \in Call, u \in User, w \in Worker :
          Login(c, u, w) \/ Authenticate(c, u, w) \/ Logout(c, u, w)
    \/ \E c \in Call : Record(c) \/ Remove(c)
    \/ \E w \in Worker : Count(w)
    \/ Tick \/ RedisChanges

-----------------------------------------------------------------------------
\* The users a count on worker w stands for.
Counted(w) ==
    LET zset == Kept(session.zset) IN
    IF reachable /\ Some(zset) # {} THEN Some(zset)
    ELSE IF reachable /\ Some(session.key) # {} THEN Some(session.key)
    ELSE Some(KeptOwn(session.own[w]))

\* Whichever store answers, a user is counted only within the life of a
\* token after the last request of that user: what is left behind in one of
\* them, by an outage or by another worker's logout, expires
\* (get_active_sessions_count).
OnlyRecentUsers == \A w \in Worker : \A u \in Counted(w) : seen[u] <= Life

Busy(u) == \E c \in Call : call[c].user = u

\* While Redis was there all the time: a user who is signed in, was seen
\* within the life of a token and has no request under way is counted on
\* every worker, whatever logout the login overtook.
SignedInIsCounted ==
    redisOutages = 0 /\ reachable =>
        \A w \in Worker, u \in User :
            signed[u] = "in" /\ seen[u] < Life /\ ~Busy(u) => u \in Counted(w)
=============================================================================
