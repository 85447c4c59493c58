---------------------------- MODULE CatalogCache ----------------------------
(***************************************************************************)
(* CatalogManager (modules/rag_core/catalog/manager.py): a tenant's        *)
(* catalog in a dictionary of each process, in Redis, and in PostgreSQL.   *)
(* A catalog is named by the time at which PostgreSQL was asked for it,    *)
(* whether it answered or an error made an empty catalog of it.            *)
(***************************************************************************)
EXTENDS Naturals

CONSTANTS
    Proc,           \* server processes
    Turn,           \* the requests that ask for the catalog, one after the other
    Ttl,            \* _TTL_SECONDS, in ticks
    MaxFill,        \* ticks a request may take
    MaxTime

\* Assumed of the constants; an instance states it for the values it gives them.
CatalogAssumption == Ttl \in Nat \ {0} /\ MaxFill \in Nat /\ MaxTime \in Nat

VARIABLES
    now,
    l1,         \* _L1_CACHE of each process: the catalog and its expiry
    l2,         \* the key in Redis, likewise
    fill        \* the requests: where, since when, with what

catalogVars == <<now, l1, l2, fill>>

Nothing == [read |-> 0, expires |-> 0]
Idle == [pc |-> "idle", proc |-> "none", begun |-> 0, read |-> 0]

CatalogInit ==
    /\ now = 1
    /\ l1 = [p \in Proc |-> Nothing]
    /\ l2 = Nothing
    /\ fill = [t \in Turn |-> Idle]

Valid(entry) == now < entry.expires

-----------------------------------------------------------------------------
(* A mutant: every use of an entry prolongs its life.                      *)

ReadL1_Sliding(t, p) ==
    /\ fill[t].pc = "idle"
    /\ IF Valid(l1[p])
       THEN /\ fill' = [fill EXCEPT ![t] = [pc |-> "reply", proc |-> p, begun |-> now,
                                            read |-> l1[p].read]]
            /\ l1' = [l1 EXCEPT ![p].expires = now + Ttl]
       ELSE /\ fill' = [fill EXCEPT ![t] = [pc |-> "l2", proc |-> p, begun |-> now, read |-> 0]]
            /\ UNCHANGED l1
    /\ UNCHANGED <<now, l2>>

-----------------------------------------------------------------------------
(* get_tenant_catalog.  The clock is read once, at the beginning.          *)

ReadL1(t, p) ==
    /\ fill[t].pc = "idle"
    /\ fill' = [fill EXCEPT ![t] =
          IF Valid(l1[p])
          THEN [pc |-> "reply", proc |-> p, begun |-> now, read |-> l1[p].read]
          ELSE [pc |-> "l2", proc |-> p, begun |-> now, read |-> 0]]
    /\ UNCHANGED <<now, l1, l2>>

Hydrate(t, catalog) ==
    l1' = [l1 EXCEPT ![fill[t].proc] = [read |-> catalog, expires |-> fill[t].begun + Ttl]]

ReadL2(t) ==
    /\ fill[t].pc = "l2" /\ Valid(l2)
    /\ Hydrate(t, l2.read)
    /\ fill' = [fill EXCEPT ![t].pc = "reply", ![t].read = l2.read]
    /\ UNCHANGED <<now, l2>>

\* No value, no Redis, or an error: PostgreSQL, or an empty catalog.
Fetch(t) ==
    /\ fill[t].pc = "l2"
    /\ fill' = [fill EXCEPT ![t].pc = "store", ![t].read = now]
    /\ UNCHANGED <<now, l1, l2>>

\* Both tiers, of which the second may fail.
Store(t) ==
    /\ fill[t].pc = "store"
    /\ Hydrate(t, fill[t].read)
    /\ \/ UNCHANGED l2
       \/ l2' = [read |-> fill[t].read, expires |-> now + Ttl]
    /\ fill' = [fill EXCEPT ![t].pc = "reply"]
    /\ UNCHANGED now

Reply(t) ==
    /\ fill[t].pc = "reply"
    /\ fill' = [fill EXCEPT ![t] = Idle]
    /\ UNCHANGED <<now, l1, l2>>

\* evict: this process and, unless it fails, Redis.
Evict(p) ==
    /\ l1' = [l1 EXCEPT ![p] = Nothing]
    /\ l2' \in {l2, Nothing}
    /\ UNCHANGED <<now, fill>>

\* What has expired is forgotten, and no request takes longer than MaxFill.
Tick ==
    /\ now < MaxTime
    /\ \A t \in Turn : fill[t].pc # "idle" => now < fill[t].begun + MaxFill
    /\ now' = now + 1
    /\ l1' = [p \in Proc |-> IF now' < l1[p].expires THEN l1[p] ELSE Nothing]
    /\ l2' = IF now' < l2.expires THEN l2 ELSE Nothing
    /\ UNCHANGED fill

CatalogNext ==
    \/ \E t \in Turn : \/ \E p \in Proc : ReadL1(t, p)
                       \/ ReadL2(t) \/ Fetch(t) \/ Store(t) \/ Reply(t)
    \/ \E p \in Proc : Evict(p)
    \/ Tick

CatalogSpec == CatalogInit /\ [][CatalogNext]_catalogVars

-----------------------------------------------------------------------------
(* Properties.                                                             *)

\* The catalog a request is given was read from PostgreSQL (or was made empty
\* by an error) no longer ago than two lives of a cache entry, one in each
\* tier, and the time a request takes to store it and another to return it:
\* nothing but time drops a stale catalog from the other processes, and the
\* tiers do not prolong each other (get_tenant_catalog, evict).
CatalogIsRecent ==
    \A t \in Turn : fill[t].pc = "reply" => now <= fill[t].read + 2 * Ttl + 2 * MaxFill
=============================================================================
