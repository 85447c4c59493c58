------------------------------ MODULE Metrics ------------------------------
(***************************************************************************)
(* The telemetry buffer (observatory/buffer.py): requests and chat turns   *)
(* are recorded in the memory of the worker that served them and then in   *)
(* counters of Redis shared by all workers; a dashboard reads the shared   *)
(* counters, or the worker's own when Redis fails, through a snapshot that *)
(* the worker keeps for SnapshotTicks.                                     *)
(*                                                                         *)
(* Everything recorded falls into the window a dashboard asks for.  Sets   *)
(* of events beside the counters are there for the properties: they say    *)
(* which events a counter stands for.                                      *)
(***************************************************************************)
EXTENDS Naturals, Sequences, SequencesExt, FiniteSets

CONSTANTS
    Worker, Event, Reader, Window,  \* Window: what a dashboard asks for
    Kind,           \* what each event is, see KindOK
    MaxSamples,     \* length of the ring buffer of a worker
    SnapshotTicks,  \* the snapshot is served while younger than this
    MaxAggregation, \* ticks an aggregation may take
    MaxOutages, MaxResets, None

KindOK(k) ==
    \/ k.what = "turn" /\ k.route \in {"rag", "sql"}
    \/ k.what = "request" /\ k.system \in BOOLEAN
                          /\ k.status \in {"ok", "denied", "missing", "failed"}
                          /\ k.path \in {"api", "scanner", "other"}

\* Assumed of the constants; an instance states it for the values it gives them.
MetricsAssumption ==
    /\ \A e \in Event : KindOK(Kind[e])
    /\ {MaxSamples, SnapshotTicks} \subseteq Nat \ {0}
    /\ {MaxAggregation, MaxOutages, MaxResets} \subseteq Nat

VARIABLES
    linked,     \* Redis answers
    samples,    \* _request_samples of each worker
    hourly,     \* route counts of each worker's hourly buckets
    shared,     \* the buckets in Redis: counters, and the events they count
    snapshot,   \* _cached_metrics of each worker, with its age
    event,      \* how far the recording of each event is
    reader,     \* get_metrics calls
    reset,      \* a reset has cleared its worker and not yet Redis
    outages, resets

vars == <<linked, samples, hourly, shared, snapshot, event, reader, reset, outages, resets>>

-----------------------------------------------------------------------------
(* What an event counts as (record_request).                               *)

\* The middleware reports 401 and 403 as "denied"; otherwise the path decides.
Route(k) ==
    IF k.what = "turn" THEN k.route
    ELSE IF k.status = "denied" THEN "denied"
    ELSE IF k.path = "scanner" THEN "scanner"
    ELSE None

IsRequest(k) == k.what = "request"
IsUser(k) == IsRequest(k) /\ ~k.system
IsAppError(k) == IsUser(k) /\ k.status = "failed"
IsScan(k) == IsRequest(k) /\ (Route(k) = "scanner" \/ (k.status = "missing" /\ k.path # "api"))

Routes == {"rag", "sql", "denied"}
NoRoutes == [r \in Routes |-> 0]
AddRoute(counts, k) == [r \in Routes |-> counts[r] + IF Route(k) = r THEN 1 ELSE 0]

NoCounts == [total |-> 0, user |-> 0, system |-> 0, app |-> 0, scan |-> 0]
One(b) == IF b THEN 1 ELSE 0

\* The increments of one pipeline in Redis.
Increment_ScannerFirst(c, k) ==
    [total |-> c.total + One(IsRequest(k)), user |-> c.user + One(IsUser(k)),
     system |-> c.system + One(IsRequest(k) /\ k.system),
     app |-> c.app + One(IsAppError(k) /\ ~IsScan(k)), scan |-> c.scan + One(IsScan(k))]
Increment(c, k) ==
    [total |-> c.total + One(IsRequest(k)), user |-> c.user + One(IsUser(k)),
     system |-> c.system + One(IsRequest(k) /\ k.system),
     app |-> c.app + One(IsAppError(k)), scan |-> c.scan + One(IsScan(k))]

\* The same figures from samples (the process-local fallback).
Tally(events) ==
    [total |-> Cardinality(events),
     user |-> Cardinality({e \in events : IsUser(Kind[e])}),
     system |-> Cardinality({e \in events : Kind[e].system}),
     app |-> Cardinality({e \in events : IsAppError(Kind[e])}),
     scan |-> Cardinality({e \in events : IsScan(Kind[e])})]

-----------------------------------------------------------------------------
Empty == [counts |-> NoCounts, routes |-> NoRoutes, events |-> {}]
NoRead == [pc |-> "idle", worker |-> None, range |-> None, age |-> 0, mode |-> None, got |-> Empty]

\* The most an answer can miss: the life of a snapshot, or the aggregation
\* it was computed by.
Staleness == IF MaxAggregation > SnapshotTicks - 1 THEN MaxAggregation ELSE SnapshotTicks - 1

\* The age from which no property tells two events apart.
OldAge == Staleness + 1

Init ==
    /\ linked = TRUE
    /\ samples = [w \in Worker |-> <<>>] /\ hourly = [w \in Worker |-> NoRoutes]
    /\ shared = Empty
    /\ snapshot = [w \in Worker |-> None]
    /\ event = [e \in Event |-> [pc |-> "new", age |-> 0]]
    /\ reader = [g \in Reader |-> NoRead]
    /\ reset = FALSE
    /\ outages = 0 /\ resets = 0

\* A deque of bounded length.
Push(list, e) == IF Len(list) < MaxSamples THEN Append(list, e) ELSE Append(Tail(list), e)

\* First half of record_request and record_turn_route, under the lock: the
\* worker's own samples and buckets, and the snapshot is dropped.
RecordLocal(e, w) ==
    /\ event[e].pc = "new"
    /\ event' = [event EXCEPT ![e] = [pc |-> "local", age |-> 0]]
    /\ samples' = IF IsRequest(Kind[e]) THEN [samples EXCEPT ![w] = Push(samples[w], e)]
                  ELSE samples
    /\ hourly' = [hourly EXCEPT ![w] = AddRoute(hourly[w], Kind[e])]
    /\ snapshot' = [snapshot EXCEPT ![w] = None]
    /\ UNCHANGED <<linked, shared, reader, reset, outages, resets>>

\* Second half: one pipeline of increments in Redis; an error is ignored.
RecordShared(e) ==
    /\ event[e].pc = "local"
    /\ event' = [event EXCEPT ![e] = [pc |-> IF linked THEN "shared" ELSE "lost", age |-> 0]]
    /\ shared' = IF linked
                 THEN [counts |-> Increment(shared.counts, Kind[e]),
                       routes |-> AddRoute(shared.routes, Kind[e]),
                       events |-> shared.events \cup {e}]
                 ELSE shared
    /\ UNCHANGED <<linked, samples, hourly, snapshot, reader, reset, outages, resets>>

\* get_metrics: under the lock the snapshot is looked up (its key also holds
\* the number of sessions, which only makes a hit rarer) ...
Fresh(s, range) == s # None /\ s.range = range /\ s.age < SnapshotTicks
GetSnapshot(g, w, range) ==
    /\ reader[g].pc = "idle" /\ Fresh(snapshot[w], range)
    /\ reader' = [reader EXCEPT ![g] =
                     [pc |-> "answer", worker |-> w, range |-> range, age |-> snapshot[w].age,
                      mode |-> snapshot[w].mode, got |-> snapshot[w].got]]
    /\ UNCHANGED <<linked, samples, hourly, shared, snapshot, event, reset, outages, resets>>

GetMetrics(g, w, range) ==
    /\ reader[g].pc = "idle" /\ ~Fresh(snapshot[w], range)
    /\ reader' = [reader EXCEPT ![g] = [pc |-> "read", worker |-> w, range |-> range, age |-> 0,
                                        mode |-> None, got |-> Empty]]
    /\ UNCHANGED <<linked, samples, hourly, shared, snapshot, event, reset, outages, resets>>

\* ... then, without it, the figures are read: the shared ones, or the
\* worker's own when Redis is absent or fails ...
OwnFigures(w) ==
    [counts |-> Tally(ToSet(samples[w])), routes |-> hourly[w], events |-> ToSet(samples[w])]
Aggregate(g) ==
    LET r == reader[g] IN
    /\ r.pc = "read"
    /\ reader' = [reader EXCEPT ![g] =
                     [pc |-> "store", worker |-> r.worker, range |-> r.range, age |-> r.age,
                      mode |-> IF linked THEN "redis" ELSE "local",
                      got |-> IF linked THEN shared ELSE OwnFigures(r.worker)]]
    /\ UNCHANGED <<linked, samples, hourly, shared, snapshot, event, reset, outages, resets>>

\* ... and the payload becomes the snapshot, dated by the start of the call.
StoreSnapshot_DatedNow(g) ==
    LET r == reader[g] IN
    /\ r.pc = "store"
    /\ snapshot' = [snapshot EXCEPT ![r.worker] =
                       [range |-> r.range, age |-> 0, mode |-> r.mode, got |-> r.got]]
    /\ reader' = [reader EXCEPT ![g].pc = "answer"]
    /\ UNCHANGED <<linked, samples, hourly, shared, event, reset, outages, resets>>
StoreSnapshot(g) ==
    LET r == reader[g] IN
    /\ r.pc = "store"
    /\ snapshot' = [snapshot EXCEPT ![r.worker] =
                       [range |-> r.range, age |-> r.age, mode |-> r.mode, got |-> r.got]]
    /\ reader' = [reader EXCEPT ![g].pc = "answer"]
    /\ UNCHANGED <<linked, samples, hourly, shared, event, reset, outages, resets>>

\* The answer leaves the server.
Reply(g) ==
    /\ reader[g].pc = "answer"
    /\ reader' = [reader EXCEPT ![g] = NoRead]
    /\ UNCHANGED <<linked, samples, hourly, shared, snapshot, event, reset, outages, resets>>

\* reset: the memory of the worker that serves it ...
ResetLocal(w) ==
    /\ ~reset /\ resets < MaxResets /\ resets' = resets + 1
    /\ reset' = TRUE
    /\ samples' = [samples EXCEPT ![w] = <<>>] /\ hourly' = [hourly EXCEPT ![w] = NoRoutes]
    /\ snapshot' = [snapshot EXCEPT ![w] = None]
    /\ UNCHANGED <<linked, shared, event, reader, outages>>

\* ... then the keys in Redis.
ResetShared ==
    /\ reset /\ reset' = FALSE
    /\ shared' = IF linked THEN Empty ELSE shared
    /\ event' = [e \in Event |-> IF linked /\ event[e].pc = "shared"
                                 THEN [pc |-> "forgotten", age |-> 0] ELSE event[e]]
    /\ UNCHANGED <<linked, samples, hourly, snapshot, reader, outages, resets>>

Later(age) == IF age < OldAge THEN age + 1 ELSE age

\* An aggregation takes at most MaxAggregation ticks, an answer leaves at once.
Tick ==
    /\ \A g \in Reader : \/ reader[g].pc = "idle"
                         \/ reader[g].pc \in {"read", "store"} /\ reader[g].age < MaxAggregation
    /\ snapshot' = [w \in Worker |-> IF snapshot[w] = None THEN None
                                     ELSE [snapshot[w] EXCEPT !.age = Later(snapshot[w].age)]]
    /\ event' = [e \in Event |-> IF event[e].pc \in {"shared", "forgotten"}
                                 THEN [event[e] EXCEPT !.age = Later(event[e].age)]
                                 ELSE event[e]]
    /\ reader' = [g \in Reader |-> IF reader[g].pc = "idle" THEN reader[g]
                                   ELSE [reader[g] EXCEPT !.age = reader[g].age + 1]]
    /\ UNCHANGED <<linked, samples, hourly, shared, reset, outages, resets>>

LinkChanges ==
    /\ outages < MaxOutages
    /\ linked' = ~linked /\ outages' = outages + 1
    /\ UNCHANGED <<samples, hourly, shared, snapshot, event, reader, reset, resets>>

Next ==
    \/ \E e \in Event, w \in Worker : RecordLocal(e, w)
    \/ \E e \in Event : RecordShared(e)
    \/ \E g \in Reader, w \in Worker, range \in Window :
          GetSnapshot(g, w, range) \/ GetMetrics(g, w, range)
    \/ \E g \in Reader : Aggregate(g) \/ StoreSnapshot(g) \/ Reply(g)
    \/ \E w \in Worker : ResetLocal(w)
    \/ ResetShared \/ Tick \/ LinkChanges

-----------------------------------------------------------------------------
\* An answer with figures of Redis counts every event that reached Redis
\* longer than Staleness ago, and none that a reset removed longer ago: a
\* recording or a reset that overlaps an aggregation, on any worker, is
\* missed for no longer than a snapshot lives, although the payload is stored
\* after the lock was released, over a snapshot dropped meanwhile
\* (get_metrics).
StalenessIsBounded ==
    \A g \in Reader : LET r == reader[g] IN
        r.pc = "answer" /\ r.mode = "redis" =>
            \A e \in Event : event[e].age > Staleness =>
                /\ event[e].pc = "shared" => e \in r.got.events
                /\ event[e].pc = "forgotten" => e \notin r.got.events

\* The counters kept in Redis by increments are the figures the fallback
\* computes from the samples of the same requests: both count user traffic,
\* application errors and scanner hits by the same rules (record_request,
\* get_metrics).
AggregatesAgree ==
    /\ shared.counts = Tally({e \in shared.events : IsRequest(Kind[e])})
    /\ \A w \in Worker : Len(samples[w]) <= MaxSamples
=============================================================================
