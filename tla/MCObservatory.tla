---------------------------- MODULE MCObservatory ----------------------------
(***************************************************************************)
(* The parts of the observatory, each for itself: they share no variable,  *)
(* so that their interleavings show nothing that the parts do not.  part,  *)
(* chosen at the start, says which one runs; the others stay as they       *)
(* began.                                                                  *)
(***************************************************************************)
EXTENDS Naturals

\* In the runs two ticks are an interval of the sampler or the life of a
\* snapshot; a lease is three intervals (sampler.py:75).
CONSTANTS
    Worker, None,
    Request, Lease, MaxFaults,              \* of the count of requests in flight
    Interval, LeaseTicks, LatestTicks,      \* of the sampler
    MaxElection, MaxProbe,
    Event, Kind, Reader, Window,            \* of the metrics
    MaxSamples, SnapshotTicks, MaxAggregation, MaxOutages, MaxResets,
    Buckets, MaxRequests, MaxHistogramResets, MaxLinkFailures,  \* of the histogram
    User, Call, Life, MaxRedisOutages       \* of the sessions

VARIABLES part,
    client, up, active, local, req, faults,
    redisUp, lease, latest, loop, shown, outage, failures,
    linked, samples, hourly, shared, snapshot, event, reader, reset, outages, resets,
    redisBuckets, redisCount, ownBuckets, ownCount, scrape, link, requests, histogramResets,
    linkFailures,
    session, call, seen, signed, reachable, redisOutages

C == INSTANCE Concurrency
S == INSTANCE Sampler
M == INSTANCE Metrics
E == INSTANCE Exposition
N == INSTANCE Sessions

\* Kind for the events {1, 2} of the runs.
TwoKinds ==
    <<[what |-> "request", system |-> FALSE, status |-> "failed", path |-> "scanner"],
      [what |-> "turn", route |-> "sql"]>>

ASSUME BoundsAssumption ==
    /\ C!LeaseAssumption /\ S!SamplerAssumption /\ M!MetricsAssumption
    /\ E!ExpositionAssumption /\ N!SessionAssumption

cVars == <<client, up, active, local, req, faults>>
sVars == <<redisUp, lease, latest, loop, shown, outage, failures>>
mVars == <<linked, samples, hourly, shared, snapshot, event, reader, reset, outages, resets>>
eVars == <<redisBuckets, redisCount, ownBuckets, ownCount, scrape, link, requests,
           histogramResets, linkFailures>>
nVars == <<session, call, seen, signed, reachable, redisOutages>>
vars == <<part, cVars, sVars, mVars, eVars, nVars>>

\* Where a part that does not run could begin in several ways, it does in one.
Init ==
    /\ part \in {"concurrency", "sampler", "metrics", "exposition", "sessions"}
    /\ C!Init /\ S!Init /\ M!Init /\ E!Init /\ N!Init
    /\ part # "concurrency" => \A w \in Worker : client[w] = "redis"
    /\ part # "exposition" => link
    /\ part # "sessions" => reachable

InConcurrency == part = "concurrency" /\ UNCHANGED <<part, sVars, mVars, eVars, nVars>>
InSampler == part = "sampler" /\ UNCHANGED <<part, cVars, mVars, eVars, nVars>>
InMetrics == part = "metrics" /\ UNCHANGED <<part, cVars, sVars, eVars, nVars>>
InExposition == part = "exposition" /\ UNCHANGED <<part, cVars, sVars, mVars, nVars>>
InSessions == part = "sessions" /\ UNCHANGED <<part, cVars, sVars, mVars, eVars>>

Next ==
    \/ \E r \in Request, w \in Worker : InConcurrency /\ C!Enter(r, w)
    \/ \E r \in Request : InConcurrency /\ C!Leave(r)
    \/ \E w \in Worker : InConcurrency /\ C!Prune(w)
    \/ \E w \in Worker : InConcurrency /\ C!WorkerDies(w)
    \/ InConcurrency /\ C!Tick
    \/ InConcurrency /\ C!RedisFails
    \/ InConcurrency /\ C!RedisRecovers
    \/ \E w \in Worker : InSampler /\ S!Claim(w)
    \/ \E w \in Worker : InSampler /\ S!WhoLeads(w)
    \/ \E w \in Worker : InSampler /\ S!Renew(w)
    \/ \E w \in Worker : InSampler /\ S!Follow(w)
    \/ \E w \in Worker : InSampler /\ S!ElectionError(w)
    \/ \E w \in Worker : InSampler /\ S!Measure(w)
    \/ \E w \in Worker : InSampler /\ S!Publish(w)
    \/ \E w \in Worker : InSampler /\ S!Wake(w)
    \/ \E w \in Worker : InSampler /\ S!Stops(w)
    \/ InSampler /\ S!Tick
    \/ InSampler /\ S!RedisFails
    \/ InSampler /\ S!RedisRecovers
    \/ \E e \in Event, w \in Worker : InMetrics /\ M!RecordLocal(e, w)
    \/ \E e \in Event : InMetrics /\ M!RecordShared(e)
    \/ \E g \in Reader, w \in Worker, range \in Window : InMetrics /\ M!GetSnapshot(g, w, range)
    \/ \E g \in Reader, w \in Worker, range \in Window : InMetrics /\ M!GetMetrics(g, w, range)
    \/ \E g \in Reader : InMetrics /\ M!Aggregate(g)
    \/ \E g \in Reader : InMetrics /\ M!StoreSnapshot(g)
    \/ \E g \in Reader : InMetrics /\ M!Reply(g)
    \/ \E w \in Worker : InMetrics /\ M!ResetLocal(w)
    \/ InMetrics /\ M!ResetShared
    \/ InMetrics /\ M!Tick
    \/ InMetrics /\ M!LinkChanges
    \/ \E d \in 1..Buckets + 1, here \in BOOLEAN : InExposition /\ E!Observe(d, here)
    \/ InExposition /\ E!BeginScrape
    \/ InExposition /\ E!ReadBucket
    \/ InExposition /\ E!ScrapeFails
    \/ InExposition /\ E!EndScrape
    \/ InExposition /\ E!Reset
    \/ InExposition /\ E!LinkFails
    \/ \E c \in Call, u \in User, w \in Worker : InSessions /\ N!Login(c, u, w)
    \/ \E c \in Call, u \in User, w \in Worker : InSessions /\ N!Authenticate(c, u, w)
    \/ \E c \in Call, u \in User, w \in Worker : InSessions /\ N!Logout(c, u, w)
    \/ \E c \in Call : InSessions /\ N!Record(c)
    \/ \E c \in Call : InSessions /\ N!Remove(c)
    \/ \E w \in Worker : InSessions /\ N!Count(w)
    \/ InSessions /\ N!Tick
    \/ InSessions /\ N!RedisChanges

Spec == Init /\ [][Next]_vars

-----------------------------------------------------------------------------
\* The types of every part's state.
TypeOK ==
    /\ part = "concurrency" => C!TypeOK
    /\ part = "sampler" => S!TypeOK
CountIsExact == part = "concurrency" => C!CountIsExact
LeasedOnly == part = "concurrency" => C!LeasedOnly
OneSampler == part = "sampler" => S!OneSampler
FreshHardware == part = "sampler" => S!FreshHardware
StalenessIsBounded == part = "metrics" => M!StalenessIsBounded
AggregatesAgree == part = "metrics" => M!AggregatesAgree
HistogramIsMonotone == part = "exposition" => E!HistogramIsMonotone
OnlyRecentUsers == part = "sessions" => N!OnlyRecentUsers
SignedInIsCounted == part = "sessions" => N!SignedInIsCounted
=============================================================================
