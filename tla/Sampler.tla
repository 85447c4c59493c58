------------------------------ MODULE Sampler ------------------------------
(***************************************************************************)
(* The background sampler of hardware telemetry (observatory/sampler.py).  *)
(* Each worker runs one; a lease in Redis elects the one that measures.    *)
(* The others copy the measurement the elected one last published, which   *)
(* expires like the lease.  A worker that cannot reach Redis measures for  *)
(* itself.                                                                 *)
(*                                                                         *)
(* A tick is a unit of time.  The election of a round takes at most        *)
(* MaxElection ticks (the client's socket timeouts), a measurement at most *)
(* MaxProbe (nvidia-smi and its fallbacks), and a worker sleeps Interval   *)
(* ticks between two rounds.                                               *)
(***************************************************************************)
EXTENDS Naturals, FiniteSets

CONSTANTS Worker, Interval, LeaseTicks, LatestTicks, MaxElection, MaxProbe, MaxFaults, None

\* Assumed of the constants; an instance states it for the values it gives them.
SamplerAssumption ==
    /\ Interval \in Nat \ {0} /\ MaxElection \in Nat /\ MaxProbe \in Nat /\ MaxFaults \in Nat
    /\ LeaseTicks \in Nat \ {0} /\ LatestTicks \in Nat \ {0}
    /\ None \notin Nat \cup Worker

\* A round with the sleep before it, without and with its measurement; what
\* one failure may cost: the lease it leaves behind, an election this lease
\* spoils and a cycle; how old a sample can get after n failures; the age
\* from which two samples look the same.
Round == Interval + MaxElection
Cycle == Round + MaxProbe
FailureCost == LeaseTicks + MaxElection + Cycle
AgeAfter(n) == n * FailureCost + 2 * Cycle
Bound == AgeAfter(MaxFaults)
MaxAge == Bound + 1

\* What the lease of three intervals (sampler.py:75) is chosen for: the
\* leader is back before it expires.  How long a probe takes is up to the
\* host, nothing in the code enforces it.
RoundWithinLease == Interval + MaxElection + MaxProbe < LeaseTicks

\* The published copy outlives the lease, but not by much: max(15, 3 * interval)
\* and max(10, 3 * interval) seconds are equal from the default interval of
\* five seconds on.
CopyOutlivesLease == LeaseTicks <= LatestTicks /\ LatestTicks <= LeaseTicks + Cycle

VARIABLES
    redisUp,    \* Redis answers
    lease,      \* the key sampler_leader: its value and the ticks it has left
    latest,     \* the key hardware:latest: age of the measurement, ticks left
    loop,       \* where each worker's thread is, and since how many ticks
    shown,      \* age of the newest measurement in each worker's buffer
    outage,     \* Redis has failed at some time
    failures    \* failures so far, at most MaxFaults

vars == <<redisUp, lease, latest, loop, shown, outage, failures>>

NoKey == [value |-> None, left |-> 0]

TypeOK ==
    /\ redisUp \in BOOLEAN
    /\ lease \in [value : Worker \cup {None}, left : 0..LeaseTicks]
    /\ latest \in [value : 0..MaxAge \cup {None}, left : 0..LatestTicks]
    /\ loop \in [Worker -> [pc : {"off", "round", "elected", "follow", "renew", "measure",
                                  "publish", "sleep"},
                            ticks : 0..Interval + MaxElection + MaxProbe]]
    /\ shown \in [Worker -> 0..MaxAge]
    /\ outage \in BOOLEAN /\ failures \in 0..MaxFaults

Init ==
    /\ redisUp = TRUE /\ lease = NoKey /\ latest = NoKey
    /\ loop = [w \in Worker |-> [pc |-> "round", ticks |-> 0]]
    /\ shown = [w \in Worker |-> 0]
    /\ outage = FALSE /\ failures = 0

-----------------------------------------------------------------------------
At(w, pc) == loop[w].pc = pc
Goto(w, pc) == loop' = [loop EXCEPT ![w] = [pc |-> pc, ticks |-> 0]]
Election == {"round", "elected", "renew", "follow"}
Stay(w, pc) == loop' = [loop EXCEPT ![w].pc = pc]  \* still the same election

\* SET key value EX ticks.
Key(value, ticks) == [value |-> value, left |-> ticks]

\* SET lock_key pid NX EX lease_seconds.
Claim_NoExpiry(w) ==
    /\ At(w, "round") /\ redisUp
    /\ IF lease.value = None
       THEN lease' = Key(w, 0) /\ Goto(w, "measure")
       ELSE Stay(w, "elected") /\ UNCHANGED lease
    /\ UNCHANGED <<redisUp, latest, shown, outage, failures>>
Claim(w) ==
    /\ At(w, "round") /\ redisUp
    /\ IF lease.value = None
       THEN lease' = Key(w, LeaseTicks) /\ Goto(w, "measure")
       ELSE Stay(w, "elected") /\ UNCHANGED lease
    /\ UNCHANGED <<redisUp, latest, shown, outage, failures>>

\* GET lock_key: is it this worker that leads?  A lease that has just
\* expired reads as another's.
WhoLeads_Ignored(w) ==
    /\ At(w, "elected") /\ redisUp
    /\ Stay(w, "renew")
    /\ UNCHANGED <<redisUp, lease, latest, shown, outage, failures>>
WhoLeads(w) ==
    /\ At(w, "elected") /\ redisUp
    /\ Stay(w, IF lease.value = w THEN "renew" ELSE "follow")
    /\ UNCHANGED <<redisUp, lease, latest, shown, outage, failures>>

\* EXPIRE lock_key: whoever holds it by now.
Renew(w) ==
    /\ At(w, "renew") /\ redisUp
    /\ lease' = IF lease.value = None THEN NoKey ELSE Key(lease.value, LeaseTicks)
    /\ Goto(w, "measure")
    /\ UNCHANGED <<redisUp, latest, shown, outage, failures>>

\* A follower copies the published measurement, if there is one, into its
\* buffer and ends the round.
Follow(w) ==
    /\ At(w, "follow") /\ redisUp
    /\ shown' = IF latest.value = None THEN shown ELSE [shown EXCEPT ![w] = latest.value]
    /\ Goto(w, "sleep")
    /\ UNCHANGED <<redisUp, lease, latest, outage, failures>>

\* Any error of the election is logged and the worker goes on to measure.
\* A worker that never had Redis starts there.
ElectionError(w) ==
    /\ loop[w].pc \in Election /\ ~redisUp
    /\ Goto(w, "measure")
    /\ UNCHANGED <<redisUp, lease, latest, shown, outage, failures>>

\* CPU, memory and GPU are read and recorded in the worker's own buffer.
Measure(w) ==
    /\ At(w, "measure")
    /\ shown' = [shown EXCEPT ![w] = 0]
    /\ Goto(w, "publish")
    /\ UNCHANGED <<redisUp, lease, latest, outage, failures>>

\* SET hardware:latest payload EX.  An error is ignored.
Publish_NoExpiry(w) ==
    /\ At(w, "publish")
    /\ latest' = IF redisUp THEN Key(shown[w], 0) ELSE latest
    /\ Goto(w, "sleep")
    /\ UNCHANGED <<redisUp, lease, shown, outage, failures>>
Publish(w) ==
    /\ At(w, "publish")
    /\ latest' = IF redisUp THEN Key(shown[w], LatestTicks) ELSE latest
    /\ Goto(w, "sleep")
    /\ UNCHANGED <<redisUp, lease, shown, outage, failures>>

\* time.sleep(interval), then the next round of _sample_loop.
Wake(w) ==
    /\ At(w, "sleep") /\ loop[w].ticks = Interval
    /\ Goto(w, "round")
    /\ UNCHANGED <<redisUp, lease, latest, shown, outage, failures>>

\* A key with an expiry loses a tick, and goes with the last one.  One set
\* without an expiry (left = 0) stays.
Elapse(key) ==
    IF key.left = 1 THEN NoKey
    ELSE [key EXCEPT !.left = IF key.left = 0 THEN 0 ELSE key.left - 1]

GrowOld(age) == IF age \in Nat /\ age < MaxAge THEN age + 1 ELSE age

\* Time passes until a running thread is due.
Tick ==
    /\ \A w \in Worker : \/ At(w, "off")
                         \/ At(w, "sleep") /\ loop[w].ticks < Interval
                         \/ At(w, "measure") /\ loop[w].ticks < MaxProbe
                         \/ loop[w].pc \in Election /\ loop[w].ticks < MaxElection
    /\ lease' = Elapse(lease)
    /\ latest' = Elapse([latest EXCEPT !.value = GrowOld(latest.value)])
    /\ shown' = [w \in Worker |-> GrowOld(shown[w])]
    /\ loop' = [w \in Worker |->
                   IF At(w, "off") THEN loop[w]
                   ELSE [loop[w] EXCEPT !.ticks = loop[w].ticks + 1]]
    /\ UNCHANGED <<redisUp, outage, failures>>

\* A worker is killed, or stopped between two rounds, without giving the
\* lease back; its successor has another pid and is not modelled.
Stops(w) ==
    /\ failures < MaxFaults /\ failures' = failures + 1
    /\ ~At(w, "off") /\ Goto(w, "off")
    /\ UNCHANGED <<redisUp, lease, latest, shown, outage>>

RedisFails ==
    /\ redisUp /\ failures < MaxFaults
    /\ redisUp' = FALSE /\ outage' = TRUE /\ failures' = failures + 1
    /\ UNCHANGED <<lease, latest, loop, shown>>

RedisRecovers ==
    /\ ~redisUp /\ redisUp' = TRUE
    /\ UNCHANGED <<lease, latest, loop, shown, outage, failures>>

Next ==
    \/ \E w \in Worker :
          \/ Claim(w) \/ WhoLeads(w) \/ Renew(w) \/ Follow(w) \/ ElectionError(w)
          \/ Measure(w) \/ Publish(w) \/ Wake(w) \/ Stops(w)
    \/ Tick \/ RedisFails \/ RedisRecovers

-----------------------------------------------------------------------------
\* As long as Redis answers and a round is shorter than the lease, no two
\* workers measure at the same time, also when the leader stops and its
\* lease passes on ("only one worker process samples hardware", sampler.py:4).
OneSampler ==
    ~outage =>
        Cardinality({w \in Worker : At(w, "measure")}) <= 1

\* What a running worker shows was measured, or the worker started, not longer
\* ago than Bound: the lease of a stopped leader passes on, an outage delays
\* that by at most another lease, and the published copy expires, so that it
\* cannot hide for longer that nobody measures (sample_once).  Every failure
\* adds one FailureCost, however the failures and the rounds interleave.
FreshHardware ==
    \A w \in Worker : At(w, "off") \/ shown[w] <= Bound
=============================================================================
