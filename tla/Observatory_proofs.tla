-------------------------- MODULE Observatory_proofs --------------------------
(***************************************************************************)
(* Proofs about the observatory, part by part, for any workers, requests,   *)
(* events and users and any values of the bounds of MCObservatory.          *)
(***************************************************************************)
EXTENDS MCObservatory, Integers, Sequences, FiniteSetTheorems, TLAPS

-----------------------------------------------------------------------------
(* One part runs, by its own steps.                                         *)

\* A step is one of the part that runs, or changes nothing of it.
LEMMA Parts ==
    ASSUME [Next]_vars
    PROVE  /\ part' = part
           /\ part = "concurrency" => [C!Next]_(C!vars)
           /\ part = "sampler" => [S!Next]_(S!vars)
           /\ part = "metrics" => [M!Next]_(M!vars)
           /\ part = "exposition" => [E!Next]_(E!vars)
           /\ part = "sessions" => [N!Next]_(N!vars)
<1>1. part' = part
  BY DEF Next, vars, InConcurrency, InSampler, InMetrics, InExposition, InSessions
<1>2. CASE part = "concurrency"
  BY <1>1, <1>2 DEF Next, vars, cVars, C!Next, C!vars,
                    InConcurrency, InSampler, InMetrics, InExposition, InSessions
<1>3. CASE part = "sampler"
  BY <1>1, <1>3 DEF Next, vars, sVars, S!Next, S!vars,
                    InConcurrency, InSampler, InMetrics, InExposition, InSessions
<1>4. CASE part = "metrics"
  BY <1>1, <1>4 DEF Next, vars, mVars, M!Next, M!vars,
                    InConcurrency, InSampler, InMetrics, InExposition, InSessions
<1>5. CASE part = "exposition"
  BY <1>1, <1>5 DEF Next, vars, eVars, E!Next, E!vars,
                    InConcurrency, InSampler, InMetrics, InExposition, InSessions
<1>6. CASE part = "sessions"
  BY <1>1, <1>6 DEF Next, vars, nVars, N!Next, N!vars,
                    InConcurrency, InSampler, InMetrics, InExposition, InSessions
<1> QED  BY <1>1, <1>2, <1>3, <1>4, <1>5, <1>6

-----------------------------------------------------------------------------
(* The histogram.  Both sets of buckets are monotone at every moment; the    *)
(* buckets a scrape has read are, and are no more than those it will read.   *)

Monotone(buckets) == \A b, c \in E!Bucket : b <= c => buckets[b] <= buckets[c]

HistogramTypeOK ==
    /\ redisBuckets \in [E!Bucket -> Nat] /\ ownBuckets \in [E!Bucket -> Nat]
    /\ redisCount \in Nat /\ ownCount \in Nat /\ link \in BOOLEAN
    /\ scrape \in [next : 0..Buckets + 1, buckets : [E!Bucket -> Nat], count : Nat,
                   reset : BOOLEAN]

ScrapeInOrder ==
    ~scrape.reset =>
        /\ scrape.next \in E!Bucket =>
              \A b, c \in E!Bucket : b <= c /\ c < scrape.next =>
                  /\ scrape.buckets[b] <= scrape.buckets[c]
                  /\ scrape.buckets[c] <= redisBuckets[c]
        /\ scrape.next = Buckets + 1 => Monotone(scrape.buckets)

HistogramInv ==
    /\ HistogramTypeOK
    /\ Monotone(redisBuckets) /\ Monotone(ownBuckets)
    /\ ScrapeInOrder

\* Recording a duration keeps a histogram one.
LEMMA AddMonotone ==
    ASSUME E!ExpositionAssumption, NEW h \in [E!Bucket -> Nat], Monotone(h), NEW d \in 1..Buckets + 1
    PROVE  /\ E!Add(h, d) \in [E!Bucket -> Nat] /\ Monotone(E!Add(h, d))
           /\ \A b \in E!Bucket : h[b] <= E!Add(h, d)[b]
  BY DEF E!ExpositionAssumption, Monotone, E!Add, E!Bucket

\* Every step of a recording, a scrape or a reset keeps the types.
LEMMA HistogramTyping ==
    ASSUME E!ExpositionAssumption, HistogramTypeOK, [E!Next]_(E!vars)
    PROVE  HistogramTypeOK'
<1> USE DEF HistogramTypeOK
<1>0. E!Zero \in [E!Bucket -> Nat] /\ Buckets + 1 \in 0..Buckets + 1 /\ 0 \in 0..Buckets + 1
  BY DEF E!Zero, E!ExpositionAssumption
<1>1. ASSUME NEW d \in 1..Buckets + 1, NEW here \in BOOLEAN, E!Observe(d, here)
      PROVE  HistogramTypeOK'
  <2>1. ASSUME NEW h \in [E!Bucket -> Nat] PROVE E!Add(h, d) \in [E!Bucket -> Nat]
    BY DEF E!Add
  <2> QED  BY <1>1, <2>1 DEF E!Observe
<1>2. CASE E!BeginScrape
  BY <1>0, <1>2 DEF E!BeginScrape, E!ExpositionAssumption
<1>3. CASE E!ReadBucket
  <2> DEFINE b == scrape.next
             read == [scrape.buckets EXCEPT ![b] = redisBuckets[b]]
  <2>1. b \in E!Bucket /\ b + 1 \in 0..Buckets + 1 /\ read \in [E!Bucket -> Nat]
    BY <1>3 DEF E!ReadBucket, E!Bucket, E!ExpositionAssumption
  <2>2. /\ scrape' = [scrape EXCEPT !.next = b + 1, !.buckets = read]
        /\ UNCHANGED <<redisBuckets, ownBuckets, redisCount, ownCount, link>>
    BY <1>3 DEF E!ReadBucket
  <2> HIDE DEF b, read
  <2> QED  BY <2>1, <2>2
<1>4. CASE E!ScrapeFails
  <2>1. /\ scrape' = [scrape EXCEPT !.next = Buckets + 1, !.buckets = ownBuckets]
        /\ UNCHANGED <<redisBuckets, ownBuckets, redisCount, ownCount, link>>
    BY <1>4 DEF E!ScrapeFails
  <2> QED  BY <1>0, <2>1
<1>5. CASE E!EndScrape
  <2>1. /\ scrape' = E!NoScrape
        /\ UNCHANGED <<redisBuckets, ownBuckets, redisCount, ownCount, link>>
    BY <1>5 DEF E!EndScrape
  <2> QED  BY <1>0, <2>1 DEF E!NoScrape
<1>6. CASE E!Reset
  <2> DEFINE over == scrape.reset \/ scrape.next # 0
  <2>1. /\ scrape' = [scrape EXCEPT !.reset = over] /\ over \in BOOLEAN
        /\ redisBuckets' \in {redisBuckets, E!Zero} /\ ownBuckets' = E!Zero
        /\ redisCount' \in {redisCount, 0} /\ ownCount' = 0 /\ UNCHANGED link
    BY <1>6 DEF E!Reset
  <2> HIDE DEF over
  <2> QED  BY <1>0, <2>1
<1>7. CASE E!LinkFails
  BY <1>7 DEF E!LinkFails
<1>8. CASE UNCHANGED E!vars
  BY <1>8 DEF E!vars
<1> QED  BY <1>1, <1>2, <1>3, <1>4, <1>5, <1>6, <1>7, <1>8 DEF E!Next

\* Every step keeps the buckets in order.
LEMMA HistogramStep ==
    ASSUME E!ExpositionAssumption, HistogramInv, [E!Next]_(E!vars)
    PROVE  HistogramInv'
<1> USE DEF HistogramInv
<1>t. HistogramTypeOK'
  BY HistogramTyping
<1>0. /\ redisBuckets \in [E!Bucket -> Nat] /\ ownBuckets \in [E!Bucket -> Nat]
      /\ scrape.next \in 0..Buckets + 1 /\ scrape.buckets \in [E!Bucket -> Nat]
      /\ scrape.reset \in BOOLEAN
  BY DEF HistogramTypeOK
<1>z. E!Zero \in [E!Bucket -> Nat] /\ Monotone(E!Zero)
  BY DEF E!Zero, Monotone, E!Bucket
<1>1. ASSUME NEW d \in 1..Buckets + 1, NEW here \in BOOLEAN, E!Observe(d, here)
      PROVE  HistogramInv'
  <2>1. /\ UNCHANGED scrape
        /\ ownBuckets' \in {ownBuckets, E!Add(ownBuckets, d)}
        /\ redisBuckets' \in {redisBuckets, E!Add(redisBuckets, d)}
    BY <1>1 DEF E!Observe
  <2>2. \A b \in E!Bucket : redisBuckets[b] <= redisBuckets'[b] /\ redisBuckets'[b] \in Nat
    BY <1>0, <2>1, AddMonotone
  <2>3. ScrapeInOrder'
    <3>1. scrape' = scrape
      BY <2>1
    <3> QED  BY <1>0, <2>2, <3>1 DEF ScrapeInOrder, Monotone
  <2>4. Monotone(redisBuckets)' /\ Monotone(ownBuckets)'
    BY <1>0, <2>1, AddMonotone DEF Monotone
  <2> QED  BY <1>t, <2>3, <2>4
<1>2. CASE E!BeginScrape
  <2>1. /\ UNCHANGED <<redisBuckets, ownBuckets>> /\ scrape'.buckets = ownBuckets
        /\ scrape'.next \in {1, Buckets + 1}
    BY <1>2 DEF E!BeginScrape
  <2>2. Monotone(scrape'.buckets) /\ Monotone(redisBuckets') /\ Monotone(ownBuckets')
    BY <2>1
  <2>3. \A c \in E!Bucket : c < scrape'.next /\ scrape'.next \in E!Bucket => FALSE
    BY <2>1 DEF E!Bucket, E!ExpositionAssumption
  <2>4. ScrapeInOrder'
    BY <2>2, <2>3 DEF ScrapeInOrder, Monotone
  <2> QED  BY <1>t, <2>2, <2>4 DEF Monotone
<1>3. CASE E!ReadBucket
  <2> DEFINE b == scrape.next
             read == [scrape.buckets EXCEPT ![b] = redisBuckets[b]]
  <2>0. /\ b \in E!Bucket /\ UNCHANGED <<redisBuckets, ownBuckets>>
        /\ scrape' = [scrape EXCEPT !.next = b + 1, !.buckets = read]
        /\ scrape \in [next : 0..Buckets + 1, buckets : [E!Bucket -> Nat], count : Nat,
                       reset : BOOLEAN]
    BY <1>3 DEF E!ReadBucket, HistogramTypeOK
  <2> HIDE DEF read
  <2>1. scrape'.next = b + 1 /\ scrape'.reset = scrape.reset /\ scrape'.buckets = read
    BY <2>0
  <2>2. read \in [E!Bucket -> Nat] /\ read[b] = redisBuckets[b]
        /\ \A c \in E!Bucket : c # b => read[c] = scrape.buckets[c]
    BY <1>0, <2>0 DEF read
  <2>3. b \in 1..Buckets /\ Buckets \in Nat
    BY <2>0 DEF E!Bucket, E!ExpositionAssumption
  <2> HIDE DEF b
  <2>4. ASSUME ~scrape.reset, NEW a \in E!Bucket, NEW c \in E!Bucket, a <= c, c <= b
        PROVE  read[a] <= read[c] /\ read[c] <= redisBuckets[c]
    <3>1. \A i, j \in E!Bucket : i <= j /\ j < b =>
              scrape.buckets[i] <= scrape.buckets[j] /\ scrape.buckets[j] <= redisBuckets[j]
      BY <2>0, <2>4 DEF ScrapeInOrder, b
    <3>2. a \in Int /\ c \in Int
      BY DEF E!Bucket
    <3>3. redisBuckets[a] <= redisBuckets[c]
      BY <2>4 DEF Monotone
    <3>4. CASE c # b
      BY <2>2, <2>3, <2>4, <3>1, <3>2, <3>4
    <3>5. CASE c = b /\ a # b
      <4>1. a <= a /\ a < b
        BY <2>3, <2>4, <3>2, <3>5
      <4>2. scrape.buckets[a] <= redisBuckets[a]
        BY <3>1, <4>1
      <4> QED  BY <1>0, <2>2, <3>3, <3>5, <4>2
    <3>6. CASE c = b /\ a = b
      BY <1>0, <2>2, <3>6
    <3> QED  BY <3>4, <3>5, <3>6
  <2>s. ASSUME NEW c \in E!Bucket, c < scrape'.next \/ scrape'.next = Buckets + 1
        PROVE  c <= b
    BY <2>1, <2>3, <2>s DEF E!Bucket
  <2>5. ScrapeInOrder'
    BY <2>0, <2>1, <2>4, <2>s DEF ScrapeInOrder, Monotone
  <2> QED  BY <1>t, <2>0, <2>5 DEF Monotone
<1>4. CASE E!ScrapeFails
  <2>1. UNCHANGED <<redisBuckets, ownBuckets>> /\ scrape'.buckets = ownBuckets
        /\ scrape'.next = Buckets + 1
    BY <1>4 DEF E!ScrapeFails, HistogramTypeOK
  <2> QED  BY <1>t, <2>1 DEF ScrapeInOrder, Monotone, E!Bucket, E!ExpositionAssumption
<1>5. CASE E!EndScrape
  <2>1. UNCHANGED <<redisBuckets, ownBuckets>> /\ scrape'.next = 0
    BY <1>5 DEF E!EndScrape, E!NoScrape
  <2> QED  BY <1>t, <2>1 DEF ScrapeInOrder, Monotone, E!Bucket, E!ExpositionAssumption
<1>6. CASE E!Reset
  <2>1. /\ ownBuckets' = E!Zero /\ redisBuckets' \in {redisBuckets, E!Zero}
        /\ scrape'.next = scrape.next /\ scrape'.buckets = scrape.buckets
        /\ ~scrape'.reset => scrape.next = 0
    BY <1>6 DEF E!Reset, HistogramTypeOK
  <2>2. ScrapeInOrder'
    BY <2>1 DEF ScrapeInOrder, E!Bucket, E!ExpositionAssumption
  <2>3. Monotone(redisBuckets)' /\ Monotone(ownBuckets)'
    BY <1>z, <2>1 DEF Monotone
  <2> QED  BY <1>t, <2>2, <2>3
<1>7. CASE E!LinkFails \/ UNCHANGED E!vars
  <2>1. UNCHANGED <<redisBuckets, ownBuckets, scrape>>
    BY <1>7 DEF E!LinkFails, E!vars
  <2> QED  BY <1>t, <2>1 DEF ScrapeInOrder, Monotone
<1> QED  BY <1>1, <1>2, <1>3, <1>4, <1>5, <1>6, <1>7 DEF E!Next

\* For any number of buckets, a scrape that no reset overlapped exposes
\* buckets that do not fall, whatever is recorded between two reads and
\* wherever Redis fails (_to_prometheus_text, record_request).
THEOREM HistogramIsMonotoneAlways == Spec => []HistogramIsMonotone
<1> DEFINE Inv == part = "exposition" => HistogramInv
<1>1. Init => Inv
  BY BoundsAssumption DEF Init, E!Init, E!NoScrape, E!Zero, HistogramInv, HistogramTypeOK,
     ScrapeInOrder, Monotone, E!Bucket, E!ExpositionAssumption
<1>2. Inv /\ [Next]_vars => Inv'
  BY Parts, HistogramStep, BoundsAssumption
<1>3. Inv => HistogramIsMonotone
  BY DEF HistogramIsMonotone, E!HistogramIsMonotone, HistogramInv, ScrapeInOrder, Monotone
<1> QED  BY <1>1, <1>2, <1>3, PTL DEF Spec


-----------------------------------------------------------------------------
(* The count of requests in flight.                                         *)

\* The requests a set of which is counted are finitely many.
LEMMA RequestsAreFinite ==
    ASSUME C!LeaseAssumption, NEW T \in SUBSET Request
    PROVE  /\ IsFiniteSet(T) /\ C!Cardinality(T) = Cardinality(T)
           /\ Cardinality(T) \in Nat /\ Cardinality(T) <= Cardinality(Request)
           /\ Cardinality(Request) \in Nat
<1>1. IsFiniteSet(Request)
  BY DEF C!LeaseAssumption, C!IsFiniteSet, IsFiniteSet
<1>2. IsFiniteSet(T) /\ Cardinality(T) <= Cardinality(Request)
  BY <1>1, FS_Subset
<1>3. Cardinality(T) \in Nat /\ Cardinality(Request) \in Nat
  BY <1>1, <1>2, FS_CardinalityType
<1>4. C!Cardinality(T) = Cardinality(T)
  BY DEF C!Cardinality, Cardinality
<1> QED  BY <1>2, <1>3, <1>4

\* A set of requests that gains or loses one changes its count by one.
LEMMA CountByOne ==
    ASSUME C!LeaseAssumption, NEW T \in SUBSET Request, NEW r \in Request
    PROVE  /\ r \notin T => C!Cardinality(T \cup {r}) = C!Cardinality(T) + 1
           /\ r \in T => C!Cardinality(T) # 0 /\ C!Cardinality(T \ {r}) = C!Cardinality(T) - 1
<1>1. IsFiniteSet(T)
  BY RequestsAreFinite
<1>2. /\ r \notin T => Cardinality(T \cup {r}) = Cardinality(T) + 1
      /\ r \in T => Cardinality(T \ {r}) = Cardinality(T) - 1
  BY <1>1, FS_AddElement, FS_RemoveElement
<1>3. r \in T => Cardinality(T) # 0
  BY <1>1, FS_EmptySet
<1>4. T \cup {r} \in SUBSET Request /\ T \ {r} \in SUBSET Request
  OBVIOUS
<1> QED  BY <1>2, <1>3, <1>4, RequestsAreFinite

InFlight == [pc : {"new", "running", "over"}, worker : Worker \cup {None}, age : C!Age]

InFlightTypeOK ==
    /\ client \in [Worker -> {"redis", "none"}]
    /\ up \in BOOLEAN
    /\ active \in [Request -> C!Age \cup {None}]
    /\ local \in [Worker -> Nat]
    /\ req \in [Request -> InFlight]
    /\ faults \in 0..MaxFaults

\* A member has the age of its request; a worker's own variable stays below
\* twice the number of requests; and without a failure the members are the
\* running requests of the workers with Redis, the others count their own.
InFlightInv ==
    /\ InFlightTypeOK
    /\ \A r \in Request :
          /\ req[r].pc = "running" => req[r].worker \in Worker
          /\ active[r] # None => req[r].pc # "new" /\ active[r] = req[r].age
    /\ \A w \in Worker : local[w] <= C!Cardinality(Request) + C!Cardinality(C!Served(w))
    /\ faults = 0 =>
          /\ up
          /\ \A r \in Request :
                /\ active[r] # None => req[r].pc = "running" /\ client[req[r].worker] = "redis"
                /\ /\ req[r].pc = "running" /\ client[req[r].worker] = "redis"
                   /\ req[r].age < Lease
                   => active[r] # None
          /\ \A w \in Worker : client[w] = "none" => local[w] = C!Cardinality(C!Served(w))

\* The operations on the set of members keep its type.
LEMMA MembersTyped ==
    ASSUME C!LeaseAssumption, NEW set \in [Request -> C!Age \cup {None}]
    PROVE  /\ C!Unexpired(set) \in [Request -> C!Age \cup {None}]
           /\ \A r \in Request : C!Unexpired(set)[r] \in {set[r], None}
           /\ \A r \in Request : set[r] # Lease => C!Unexpired(set)[r] = set[r]
           /\ \A r \in Request : C!Unexpired(set)[r] # Lease
           /\ C!Members(set) \in SUBSET Request
           /\ C!Cardinality(C!Members(set)) \in Nat
           /\ C!Cardinality(C!Members(set)) <= C!Cardinality(Request)
<1>1. None # Lease
  BY DEF C!LeaseAssumption
<1>2. C!Members(set) \in SUBSET Request /\ Request \in SUBSET Request
  BY DEF C!Members
<1>3. /\ C!Cardinality(C!Members(set)) \in Nat
      /\ C!Cardinality(C!Members(set)) <= C!Cardinality(Request)
  BY <1>2, RequestsAreFinite
<1> QED  BY <1>1, <1>2, <1>3 DEF C!Unexpired, C!Age

\* A request ages by a tick, up to the lease.
LEMMA OlderTyped ==
    ASSUME C!LeaseAssumption, NEW age \in C!Age \cup {None}
    PROVE  /\ C!Older(age) \in C!Age \cup {None}
           /\ (C!Older(age) = None) <=> (age = None)
           /\ age \in C!Age => C!Older(age) \in C!Age /\ (C!Older(age) < Lease => age < Lease)
  BY DEF C!Older, C!LeaseAssumption, C!Age

\* Every step of a request, of the time or of a failure keeps the types.
LEMMA InFlightTyping ==
    ASSUME C!LeaseAssumption, InFlightTypeOK, [C!Next]_(C!vars),
           \A r \in Request : req[r].pc = "running" => req[r].worker \in Worker
    PROVE  InFlightTypeOK'
<1> USE DEF InFlightTypeOK
<1>0. 0 \in C!Age /\ Lease \in Nat /\ C!Idle \in InFlight
  BY DEF C!LeaseAssumption, C!Age, C!Idle, InFlight
<1>m. ASSUME NEW w \in Worker, NEW changed \in [Request -> C!Age \cup {None}],
             C!ThroughRedis(w, changed)
      PROVE  active' \in [Request -> C!Age \cup {None}] /\ local' \in [Worker -> Nat]
  <2>1. active' = C!Unexpired(changed) /\ active' \in [Request -> C!Age \cup {None}]
    BY <1>m, MembersTyped DEF C!ThroughRedis
  <2> DEFINE n == C!Cardinality(C!Members(active'))
  <2>2. n \in Nat
    BY <2>1, MembersTyped
  <2>3. local' = [local EXCEPT ![w] = n]
    BY <1>m DEF C!ThroughRedis
  <2> HIDE DEF n
  <2> QED  BY <2>1, <2>2, <2>3
<1>1. ASSUME NEW r \in Request, NEW w \in Worker, C!Enter(r, w)
      PROVE  InFlightTypeOK'
  <2> DEFINE e == [pc |-> "running", worker |-> w, age |-> 0]
  <2>1. e \in InFlight /\ req' = [req EXCEPT ![r] = e] /\ UNCHANGED <<client, up, faults>>
    BY <1>0, <1>1 DEF C!Enter, InFlight
  <2> HIDE DEF e
  <2>2. C!AddMember(r) \in [Request -> C!Age \cup {None}]
    BY <1>0 DEF C!AddMember
  <2>3. active' \in [Request -> C!Age \cup {None}] /\ local' \in [Worker -> Nat]
    BY <1>1, <1>m, <2>2 DEF C!Enter, C!LocalOnly
  <2> QED  BY <2>1, <2>3
<1>2. ASSUME NEW r \in Request, C!Leave(r)
      PROVE  InFlightTypeOK'
  <2>1. req' = [req EXCEPT ![r].pc = "over"] /\ UNCHANGED <<client, up, faults>>
    BY <1>2 DEF C!Leave
  <2>2. C!RemoveMember(r) \in [Request -> C!Age \cup {None}]
    BY DEF C!RemoveMember
  <2> DEFINE w == req[r].worker
  <2>3. w \in Worker
    BY <1>2 DEF C!Leave
  <2>4. C!Unless0(local[w]) \in Nat
    BY <2>3 DEF C!Unless0
  <2>5. active' \in [Request -> C!Age \cup {None}] /\ local' \in [Worker -> Nat]
    BY <1>2, <1>m, <2>2, <2>3, <2>4 DEF C!Leave, C!LocalOnly
  <2> QED  BY <2>1, <2>5 DEF InFlight
<1>3. ASSUME NEW w \in Worker, C!Prune(w)
      PROVE  InFlightTypeOK'
  BY <1>3, MembersTyped DEF C!Prune
<1>4. ASSUME NEW w \in Worker, C!WorkerDies(w)
      PROVE  InFlightTypeOK'
  BY <1>4 DEF C!WorkerDies, InFlight, C!LeaseAssumption
<1>5. CASE C!Tick
  <2>1. /\ active' = [r \in Request |-> C!Older(active[r])]
        /\ req' = [r \in Request |-> C!Aged(r)]
        /\ UNCHANGED <<client, up, local, faults>>
    BY <1>5 DEF C!Tick
  <2>2. \A r \in Request : C!Older(active[r]) \in C!Age \cup {None}
    BY OlderTyped
  <2>3. ASSUME NEW r \in Request PROVE C!Aged(r) \in InFlight
    <3>1. C!Older(req[r].age) \in C!Age
      BY OlderTyped DEF InFlight
    <3> QED  BY <1>0, <3>1 DEF C!Aged, InFlight
  <2> QED  BY <2>1, <2>2, <2>3
<1>6. CASE C!RedisFails \/ C!RedisRecovers
  <2>1. /\ up' \in {TRUE, FALSE} /\ UNCHANGED <<client, active, local, req>>
        /\ \/ faults' = faults
           \/ faults < MaxFaults /\ faults' = faults + 1
    BY <1>6 DEF C!RedisFails, C!RedisRecovers
  <2>2. faults' \in 0..MaxFaults
    BY <2>1 DEF C!LeaseAssumption
  <2> QED  BY <2>1, <2>2
<1>7. CASE UNCHANGED C!vars
  BY <1>7 DEF C!vars
<1> QED  BY <1>1, <1>2, <1>3, <1>4, <1>5, <1>6, <1>7 DEF C!Next
-----------------------------------------------------------------------------
\* Every step keeps the members those of the running requests.
LEMMA InFlightStep ==
    ASSUME C!LeaseAssumption, InFlightInv, [C!Next]_(C!vars)
    PROVE  InFlightInv'
<1> USE DEF InFlightInv
<1>t. InFlightTypeOK'
  BY InFlightTyping
<1>0. /\ client \in [Worker -> {"redis", "none"}] /\ up \in BOOLEAN
      /\ active \in [Request -> C!Age \cup {None}] /\ local \in [Worker -> Nat]
      /\ req \in [Request -> InFlight] /\ faults \in Nat
  BY DEF InFlightTypeOK, C!LeaseAssumption
<1>c. \A w \in Worker : C!Served(w) \in SUBSET Request /\ C!Cardinality(C!Served(w)) \in Nat
  BY RequestsAreFinite DEF C!Served
<1>n. C!Cardinality(Request) \in Nat
  BY RequestsAreFinite
<1>l. None \notin Nat /\ Lease \in Nat
  BY DEF C!LeaseAssumption
<1>m. ASSUME NEW w \in Worker, NEW changed \in [Request -> C!Age \cup {None}],
             C!ThroughRedis(w, changed)
      PROVE  /\ active' = C!Unexpired(changed)
             /\ \A r \in Request : /\ active'[r] \in {changed[r], None}
                                   /\ changed[r] # Lease => active'[r] = changed[r]
             /\ local' = [local EXCEPT ![w] = local'[w]]
             /\ local'[w] \in Nat /\ local'[w] <= C!Cardinality(Request)
  <2>1. active' = C!Unexpired(changed) /\ active' \in [Request -> C!Age \cup {None}]
    BY <1>m, MembersTyped DEF C!ThroughRedis
  <2>2. local' = [local EXCEPT ![w] = C!Cardinality(C!Members(active'))]
    BY <1>m DEF C!ThroughRedis
  <2>3. local'[w] = C!Cardinality(C!Members(active'))
    BY <1>0, <2>2
  <2> QED  BY <2>1, <2>2, <2>3, MembersTyped
<1>1. ASSUME NEW r \in Request, NEW w \in Worker, C!Enter(r, w)
      PROVE  InFlightInv'
  <2>1. /\ req[r].pc = "new" /\ req' = [req EXCEPT ![r] = [pc |-> "running", worker |-> w, age |-> 0]]
        /\ UNCHANGED <<client, up, faults>>
    BY <1>1 DEF C!Enter
  <2>2. /\ req'[r].pc = "running" /\ req'[r].worker = w /\ req'[r].age = 0
        /\ \A q \in Request : q # r => req'[q] = req[q]
    BY <1>0, <2>1
  <2>3. /\ C!Served(w)' = C!Served(w) \cup {r} /\ r \notin C!Served(w)
        /\ \A v \in Worker : v # w => C!Served(v)' = C!Served(v)
    BY <2>1, <2>2 DEF C!Served
  <2>4. C!Cardinality(C!Served(w))' = C!Cardinality(C!Served(w)) + 1
    BY <1>c, <2>3, CountByOne
  <2>5. \A q \in Request : req'[q].pc = "running" => req'[q].worker \in Worker
    BY <2>2
  <2>6. CASE C!Reaches(w)
    <3>1. C!ThroughRedis(w, C!AddMember(r))
      BY <1>1, <2>6 DEF C!Enter
    <3>2. /\ C!AddMember(r) \in [Request -> C!Age \cup {None}] /\ C!AddMember(r)[r] = 0
          /\ \A q \in Request : q # r => C!AddMember(r)[q] = active[q]
      BY <1>0 DEF C!AddMember, C!Age, C!LeaseAssumption
    <3> HIDE DEF C!ThroughRedis
    <3>3. /\ active'[r] = 0 /\ 0 # None
          /\ \A q \in Request : q # r => /\ active'[q] \in {active[q], None}
                                         /\ active[q] # Lease => active'[q] = active[q]
          /\ local' = [local EXCEPT ![w] = local'[w]]
          /\ local'[w] \in Nat /\ local'[w] <= C!Cardinality(Request)
      <4>1. 0 # Lease /\ 0 # None
        BY DEF C!LeaseAssumption
      <4> QED  BY <1>m, <3>1, <3>2, <4>1
    <3>4. \A q \in Request : active'[q] # None => req'[q].pc # "new" /\ active'[q] = req'[q].age
      BY <2>2, <3>3
    <3>5. \A v \in Worker : local'[v] <= C!Cardinality(Request) + C!Cardinality(C!Served(v))'
      <4> SUFFICES ASSUME NEW v \in Worker
                   PROVE  local'[v] <= C!Cardinality(Request) + C!Cardinality(C!Served(v))'
        OBVIOUS
      <4>1. CASE v = w
        BY <1>c, <1>n, <2>4, <3>3, <4>1
      <4>2. CASE v # w
        BY <1>0, <2>3, <3>3, <4>2
      <4> QED  BY <4>1, <4>2
    <3>6. client[w] = "redis"
      BY <2>6 DEF C!Reaches
    <3>7. faults' = 0 => /\ up'
                         /\ \A q \in Request :
                               /\ active'[q] # None => req'[q].pc = "running" /\ client'[req'[q].worker] = "redis"
                               /\ /\ req'[q].pc = "running" /\ client'[req'[q].worker] = "redis"
                                  /\ req'[q].age < Lease
                                  => active'[q] # None
      <4> SUFFICES ASSUME faults = 0, NEW q \in Request
                   PROVE  /\ up
                          /\ active'[q] # None => req'[q].pc = "running" /\ client[req'[q].worker] = "redis"
                          /\ /\ req'[q].pc = "running" /\ client[req'[q].worker] = "redis"
                             /\ req'[q].age < Lease
                             => active'[q] # None
        BY <2>1
      <4>1. CASE q = r
        BY <2>2, <3>3, <3>6, <4>1
      <4>2. CASE q # r
        <5>1. active[q] = Lease => ~(req[q].age < Lease)
          BY <1>l
        <5> QED  BY <2>2, <3>3, <4>2, <5>1
      <4> QED  BY <4>1, <4>2
    <3>8. faults' = 0 => \A v \in Worker : client'[v] = "none" => local'[v] = C!Cardinality(C!Served(v))'
      BY <1>0, <2>1, <2>3, <3>3, <3>6
    <3> QED  BY <1>t, <2>5, <3>4, <3>5, <3>7, <3>8
  <2>7. CASE ~C!Reaches(w)
    <3>1. local' = [local EXCEPT ![w] = local[w] + 1] /\ UNCHANGED active
      BY <1>1, <2>7 DEF C!Enter, C!LocalOnly
    <3>2. \A v \in Worker : local'[v] <= C!Cardinality(Request) + C!Cardinality(C!Served(v))'
      <4> SUFFICES ASSUME NEW v \in Worker
                   PROVE  local'[v] <= C!Cardinality(Request) + C!Cardinality(C!Served(v))'
        OBVIOUS
      <4>1. CASE v = w
        BY <1>0, <1>c, <1>n, <2>4, <3>1, <4>1
      <4>2. CASE v # w
        BY <1>0, <2>3, <3>1, <4>2
      <4> QED  BY <4>1, <4>2
    <3>3. active[r] = None
      BY <2>1
    <3>4. faults = 0 => client[w] = "none"
      BY <1>0, <2>7 DEF C!Reaches
    <3>5. \A v \in Worker : client[v] = "none" /\ faults = 0 => local'[v] = C!Cardinality(C!Served(v))'
      BY <1>0, <2>3, <2>4, <3>1
    <3> QED  BY <1>t, <2>1, <2>2, <2>5, <3>1, <3>2, <3>3, <3>4, <3>5
  <2> QED  BY <2>6, <2>7
<1>2. ASSUME NEW r \in Request, C!Leave(r)
      PROVE  InFlightInv'
  <2>0. PICK w \in Worker : w = req[r].worker
    BY <1>2 DEF C!Leave
  <2>1. /\ req[r].pc = "running" /\ req' = [req EXCEPT ![r].pc = "over"] /\ w = req[r].worker
        /\ UNCHANGED <<client, up, faults>>
    BY <1>2, <2>0 DEF C!Leave
  <2>2. /\ req'[r].pc = "over" /\ req'[r].age = req[r].age
        /\ \A q \in Request : q # r => req'[q] = req[q]
    BY <1>0, <2>1 DEF InFlight
  <2>3. /\ C!Served(w)' = C!Served(w) \ {r} /\ r \in C!Served(w)
        /\ \A v \in Worker : v # w => C!Served(v)' = C!Served(v)
    BY <2>1, <2>2 DEF C!Served
  <2>4. C!Cardinality(C!Served(w))' = C!Cardinality(C!Served(w)) - 1 /\ C!Cardinality(C!Served(w)) # 0
    BY <1>c, <2>1, <2>3, CountByOne
  <2>5. \A q \in Request : req'[q].pc = "running" => req'[q].worker \in Worker
    BY <2>2
  <2>6. CASE C!Reaches(w)
    <3>1. C!ThroughRedis(w, C!RemoveMember(r))
      BY <1>2, <2>1, <2>6 DEF C!Leave
    <3>2. /\ C!RemoveMember(r) \in [Request -> C!Age \cup {None}] /\ C!RemoveMember(r)[r] = None
          /\ \A q \in Request : q # r => C!RemoveMember(r)[q] = active[q]
      BY <1>0 DEF C!RemoveMember
    <3>3. /\ active'[r] = None
          /\ \A q \in Request : q # r => /\ active'[q] \in {active[q], None}
                                         /\ active[q] # Lease => active'[q] = active[q]
          /\ local' = [local EXCEPT ![w] = local'[w]]
          /\ local'[w] \in Nat /\ local'[w] <= C!Cardinality(Request)
      BY <1>m, <2>1, <3>1, <3>2
    <3>4. \A q \in Request : active'[q] # None => req'[q].pc # "new" /\ active'[q] = req'[q].age
      BY <2>2, <3>3
    <3>5. \A v \in Worker : local'[v] <= C!Cardinality(Request) + C!Cardinality(C!Served(v))'
      <4> SUFFICES ASSUME NEW v \in Worker
                   PROVE  local'[v] <= C!Cardinality(Request) + C!Cardinality(C!Served(v))'
        OBVIOUS
      <4>1. CASE v = w
        BY <1>c, <1>n, <2>4, <3>3, <4>1
      <4>2. CASE v # w
        BY <1>0, <2>3, <3>3, <4>2
      <4> QED  BY <4>1, <4>2
    <3>6. client[w] = "redis"
      BY <2>6 DEF C!Reaches
    <3>7. faults' = 0 => /\ up'
                         /\ \A q \in Request :
                               /\ active'[q] # None => req'[q].pc = "running" /\ client'[req'[q].worker] = "redis"
                               /\ /\ req'[q].pc = "running" /\ client'[req'[q].worker] = "redis"
                                  /\ req'[q].age < Lease
                                  => active'[q] # None
      <4> SUFFICES ASSUME faults = 0, NEW q \in Request
                   PROVE  /\ up
                          /\ active'[q] # None => req'[q].pc = "running" /\ client[req'[q].worker] = "redis"
                          /\ /\ req'[q].pc = "running" /\ client[req'[q].worker] = "redis"
                             /\ req'[q].age < Lease
                             => active'[q] # None
        BY <2>1
      <4>1. CASE q = r
        BY <2>2, <3>3, <3>6, <4>1
      <4>2. CASE q # r
        <5>1. active[q] = Lease => ~(req[q].age < Lease)
          BY <1>l
        <5> QED  BY <2>2, <3>3, <4>2, <5>1
      <4> QED  BY <4>1, <4>2
    <3>8. faults' = 0 => \A v \in Worker : client'[v] = "none" => local'[v] = C!Cardinality(C!Served(v))'
      BY <1>0, <2>1, <2>3, <3>3, <3>6
    <3> QED  BY <1>t, <2>5, <3>4, <3>5, <3>7, <3>8
  <2>7. CASE ~C!Reaches(w)
    <3>1. local' = [local EXCEPT ![w] = C!Unless0(local[w])] /\ UNCHANGED active
      BY <1>2, <2>1, <2>7 DEF C!Leave, C!LocalOnly
    <3>2. /\ local[w] = 0 => C!Unless0(local[w]) = 0
          /\ local[w] # 0 => C!Unless0(local[w]) = local[w] - 1
      BY DEF C!Unless0
    <3>3. \A v \in Worker : local'[v] <= C!Cardinality(Request) + C!Cardinality(C!Served(v))'
      <4> SUFFICES ASSUME NEW v \in Worker
                   PROVE  local'[v] <= C!Cardinality(Request) + C!Cardinality(C!Served(v))'
        OBVIOUS
      <4>1. CASE v = w
        <5>1. local'[w] = C!Unless0(local[w]) /\ local[w] \in Nat
          BY <1>0, <2>1, <3>1
        <5> QED  BY <1>c, <1>n, <2>1, <2>4, <3>2, <4>1, <5>1
      <4>2. CASE v # w
        BY <1>0, <2>3, <3>1, <4>2
      <4> QED  BY <4>1, <4>2
    <3>4. faults = 0 => client[w] = "none"
      BY <1>0, <2>1, <2>7 DEF C!Reaches
    <3>5. ASSUME NEW v \in Worker, client[v] = "none", faults = 0
          PROVE  local'[v] = C!Cardinality(C!Served(v))'
      <4>1. local[v] = C!Cardinality(C!Served(v)) /\ local[v] \in Nat
        BY <1>0, <3>5
      <4>2. CASE v = w
        BY <1>0, <2>4, <3>1, <3>2, <4>1, <4>2
      <4>3. CASE v # w
        BY <1>0, <2>3, <3>1, <4>1, <4>3
      <4> QED  BY <4>2, <4>3
    <3>6. faults = 0 => active[r] = None
      BY <2>1, <3>4
    <3>7. \A q \in Request : active[q] # None => req'[q].pc # "new" /\ active[q] = req'[q].age
      BY <2>2
    <3> QED  BY <1>t, <2>1, <2>2, <2>5, <3>1, <3>3, <3>5, <3>6, <3>7
  <2> QED  BY <2>6, <2>7
<1>3. ASSUME NEW w \in Worker, C!Prune(w)
      PROVE  InFlightInv'
  <2>1. /\ UNCHANGED <<client, up, local, req, faults>>
        /\ \A r \in Request : /\ active'[r] \in {active[r], None}
                              /\ active[r] # Lease => active'[r] = active[r]
    BY <1>0, <1>3, MembersTyped DEF C!Prune
  <2>2. \A v \in Worker : C!Served(v)' = C!Served(v)
    BY <2>1 DEF C!Served
  <2>3. \A r \in Request : active[r] = Lease => ~(req[r].age < Lease)
    BY <1>l
  <2> QED  BY <1>t, <2>1, <2>2, <2>3
<1>4. ASSUME NEW w \in Worker, C!WorkerDies(w)
      PROVE  InFlightInv'
  <2>1. /\ faults' = faults + 1 /\ local' = [local EXCEPT ![w] = 0] /\ UNCHANGED active
        /\ \A r \in Request : req'[r] = IF r \in C!Served(w) THEN [req[r] EXCEPT !.pc = "over"] ELSE req[r]
    BY <1>4 DEF C!WorkerDies
  <2>2. faults' # 0
    BY <1>0, <2>1
  <2>3. \A r \in Request : /\ req'[r].pc = "running" => req'[r].worker \in Worker
                           /\ active'[r] # None => req'[r].pc # "new" /\ active'[r] = req'[r].age
    BY <1>0, <2>1 DEF InFlight
  <2>4. ASSUME NEW v \in Worker
        PROVE  local'[v] <= C!Cardinality(Request) + C!Cardinality(C!Served(v))'
    <3>1. CASE v = w
      <4>1. C!Cardinality(C!Served(v))' \in Nat
        BY RequestsAreFinite DEF C!Served
      <4> QED  BY <1>0, <1>n, <2>1, <3>1, <4>1
    <3>2. CASE v # w
      <4>1. C!Served(v)' = C!Served(v)
        BY <1>0, <2>1, <3>2 DEF C!Served, InFlight
      <4> QED  BY <1>0, <2>1, <3>2, <4>1
    <3> QED  BY <3>1, <3>2
  <2> QED  BY <1>t, <2>2, <2>3, <2>4
<1>5. CASE C!Tick
  <2>1. /\ \A r \in Request : active'[r] = C!Older(active[r]) /\ req'[r] = C!Aged(r)
        /\ UNCHANGED <<client, up, local, faults>>
    BY <1>5 DEF C!Tick
  <2>2. ASSUME NEW r \in Request
        PROVE  /\ (active'[r] = None) <=> (active[r] = None)
               /\ active[r] # None => active'[r] = req'[r].age
               /\ (req'[r].pc = "running") <=> (req[r].pc = "running")
               /\ req[r].pc = "running" => req'[r].worker = req[r].worker
               /\ req[r].pc = "running" /\ req'[r].age < Lease => req[r].age < Lease
               /\ (req'[r].pc = "new") => active[r] = None
    <3>1. req[r].age \in C!Age /\ req[r] \in InFlight
      BY <1>0 DEF InFlight
    <3>2. CASE C!Aged(r) = C!Idle
      <4>1. req[r].pc # "running"
        BY <3>1, <3>2, <2>1 DEF C!Aged, C!Idle, InFlight
      <4>2. active[r] = None
        BY <3>1, <3>2 DEF C!Aged, C!Idle, InFlight
      <4> QED  BY <1>0, <2>1, <3>2, <4>1, <4>2, OlderTyped DEF C!Idle
    <3>3. CASE /\ C!Aged(r) = [req[r] EXCEPT !.age = C!Older(req[r].age)]
               /\ req[r].pc # "new"
      <4>1. /\ req'[r].age = C!Older(req[r].age) /\ req'[r].pc = req[r].pc
            /\ req'[r].worker = req[r].worker
        BY <2>1, <3>1, <3>3 DEF InFlight
      <4>2. req'[r].age < Lease => req[r].age < Lease
        BY <3>1, <4>1, OlderTyped
      <4>3. (active'[r] = None) <=> (active[r] = None)
        BY <1>0, <2>1, OlderTyped
      <4> QED  BY <2>1, <3>3, <4>1, <4>2, <4>3
    <3> QED  BY <3>2, <3>3 DEF C!Aged
  <2>3. \A v \in Worker : C!Served(v)' = C!Served(v)
    BY <2>2 DEF C!Served
  <2>4. \A v \in Worker : local'[v] <= C!Cardinality(Request) + C!Cardinality(C!Served(v))'
    BY <2>1, <2>3
  <2>5. \A r \in Request : /\ req'[r].pc = "running" => req'[r].worker \in Worker
                           /\ active'[r] # None => req'[r].pc # "new" /\ active'[r] = req'[r].age
    BY <2>2
  <2>6. faults' = 0 => /\ up'
                       /\ \A q \in Request :
                             /\ active'[q] # None => req'[q].pc = "running" /\ client'[req'[q].worker] = "redis"
                             /\ /\ req'[q].pc = "running" /\ client'[req'[q].worker] = "redis"
                                /\ req'[q].age < Lease
                                => active'[q] # None
    BY <2>1, <2>2
  <2>7. faults' = 0 => \A v \in Worker : client'[v] = "none" => local'[v] = C!Cardinality(C!Served(v))'
    BY <2>1, <2>3
  <2> QED  BY <1>t, <2>4, <2>5, <2>6, <2>7
<1>6. CASE C!RedisFails \/ C!RedisRecovers
  <2>1. /\ UNCHANGED <<client, active, local, req>>
        /\ \/ up' /\ faults' = faults
           \/ faults' = faults + 1
    BY <1>6 DEF C!RedisFails, C!RedisRecovers
  <2>2. \A v \in Worker : C!Served(v)' = C!Served(v)
    BY <2>1 DEF C!Served
  <2>3. faults' = 0 => up' /\ faults = 0
    BY <1>0, <2>1
  <2> QED  BY <1>t, <2>1, <2>2, <2>3
<1>7. CASE UNCHANGED C!vars
  <2>1. UNCHANGED <<client, up, active, local, req, faults>>
    BY <1>7 DEF C!vars
  <2>2. \A v \in Worker : C!Served(v)' = C!Served(v)
    BY <2>1 DEF C!Served
  <2> QED  BY <1>t, <2>1, <2>2
<1> QED  BY <1>1, <1>2, <1>3, <1>4, <1>5, <1>6, <1>7 DEF C!Next

\* While nothing has failed, every worker shows what is in flight.
LEMMA InFlightIsShown ==
    ASSUME C!LeaseAssumption, InFlightInv
    PROVE  C!TypeOK /\ C!CountIsExact /\ C!LeasedOnly
<1> USE DEF InFlightInv, InFlightTypeOK
<1>l. None \notin Nat /\ Lease \in Nat
  BY DEF C!LeaseAssumption
<1>c. \A w \in Worker : C!Served(w) \in SUBSET Request /\ C!Cardinality(C!Served(w)) \in Nat
                        /\ C!Cardinality(C!Served(w)) <= C!Cardinality(Request)
  <2>1. \A w \in Worker : C!Served(w) \in SUBSET Request
    BY DEF C!Served
  <2>2. Request \in SUBSET Request
    OBVIOUS
  <2> QED  BY <2>1, <2>2, RequestsAreFinite
<1>n. C!Cardinality(Request) \in Nat
  <2>1. Request \in SUBSET Request
    OBVIOUS
  <2> QED  BY <2>1, RequestsAreFinite
<1>m. \A r \in Request : (C!Unexpired(active)[r] # None) <=> (active[r] # None /\ active[r] < Lease)
  BY <1>l DEF C!Unexpired, C!Age
<1>1. C!TypeOK
  <2>1. ASSUME NEW w \in Worker PROVE local[w] \in 0..2 * C!Cardinality(Request)
    <3> DEFINE size == C!Cardinality(Request)
               own == C!Cardinality(C!Served(w))
    <3>1. /\ local[w] \in Nat /\ size \in Nat /\ own \in Nat
          /\ own <= size /\ local[w] <= size + own
      BY <1>c, <1>n
    <3> HIDE DEF size, own
    <3> QED  BY <3>1 DEF size
  <2> QED  BY <2>1 DEF C!TypeOK, InFlight
<1>2. C!CountIsExact
  <2> SUFFICES ASSUME faults = 0, NEW w \in Worker
               PROVE  C!Shown(w) = IF client[w] = "redis"
                          THEN C!Cardinality({r \in C!Young : client[req[r].worker] = "redis"})
                          ELSE C!Cardinality(C!Served(w))
    BY DEF C!CountIsExact
  <2>1. C!Members(C!Unexpired(active)) = {r \in C!Young : client[req[r].worker] = "redis"}
    BY <1>m DEF C!Members, C!Young
  <2> QED  BY <2>1 DEF C!Shown, C!Reaches
<1>3. C!LeasedOnly
  <2> DEFINE Come == {r \in Request : req[r].pc # "new" /\ req[r].age < Lease}
  <2>1. C!Members(C!Unexpired(active)) \in SUBSET Come
    BY <1>m DEF C!Members
  <2>2. Come \in SUBSET Request /\ C!Members(C!Unexpired(active)) \in SUBSET Request
    BY DEF C!Members
  <2> HIDE DEF Come
  <2>3. C!Cardinality(C!Members(C!Unexpired(active))) <= C!Cardinality(Come)
    BY <2>1, <2>2, RequestsAreFinite, FS_Subset
  <2> QED  BY <2>3 DEF C!LeasedOnly, C!Shown, Come
<1> QED  BY <1>1, <1>2, <1>3

\* So it is in every state of the part.
LEMMA InFlightAlways == Spec => [](part = "concurrency" => InFlightInv)
<1> DEFINE Inv == part = "concurrency" => InFlightInv
<1>1. Init => Inv
  <2> SUFFICES ASSUME C!Init PROVE InFlightInv
    BY DEF Init
  <2>1. \A w \in Worker : C!Served(w) = {}
    BY DEF C!Init, C!Served, C!Idle
  <2>2. C!Cardinality({}) = 0 /\ C!Cardinality(Request) \in Nat
    BY RequestsAreFinite, BoundsAssumption, FS_EmptySet
  <2>3. InFlightTypeOK
    <3>1. 0 \in C!Age /\ 0 \in 0..MaxFaults
      BY BoundsAssumption DEF C!LeaseAssumption, C!Age
    <3> QED  BY <3>1 DEF C!Init, InFlightTypeOK, InFlight, C!Idle
  <2>4. /\ up /\ \A r \in Request : active[r] = None /\ req[r].pc = "new"
        /\ \A w \in Worker : local[w] = 0
    BY DEF C!Init, C!Idle
  <2>5. ASSUME NEW w \in Worker
        PROVE  /\ C!Cardinality(C!Served(w)) = 0 /\ local[w] = 0
               /\ local[w] <= C!Cardinality(Request) + C!Cardinality(C!Served(w))
    <3>1. C!Cardinality(C!Served(w)) = 0
      BY <2>1, <2>2
    <3> QED  BY <2>2, <2>4, <3>1
  <2> QED  BY <2>3, <2>4, <2>5 DEF InFlightInv
<1>2. Inv /\ [Next]_vars => Inv'
  BY Parts, InFlightStep, BoundsAssumption
<1> QED  BY <1>1, <1>2, PTL DEF Spec

\* For any workers and requests, whatever overlaps: as long as nothing failed
\* a worker with Redis shows the requests in flight on all such workers, and
\* one without Redis its own (increment_concurrency, decrement_concurrency).
THEOREM CountIsExactAlways == Spec => []CountIsExact
<1>1. (part = "concurrency" => InFlightInv) => CountIsExact
  BY InFlightIsShown, BoundsAssumption DEF CountIsExact
<1> QED  BY <1>1, InFlightAlways, PTL

\* And whatever failed, no request that came a lease ago is shown by a worker
\* that reaches Redis ("self-healing leases").
THEOREM LeasedOnlyAlways == Spec => []LeasedOnly
<1>1. (part = "concurrency" => InFlightInv) => LeasedOnly
  BY InFlightIsShown, BoundsAssumption DEF LeasedOnly
<1> QED  BY <1>1, InFlightAlways, PTL


-----------------------------------------------------------------------------
(* The sampler.                                                             *)

Place == {"off", "round", "elected", "follow", "renew", "measure", "publish", "sleep"}
Ticks == 0..Interval + MaxElection + MaxProbe
Thread == [pc : Place, ticks : Ticks]

\* No thread stays anywhere longer than it may.
InTime(w) ==
    /\ loop[w].pc \in S!Election => loop[w].ticks <= MaxElection
    /\ loop[w].pc = "measure" => loop[w].ticks <= MaxProbe
    /\ loop[w].pc = "sleep" => loop[w].ticks <= Interval

\* The worker whose pid the lease holds has not used up more of it than its
\* round took so far; the one that measures and publishes is that worker.
Leads(w) ==
    /\ lease.value = w =>
          /\ loop[w].pc = "measure" => lease.left + loop[w].ticks >= LeaseTicks
          /\ loop[w].pc = "publish" => lease.left + MaxProbe >= LeaseTicks
          /\ loop[w].pc = "sleep" => lease.left + loop[w].ticks + MaxProbe >= LeaseTicks
          /\ loop[w].pc \in {"round", "elected", "renew"} =>
                lease.left + loop[w].ticks + Interval + MaxProbe >= LeaseTicks
    /\ loop[w].pc \in {"measure", "publish", "renew"} => lease.value = w
    /\ loop[w].pc = "follow" => lease.value # w

SamplerInv ==
    /\ S!TypeOK
    /\ \A w \in Worker : InTime(w)
    /\ outage \/ redisUp
    /\ S!RoundWithinLease /\ ~outage => \A w \in Worker : Leads(w)

\* Ages stay ages.
LEMMA AgesTyped ==
    ASSUME S!SamplerAssumption
    PROVE  /\ S!Round \in Nat /\ S!Cycle \in Nat /\ S!FailureCost \in Nat
           /\ S!Round = Interval + MaxElection /\ S!Cycle = S!Round + MaxProbe
           /\ S!FailureCost = LeaseTicks + MaxElection + S!Cycle
           /\ \A n \in Nat : S!AgeAfter(n) \in Nat
           /\ S!Bound \in Nat
           /\ S!MaxAge \in Nat /\ 0 \in 0..S!MaxAge
           /\ \A age \in 0..S!MaxAge : S!GrowOld(age) \in 0..S!MaxAge
           /\ S!GrowOld(None) = None
<1>1. /\ S!Round \in Nat /\ S!Cycle \in Nat /\ S!FailureCost \in Nat
      /\ S!Round = Interval + MaxElection /\ S!Cycle = S!Round + MaxProbe
      /\ S!FailureCost = LeaseTicks + MaxElection + S!Cycle
  BY DEF S!Round, S!Cycle, S!FailureCost, S!SamplerAssumption
<1>2. ASSUME NEW n \in Nat PROVE S!AgeAfter(n) \in Nat
  <2> DEFINE d == S!FailureCost  e == 2 * S!Cycle
  <2>1. d \in Nat /\ e \in Nat /\ S!AgeAfter(n) = n * d + e
    BY <1>1 DEF S!AgeAfter
  <2> HIDE DEF d, e
  <2>2. n * d \in Nat
    BY <2>1
  <2> QED  BY <2>1, <2>2
<1>3. S!Bound \in Nat
  BY <1>2 DEF S!Bound, S!SamplerAssumption
<1>4. S!MaxAge \in Nat
  BY <1>3 DEF S!MaxAge
<1> HIDE DEF S!MaxAge, S!Bound
<1> QED  BY <1>1, <1>2, <1>3, <1>4 DEF S!GrowOld, S!SamplerAssumption

\* A thread that goes on is a thread.
LEMMA ThreadsTyped ==
    ASSUME S!SamplerAssumption, loop \in [Worker -> Thread], NEW w \in Worker, NEW pc \in Place,
           S!Goto(w, pc) \/ S!Stay(w, pc)
    PROVE  loop' \in [Worker -> Thread]
<1>1. 0 \in Ticks
  BY DEF S!SamplerAssumption, Ticks
<1>2. loop' = [loop EXCEPT ![w] = [pc |-> pc, ticks |-> 0]] \/ loop' = [loop EXCEPT ![w].pc = pc]
  BY DEF S!Goto, S!Stay
<1> QED  BY <1>1, <1>2 DEF Thread

\* Every step of the sampler keeps the types.
LEMMA SamplerTyping ==
    ASSUME S!SamplerAssumption, S!TypeOK, \A w \in Worker : InTime(w), [S!Next]_(S!vars)
    PROVE  S!TypeOK'
<1> DEFINE LeaseKey == [value : Worker \cup {None}, left : 0..LeaseTicks]
           LatestKey == [value : 0..S!MaxAge \cup {None}, left : 0..LatestTicks]
<1>0. /\ redisUp \in BOOLEAN /\ lease \in LeaseKey /\ latest \in LatestKey
      /\ loop \in [Worker -> Thread] /\ shown \in [Worker -> 0..S!MaxAge]
      /\ outage \in BOOLEAN /\ failures \in 0..MaxFaults
  BY DEF S!TypeOK, Thread, Place, Ticks
<1>n. S!NoKey \in LeaseKey /\ S!NoKey \in LatestKey
  BY DEF S!NoKey, S!SamplerAssumption
<1>k. \A v \in Worker \cup {None} : S!Key(v, LeaseTicks) \in LeaseKey
  BY DEF S!Key, S!SamplerAssumption
<1> HIDE DEF LeaseKey, LatestKey
<1>q. SUFFICES /\ redisUp' \in BOOLEAN /\ lease' \in LeaseKey /\ latest' \in LatestKey
               /\ loop' \in [Worker -> Thread] /\ shown' \in [Worker -> 0..S!MaxAge]
               /\ outage' \in BOOLEAN /\ failures' \in 0..MaxFaults
  BY DEF S!TypeOK, Thread, Place, Ticks, LeaseKey, LatestKey
<1>1. ASSUME NEW w \in Worker, S!Claim(w) \/ S!Renew(w)
      PROVE  /\ UNCHANGED <<redisUp, latest, shown, outage, failures>>
             /\ lease' \in LeaseKey /\ loop' \in [Worker -> Thread]
  <2>1. S!Goto(w, "measure") \/ S!Stay(w, "elected")
    BY <1>1 DEF S!Claim, S!Renew
  <2>2. loop' \in [Worker -> Thread]
    BY <1>0, <2>1, ThreadsTyped DEF Place
  <2>3. lease.value \in Worker \cup {None}
    BY <1>0 DEF LeaseKey
  <2>4. lease' \in LeaseKey
    BY <1>0, <1>1, <1>n, <1>k, <2>3 DEF S!Claim, S!Renew
  <2> QED  BY <1>1, <2>2, <2>4 DEF S!Claim, S!Renew
<1>2. ASSUME NEW w \in Worker, S!WhoLeads(w) \/ S!ElectionError(w) \/ S!Wake(w)
      PROVE  /\ UNCHANGED <<redisUp, lease, latest, shown, outage, failures>>
             /\ loop' \in [Worker -> Thread]
  <2>1. \E pc \in Place : S!Goto(w, pc) \/ S!Stay(w, pc)
    BY <1>2 DEF S!WhoLeads, S!ElectionError, S!Wake, Place
  <2>2. loop' \in [Worker -> Thread]
    BY <1>0, <2>1, ThreadsTyped
  <2> QED  BY <1>2, <2>2 DEF S!WhoLeads, S!ElectionError, S!Wake
<1>3. ASSUME NEW w \in Worker, S!Follow(w)
      PROVE  /\ UNCHANGED <<redisUp, lease, latest, outage, failures>>
             /\ loop' \in [Worker -> Thread] /\ shown' \in [Worker -> 0..S!MaxAge]
  <2>1. S!Goto(w, "sleep")
    BY <1>3 DEF S!Follow
  <2>2. loop' \in [Worker -> Thread]
    BY <1>0, <2>1, ThreadsTyped DEF Place
  <2>3. latest.value # None => latest.value \in 0..S!MaxAge
    BY <1>0 DEF LatestKey
  <2>4. shown' \in {shown, [shown EXCEPT ![w] = latest.value]}
        /\ (latest.value = None => shown' = shown)
    BY <1>3 DEF S!Follow
  <2>5. shown' \in [Worker -> 0..S!MaxAge]
    BY <1>0, <2>3, <2>4
  <2> QED  BY <1>3, <2>2, <2>5 DEF S!Follow
<1>4. ASSUME NEW w \in Worker, S!Measure(w)
      PROVE  /\ UNCHANGED <<redisUp, lease, latest, outage, failures>>
             /\ loop' \in [Worker -> Thread] /\ shown' \in [Worker -> 0..S!MaxAge]
  <2>1. S!Goto(w, "publish") /\ shown' = [shown EXCEPT ![w] = 0]
        /\ UNCHANGED <<redisUp, lease, latest, outage, failures>>
    BY <1>4 DEF S!Measure
  <2>2. loop' \in [Worker -> Thread]
    BY <1>0, <2>1, ThreadsTyped DEF Place
  <2>3. shown' \in [Worker -> 0..S!MaxAge]
    BY <1>0, <2>1, AgesTyped
  <2> QED  BY <2>1, <2>2, <2>3
<1>5. ASSUME NEW w \in Worker, S!Publish(w)
      PROVE  /\ UNCHANGED <<redisUp, lease, shown, outage, failures>>
             /\ loop' \in [Worker -> Thread] /\ latest' \in LatestKey
  <2>1. S!Goto(w, "sleep")
        /\ UNCHANGED <<redisUp, lease, shown, outage, failures>>
        /\ latest' \in {latest, S!Key(shown[w], LatestTicks)}
    BY <1>5 DEF S!Publish
  <2>2. loop' \in [Worker -> Thread]
    BY <1>0, <2>1, ThreadsTyped DEF Place
  <2>3. S!Key(shown[w], LatestTicks) \in LatestKey
    BY <1>0 DEF LatestKey, S!Key, S!SamplerAssumption
  <2> QED  BY <1>0, <2>1, <2>2, <2>3
<1>6. ASSUME NEW w \in Worker, S!Stops(w)
      PROVE  /\ UNCHANGED <<redisUp, lease, latest, shown, outage>>
             /\ loop' \in [Worker -> Thread] /\ failures' \in 0..MaxFaults
  <2>1. S!Goto(w, "off") /\ failures < MaxFaults /\ failures' = failures + 1
        /\ UNCHANGED <<redisUp, lease, latest, shown, outage>>
    BY <1>6 DEF S!Stops
  <2>2. loop' \in [Worker -> Thread]
    BY <1>0, <2>1, ThreadsTyped DEF Place
  <2>3. failures' \in 0..MaxFaults
    BY <1>0, <2>1 DEF S!SamplerAssumption
  <2> QED  BY <2>1, <2>2, <2>3
<1>7. CASE S!Tick
  <2>1. /\ lease' = S!Elapse(lease)
        /\ latest' = S!Elapse([latest EXCEPT !.value = S!GrowOld(latest.value)])
        /\ shown' = [w \in Worker |-> S!GrowOld(shown[w])]
        /\ loop' = [w \in Worker |-> IF S!At(w, "off") THEN loop[w]
                                     ELSE [loop[w] EXCEPT !.ticks = loop[w].ticks + 1]]
        /\ UNCHANGED <<redisUp, outage, failures>>
    BY <1>7 DEF S!Tick
  <2>2. lease' \in LeaseKey
    BY <1>0, <1>n, <2>1 DEF S!Elapse, LeaseKey, S!SamplerAssumption
  <2>3. latest' \in LatestKey
    <3> DEFINE age == S!GrowOld(latest.value)
               older == [latest EXCEPT !.value = age]
    <3>1. age \in 0..S!MaxAge \cup {None}
      BY <1>0, AgesTyped DEF LatestKey
    <3> HIDE DEF age
    <3>2. older \in LatestKey
      BY <1>0, <3>1 DEF LatestKey
    <3>3. latest' = S!Elapse(older)
      BY <2>1 DEF age
    <3> HIDE DEF older
    <3> QED  BY <1>n, <3>2, <3>3 DEF S!Elapse, LatestKey, S!SamplerAssumption
  <2>4. shown' \in [Worker -> 0..S!MaxAge]
    BY <1>0, <2>1, AgesTyped
  <2>5. ASSUME NEW w \in Worker
        PROVE  (IF S!At(w, "off") THEN loop[w]
                ELSE [loop[w] EXCEPT !.ticks = loop[w].ticks + 1]) \in Thread
    <3>0. loop[w] \in Thread
      BY <1>0
    <3>1. CASE ~S!At(w, "off")
      <4> DEFINE n == loop[w].ticks + 1
      <4>1. n \in Ticks
        BY <1>7, <3>0, <3>1 DEF S!Tick, S!At, S!Election, Ticks, Thread, S!SamplerAssumption
      <4> HIDE DEF n
      <4>2. [loop[w] EXCEPT !.ticks = n] \in Thread
        BY <3>0, <4>1 DEF Thread
      <4> QED  BY <3>1, <4>2 DEF n
    <3> QED  BY <3>0, <3>1
  <2>6. loop' \in [Worker -> Thread]
    BY <2>1, <2>5
  <2> QED  BY <1>0, <2>1, <2>2, <2>3, <2>4, <2>6
<1>8. CASE S!RedisFails \/ S!RedisRecovers
  <2>1. /\ UNCHANGED <<lease, latest, loop, shown>> /\ redisUp' \in BOOLEAN
        /\ outage' \in {outage, TRUE}
        /\ \/ failures' = failures
           \/ failures < MaxFaults /\ failures' = failures + 1
    BY <1>8 DEF S!RedisFails, S!RedisRecovers
  <2>2. failures' \in 0..MaxFaults
    BY <1>0, <2>1 DEF S!SamplerAssumption
  <2> QED  BY <1>0, <2>1, <2>2
<1>9. CASE UNCHANGED S!vars
  BY <1>0, <1>9 DEF S!vars
<1> QED  BY <1>0, <1>1, <1>2, <1>3, <1>4, <1>5, <1>6, <1>7, <1>8, <1>9 DEF S!Next

\* A thread is where the step put it; the others stay where they were.
LEMMA OneThread ==
    ASSUME loop \in [Worker -> Thread], NEW w \in Worker, NEW pc \in Place
    PROVE  /\ S!Goto(w, pc) => loop'[w] = [pc |-> pc, ticks |-> 0]
           /\ S!Stay(w, pc) => loop'[w] = [pc |-> pc, ticks |-> loop[w].ticks]
           /\ S!Goto(w, pc) \/ S!Stay(w, pc) => \A v \in Worker : v # w => loop'[v] = loop[v]
  BY DEF S!Goto, S!Stay, Thread

\* A step of a worker that leaves the others where they are keeps what holds
\* of them, unless it gives one of them the lease or takes it from one.
LEMMA OthersLead ==
    ASSUME NEW w \in Worker, NEW v \in Worker, InTime(v), loop'[v] = loop[v]
    PROVE  /\ InTime(v)'
           /\ Leads(v) /\ lease' = lease => Leads(v)'
  BY DEF InTime, Leads

\* Every step keeps the leader's claim on the lease.
LEMMA SamplerStep ==
    ASSUME S!SamplerAssumption, SamplerInv, [S!Next]_(S!vars)
    PROVE  SamplerInv'
<1> USE DEF SamplerInv
<1>t. S!TypeOK'
  BY SamplerTyping
<1>0. /\ lease \in [value : Worker \cup {None}, left : 0..LeaseTicks]
      /\ loop \in [Worker -> Thread]
      /\ \A w \in Worker : /\ loop[w].ticks \in Nat /\ loop[w].pc \in Place
                           /\ loop[w] = [pc |-> loop[w].pc, ticks |-> loop[w].ticks]
  <2>1. lease \in [value : Worker \cup {None}, left : 0..LeaseTicks] /\ loop \in [Worker -> Thread]
    BY DEF S!TypeOK, Thread, Place, Ticks
  <2> QED  BY <2>1 DEF Thread, Ticks
<1>c. /\ Interval \in Nat /\ MaxElection \in Nat /\ MaxProbe \in Nat /\ LeaseTicks \in Nat
      /\ lease.left \in Nat /\ lease.left <= LeaseTicks /\ lease.value \in Worker \cup {None}
      /\ None \notin Worker
  BY <1>0 DEF S!SamplerAssumption
<1>1. ASSUME NEW w \in Worker, S!Claim(w)
      PROVE  SamplerInv'
  <2>1. UNCHANGED <<redisUp, outage>> /\ (S!Goto(w, "measure") \/ S!Stay(w, "elected"))
    BY <1>1 DEF S!Claim
  <2>2. \A v \in Worker : v # w => loop'[v] = loop[v]
    BY <1>0, <2>1, OneThread DEF Place
  <2>3. CASE lease.value = None
    <3>1. lease' = [value |-> w, left |-> LeaseTicks] /\ loop'[w] = [pc |-> "measure", ticks |-> 0]
      BY <1>0, <1>1, <2>3, OneThread DEF S!Claim, S!Key, Place
    <3>2. InTime(w)'
      BY <1>c, <3>1 DEF InTime, S!Election
    <3>3. Leads(w)'
      BY <1>c, <3>1 DEF Leads
    <3>4. ASSUME NEW v \in Worker, v # w, Leads(v)
          PROVE  Leads(v)'
      BY <1>c, <2>2, <2>3, <3>1, <3>4 DEF Leads
    <3> QED  BY <1>t, <2>1, <2>2, <3>2, <3>3, <3>4, OthersLead
  <2>4. CASE lease.value # None
    <3>1. lease' = lease /\ loop[w].pc = "round"
          /\ loop'[w] = [pc |-> "elected", ticks |-> loop[w].ticks]
      BY <1>0, <1>1, <2>4, OneThread DEF S!Claim, S!At, Place
    <3>2. InTime(w)'
      BY <3>1 DEF InTime, S!Election
    <3>3. Leads(w) => Leads(w)'
      BY <3>1 DEF Leads
    <3> QED  BY <1>t, <2>1, <2>2, <3>1, <3>2, <3>3, OthersLead
  <2> QED  BY <2>3, <2>4
<1>2. ASSUME NEW w \in Worker, S!WhoLeads(w)
      PROVE  SamplerInv'
  <2> DEFINE pc == IF lease.value = w THEN "renew" ELSE "follow"
  <2>1. /\ UNCHANGED <<redisUp, outage, lease>> /\ loop[w].pc = "elected" /\ pc \in Place
        /\ S!Stay(w, pc)
    BY <1>2 DEF S!WhoLeads, S!At, Place
  <2>2. /\ \A v \in Worker : v # w => loop'[v] = loop[v]
        /\ loop'[w] = [pc |-> pc, ticks |-> loop[w].ticks]
    BY <1>0, <2>1, OneThread
  <2>3. InTime(w)'
    BY <2>1, <2>2 DEF InTime, S!Election
  <2>4. Leads(w) => Leads(w)'
    BY <2>1, <2>2 DEF Leads
  <2> QED  BY <1>t, <2>1, <2>2, <2>3, <2>4, OthersLead
<1>3. ASSUME NEW w \in Worker, S!Renew(w)
      PROVE  SamplerInv'
  <2>1. /\ UNCHANGED <<redisUp, outage>> /\ loop[w].pc = "renew" /\ S!Goto(w, "measure")
        /\ lease.value # None => lease' = [value |-> lease.value, left |-> LeaseTicks]
    BY <1>3 DEF S!Renew, S!Key, S!At
  <2>2. /\ \A v \in Worker : v # w => loop'[v] = loop[v]
        /\ loop'[w] = [pc |-> "measure", ticks |-> 0]
    BY <1>0, <2>1, OneThread DEF Place
  <2>3. InTime(w)'
    BY <1>c, <2>2 DEF InTime, S!Election
  <2>4. ASSUME S!RoundWithinLease, ~outage, NEW v \in Worker
        PROVE  Leads(v)'
    <3>1. lease.value = w
      BY <2>1, <2>4 DEF Leads
    <3>2. lease' = [value |-> w, left |-> LeaseTicks]
      BY <1>c, <2>1, <3>1
    <3>3. CASE v = w
      BY <1>c, <2>2, <3>2, <3>3 DEF Leads
    <3>4. CASE v # w
      BY <2>2, <2>4, <3>1, <3>2, <3>4 DEF Leads
    <3> QED  BY <3>3, <3>4
  <2> QED  BY <1>t, <2>1, <2>2, <2>3, <2>4, OthersLead
<1>4. ASSUME NEW w \in Worker, S!Follow(w)
      PROVE  SamplerInv'
  <2>1. /\ UNCHANGED <<redisUp, outage, lease>> /\ loop[w].pc = "follow" /\ S!Goto(w, "sleep")
    BY <1>4 DEF S!Follow, S!At
  <2>2. /\ \A v \in Worker : v # w => loop'[v] = loop[v]
        /\ loop'[w] = [pc |-> "sleep", ticks |-> 0]
    BY <1>0, <2>1, OneThread DEF Place
  <2>3. InTime(w)'
    BY <1>c, <2>2 DEF InTime, S!Election
  <2>4. Leads(w) => Leads(w)'
    BY <2>1, <2>2 DEF Leads
  <2> QED  BY <1>t, <2>1, <2>2, <2>3, <2>4, OthersLead
<1>5. ASSUME NEW w \in Worker, S!ElectionError(w)
      PROVE  SamplerInv'
  <2>1. UNCHANGED <<redisUp, outage>> /\ ~redisUp /\ S!Goto(w, "measure")
    BY <1>5 DEF S!ElectionError
  <2>2. /\ \A v \in Worker : v # w => loop'[v] = loop[v]
        /\ loop'[w] = [pc |-> "measure", ticks |-> 0]
    BY <1>0, <2>1, OneThread DEF Place
  <2>3. InTime(w)'
    BY <1>c, <2>2 DEF InTime, S!Election
  <2> QED  BY <1>t, <2>1, <2>2, <2>3, OthersLead
<1>6. ASSUME NEW w \in Worker, S!Measure(w)
      PROVE  SamplerInv'
  <2>1. /\ UNCHANGED <<redisUp, outage, lease>> /\ loop[w].pc = "measure" /\ S!Goto(w, "publish")
    BY <1>6 DEF S!Measure, S!At
  <2>2. /\ \A v \in Worker : v # w => loop'[v] = loop[v]
        /\ loop'[w] = [pc |-> "publish", ticks |-> 0]
    BY <1>0, <2>1, OneThread DEF Place
  <2>3. InTime(w)' /\ loop[w].ticks <= MaxProbe
    BY <1>c, <2>1, <2>2 DEF InTime, S!Election
  <2>4. Leads(w) => Leads(w)'
    BY <1>0, <1>c, <2>1, <2>2, <2>3 DEF Leads
  <2> QED  BY <1>t, <2>1, <2>2, <2>3, <2>4, OthersLead
<1>7. ASSUME NEW w \in Worker, S!Publish(w)
      PROVE  SamplerInv'
  <2>1. /\ UNCHANGED <<redisUp, outage, lease>> /\ loop[w].pc = "publish" /\ S!Goto(w, "sleep")
    BY <1>7 DEF S!Publish, S!At
  <2>2. /\ \A v \in Worker : v # w => loop'[v] = loop[v]
        /\ loop'[w] = [pc |-> "sleep", ticks |-> 0]
    BY <1>0, <2>1, OneThread DEF Place
  <2>3. InTime(w)'
    BY <1>c, <2>1, <2>2 DEF InTime, S!Election
  <2>4. Leads(w) => Leads(w)'
    BY <1>c, <2>1, <2>2 DEF Leads
  <2> QED  BY <1>t, <2>1, <2>2, <2>3, <2>4, OthersLead
<1>8. ASSUME NEW w \in Worker, S!Wake(w)
      PROVE  SamplerInv'
  <2>1. /\ UNCHANGED <<redisUp, outage, lease>> /\ loop[w].pc = "sleep" /\ S!Goto(w, "round")
        /\ loop[w].ticks = Interval
    BY <1>8 DEF S!Wake, S!At
  <2>2. /\ \A v \in Worker : v # w => loop'[v] = loop[v]
        /\ loop'[w] = [pc |-> "round", ticks |-> 0]
    BY <1>0, <2>1, OneThread DEF Place
  <2>3. InTime(w)'
    BY <1>c, <2>1, <2>2 DEF InTime, S!Election
  <2>4. Leads(w) => Leads(w)'
    BY <1>c, <2>1, <2>2 DEF Leads
  <2> QED  BY <1>t, <2>1, <2>2, <2>3, <2>4, OthersLead
<1>9. ASSUME NEW w \in Worker, S!Stops(w)
      PROVE  SamplerInv'
  <2>1. /\ UNCHANGED <<redisUp, outage, lease>> /\ S!Goto(w, "off")
    BY <1>9 DEF S!Stops
  <2>2. /\ \A v \in Worker : v # w => loop'[v] = loop[v]
        /\ loop'[w] = [pc |-> "off", ticks |-> 0]
    BY <1>0, <2>1, OneThread DEF Place
  <2>3. InTime(w)'
    BY <1>c, <2>1, <2>2 DEF InTime, S!Election
  <2>4. Leads(w) => Leads(w)'
    BY <2>1, <2>2 DEF Leads
  <2> QED  BY <1>t, <2>1, <2>2, <2>3, <2>4, OthersLead
<1>10. CASE S!Tick
  <2>1. UNCHANGED <<redisUp, outage>> /\ lease' = S!Elapse(lease)
    BY <1>10 DEF S!Tick
  <2>2. ASSUME NEW w \in Worker
        PROVE  /\ loop'[w].pc = loop[w].pc
               /\ loop[w].pc \in {"off", "sleep", "measure"} \cup S!Election
               /\ loop[w].pc # "off" => loop'[w].ticks = loop[w].ticks + 1
               /\ loop[w].pc = "sleep" => loop[w].ticks < Interval
               /\ loop[w].pc = "measure" => loop[w].ticks < MaxProbe
               /\ loop[w].pc \in S!Election => loop[w].ticks < MaxElection
    <3>1. loop'[w] = IF S!At(w, "off") THEN loop[w]
                     ELSE [loop[w] EXCEPT !.ticks = loop[w].ticks + 1]
      BY <1>10 DEF S!Tick
    <3>2. loop[w] \in Thread
      BY <1>0
    <3>3. /\ loop'[w].pc = loop[w].pc
          /\ loop[w].pc # "off" => loop'[w].ticks = loop[w].ticks + 1
      BY <3>1, <3>2 DEF S!At, Thread
    <3>4. \/ loop[w].pc = "off"
          \/ loop[w].pc = "sleep" /\ loop[w].ticks < Interval
          \/ loop[w].pc = "measure" /\ loop[w].ticks < MaxProbe
          \/ loop[w].pc \in S!Election /\ loop[w].ticks < MaxElection
      BY <1>10 DEF S!Tick, S!At
    <3> QED  BY <3>3, <3>4 DEF S!Election
  <2>3. ASSUME NEW w \in Worker PROVE InTime(w)'
    BY <1>0, <1>c, <2>2 DEF InTime, S!Election
  <2>4. ASSUME S!RoundWithinLease, NEW w \in Worker, Leads(w)
        PROVE  Leads(w)'
    <3>1. /\ lease.left = 1 => lease' = S!NoKey
          /\ lease.left = 0 => lease'.value = lease.value /\ lease'.left = 0
          /\ lease.left \notin {0, 1} => lease'.value = lease.value /\ lease'.left = lease.left - 1
      <4>1. /\ lease.left = 1 => lease' = S!NoKey
            /\ lease.left = 0 => lease' = [lease EXCEPT !.left = 0]
            /\ lease.left \notin {0, 1} => lease' = [lease EXCEPT !.left = lease.left - 1]
        BY <2>1 DEF S!Elapse
      <4> QED  BY <1>0, <4>1
    <3>2. CASE lease.value = w /\ loop[w].pc # "off"
      <4>1. lease.left > 1
        BY <1>0, <1>c, <2>2, <2>4, <3>2 DEF Leads, S!RoundWithinLease, S!Election
      <4>2. lease'.value = w /\ lease'.left = lease.left - 1
        BY <1>c, <3>1, <3>2, <4>1
      <4> QED  BY <1>0, <1>c, <2>2, <2>4, <3>2, <4>2 DEF Leads, S!Election
    <3>3. CASE lease.value # w
      <4>1. lease'.value # w
        BY <1>c, <3>1, <3>3 DEF S!NoKey
      <4> QED  BY <2>2, <2>4, <3>3, <4>1 DEF Leads
    <3>4. CASE loop[w].pc = "off"
      BY <2>2, <3>4 DEF Leads
    <3> QED  BY <3>2, <3>3, <3>4
  <2> QED  BY <1>t, <2>1, <2>3, <2>4
<1>11. CASE S!RedisFails
  <2>1. UNCHANGED loop /\ outage' = TRUE
    BY <1>11 DEF S!RedisFails
  <2> QED  BY <1>t, <2>1 DEF InTime
<1>12. CASE S!RedisRecovers \/ UNCHANGED S!vars
  <2>1. UNCHANGED <<loop, lease, outage>> /\ (redisUp' = TRUE \/ redisUp' = redisUp)
    BY <1>12 DEF S!RedisRecovers, S!vars
  <2> QED  BY <1>t, <2>1 DEF InTime, Leads
<1> QED  BY <1>1, <1>2, <1>3, <1>4, <1>5, <1>6, <1>7, <1>8, <1>9, <1>10, <1>11, <1>12 DEF S!Next

\* So it is in every state of the part.
LEMMA SamplerAlways == Spec => [](part = "sampler" => SamplerInv)
<1> DEFINE Inv == part = "sampler" => SamplerInv
<1>1. Init => Inv
  <2> SUFFICES ASSUME S!Init PROVE SamplerInv
    BY DEF Init
  <2>1. /\ redisUp = TRUE /\ lease = S!NoKey /\ latest = S!NoKey /\ outage = FALSE /\ failures = 0
        /\ loop = [w \in Worker |-> [pc |-> "round", ticks |-> 0]]
        /\ shown = [w \in Worker |-> 0]
    BY DEF S!Init
  <2>2. 0 \in 0..LeaseTicks /\ 0 \in 0..LatestTicks /\ 0 \in Ticks /\ 0 \in 0..MaxFaults
    BY BoundsAssumption DEF S!SamplerAssumption, Ticks
  <2>3. 0 \in 0..S!MaxAge
    BY BoundsAssumption, AgesTyped
  <2>4. S!TypeOK
    BY <2>1, <2>2, <2>3 DEF S!TypeOK, S!NoKey, Ticks
  <2>5. ASSUME NEW w \in Worker PROVE InTime(w) /\ Leads(w)
    BY <2>1, BoundsAssumption DEF InTime, Leads, S!NoKey, S!SamplerAssumption, S!Election
  <2> QED  BY <2>1, <2>4, <2>5 DEF SamplerInv
<1>2. Inv /\ [Next]_vars => Inv'
  BY Parts, SamplerStep, BoundsAssumption
<1> QED  BY <1>1, <1>2, PTL DEF Spec

\* For any workers and times such that the leader's round is shorter than the
\* lease: while Redis answers, no two workers measure at the same time, also
\* when a leader stops and its lease passes on (sample_once, sampler.py:4).
THEOREM OneSamplerAlways == S!RoundWithinLease => (Spec => []OneSampler)
<1> SUFFICES ASSUME S!RoundWithinLease PROVE Spec => []OneSampler
  OBVIOUS
<1>1. (part = "sampler" => SamplerInv) => OneSampler
  <2> SUFFICES ASSUME SamplerInv, ~outage
               PROVE  S!Cardinality({w \in Worker : S!At(w, "measure")}) <= 1
    BY DEF OneSampler, S!OneSampler
  <2> DEFINE Measuring == {w \in Worker : S!At(w, "measure")}
  <2>1. \A v, w \in Measuring : v = w
    BY DEF SamplerInv, Leads, S!At
  <2>2. Measuring = {} \/ \E w \in Measuring : Measuring = {w}
    BY <2>1
  <2>3. S!Cardinality(Measuring) = Cardinality(Measuring)
    BY DEF S!Cardinality, Cardinality
  <2> HIDE DEF Measuring
  <2>4. Cardinality(Measuring) \in {0, 1}
    BY <2>2, FS_EmptySet, FS_Singleton
  <2> QED  BY <2>3, <2>4 DEF Measuring
<1> QED  BY <1>1, SamplerAlways, PTL

-----------------------------------------------------------------------------
(* How old a sample can get.                                                *)

Runs(w) == loop[w].pc # "off"

\* The ticks in which w has measured, if it is w that measures next.
Refresh(w) ==
    IF loop[w].pc = "sleep" THEN S!Cycle - loop[w].ticks
    ELSE IF loop[w].pc \in S!Election THEN MaxElection + MaxProbe - loop[w].ticks
    ELSE IF loop[w].pc = "measure" THEN MaxProbe - loop[w].ticks
    ELSE 0

\* The lease is w's until w has renewed it.
WillRenew(w) ==
    /\ lease.value = w
    /\ \/ loop[w].pc = "sleep" /\ lease.left + loop[w].ticks > S!Round
       \/ loop[w].pc \in {"round", "elected"} /\ lease.left + loop[w].ticks > MaxElection

\* The lease is free: w claims it when its next round begins, unless somebody
\* was faster.
MayClaim(w, n) ==
    /\ lease.value = None
    /\ \/ loop[w].pc \in {"sleep", "round"} /\ n = Refresh(w)
       \/ loop[w].pc \in {"elected", "follow"} /\ n = Refresh(w) + S!Round

\* A measurement is due in n ticks at most: by w, or because the lease, if it
\* is of no use any more, expires and leaves an election behind.
DueBy(w, n) ==
    \/ loop[w].pc \in {"publish", "measure", "renew"} /\ n = Refresh(w)
    \/ WillRenew(w) /\ n = Refresh(w)
    \/ MayClaim(w, n)
Due(n) ==
    \/ \E w \in Worker : DueBy(w, n)
    \/ lease.value # None /\ n = lease.left + MaxElection + S!Cycle

\* What is published is still there when w looks next.
WillSee(w) ==
    \/ loop[w].pc = "sleep" /\ latest.left + loop[w].ticks > S!Round
    \/ loop[w].pc \in S!Election /\ latest.left + loop[w].ticks > MaxElection
    \/ loop[w].pc \in {"measure", "publish"}

\* w is fresh enough to wait for the next measurement and a cycle more, or it
\* is about to refresh from what is published.
FreshUntil(w, n) ==
    \/ shown[w] + n + S!Cycle <= S!AgeAfter(failures)
    \/ WillSee(w) /\ shown[w] + Refresh(w) <= S!AgeAfter(failures)

FreshWhileUp(n) ==
    /\ n \in Nat /\ Due(n)
    /\ latest.value # None => latest.value + n + S!Cycle <= S!AgeAfter(failures)
    /\ \A w \in Worker : Runs(w) => FreshUntil(w, n)

\* While Redis is down every worker measures for itself; when it is back, the
\* lease of before may have to expire first.
FreshWhileDown ==
    /\ failures > 0
    /\ latest.value # None /\ lease.value # None =>
          latest.value + lease.left + MaxElection + 2 * S!Cycle <= S!AgeAfter(failures)
    /\ \A w \in Worker : Runs(w) =>
          /\ shown[w] + Refresh(w) <= S!AgeAfter(failures - 1)
          /\ \/ lease.value = None
             \/ WillSee(w)
             \/ shown[w] + lease.left + MaxElection + 2 * S!Cycle <= S!AgeAfter(failures)

\* What the keys hold, and what a worker publishes.
KeysInv ==
    /\ outage => failures > 0
    /\ lease.value # None => lease.left > 0
    /\ lease.value = None => lease.left = 0
    /\ latest.value # None => latest.left > 0 /\ latest.value + latest.left <= LatestTicks
    /\ latest.value = None => latest.left = 0
    /\ \A w \in Worker : loop[w].pc = "publish" => shown[w] = 0

FreshInv ==
    /\ KeysInv
    /\ (\E w \in Worker : Runs(w)) =>
          IF redisUp THEN \E n \in Nat : FreshWhileUp(n) ELSE FreshWhileDown

\* Every failure costs the same.
LEMMA AgesAdd ==
    ASSUME S!SamplerAssumption
    PROVE  /\ S!AgeAfter(0) = 2 * S!Cycle
           /\ \A n \in Nat : S!AgeAfter(n + 1) = S!AgeAfter(n) + S!FailureCost
           /\ \A n \in Nat : n > 0 => S!AgeAfter(n) = S!AgeAfter(n - 1) + S!FailureCost
           /\ \A n \in Nat : S!AgeAfter(n) >= 2 * S!Cycle
           /\ \A n \in Nat : n > 0 => S!AgeAfter(n) >= S!FailureCost + 2 * S!Cycle
           /\ \A n \in 0..MaxFaults : S!AgeAfter(n) <= S!Bound
<1> DEFINE d == S!FailureCost  e == 2 * S!Cycle
<1>1. d \in Nat /\ e \in Nat /\ \A n \in Nat : S!AgeAfter(n) = n * d + e
  BY AgesTyped DEF S!AgeAfter
<1>2. MaxFaults \in Nat
  BY DEF S!SamplerAssumption
<1> HIDE DEF d, e
<1>3. \A n \in Nat : n * d \in Nat
  BY <1>1
<1>4. \A n \in Nat : (n + 1) * d = n * d + d
  BY <1>1
<1>5. S!AgeAfter(0) = e
  BY <1>1
<1>6. \A n \in Nat : S!AgeAfter(n + 1) = S!AgeAfter(n) + d
  BY <1>1, <1>3, <1>4
<1>7. \A n \in Nat : n > 0 => S!AgeAfter(n) = S!AgeAfter(n - 1) + d
  <2> SUFFICES ASSUME NEW n \in Nat, n > 0 PROVE S!AgeAfter(n) = S!AgeAfter(n - 1) + d
    OBVIOUS
  <2>1. n - 1 \in Nat /\ (n - 1) + 1 = n
    OBVIOUS
  <2> QED  BY <1>6, <2>1
<1>8. \A n \in Nat : S!AgeAfter(n) >= e
  BY <1>1, <1>3
<1>9. \A n \in Nat : n > 0 => S!AgeAfter(n) >= d + e
  <2> SUFFICES ASSUME NEW n \in Nat, n > 0 PROVE S!AgeAfter(n) >= d + e
    OBVIOUS
  <2>1. n - 1 \in Nat /\ S!AgeAfter(n - 1) \in Nat
    BY AgesTyped
  <2> QED  BY <1>1, <1>7, <1>8, <2>1
<1>10. \A n \in 0..MaxFaults : S!AgeAfter(n) <= S!Bound
  <2> SUFFICES ASSUME NEW n \in 0..MaxFaults PROVE S!AgeAfter(n) <= S!AgeAfter(MaxFaults)
    BY DEF S!Bound
  <2> DEFINE k == MaxFaults - n
  <2>1. k \in Nat /\ n \in Nat /\ MaxFaults = n + k
    BY <1>2
  <2> HIDE DEF k
  <2>2. (n + k) * d = n * d + k * d
    BY <1>1, <2>1
  <2>3. n * d \in Nat /\ k * d \in Nat
    BY <1>3, <2>1
  <2> QED  BY <1>1, <1>2, <2>1, <2>2, <2>3
<1> QED  BY <1>5, <1>6, <1>7, <1>8, <1>9, <1>10 DEF d, e

\* The types, one value at a time.
LEMMA SamplerFacts ==
    ASSUME S!SamplerAssumption, SamplerInv
    PROVE  /\ Interval \in Nat /\ MaxElection \in Nat /\ MaxProbe \in Nat
           /\ LeaseTicks \in Nat /\ LatestTicks \in Nat /\ LeaseTicks > 0 /\ LatestTicks > 0
           /\ None \notin Nat /\ None \notin Worker
           /\ failures \in 0..MaxFaults /\ failures \in Nat /\ MaxFaults \in Nat
           /\ lease.left \in Nat /\ lease.left <= LeaseTicks /\ lease.value \in Worker \cup {None}
           /\ latest.left \in Nat /\ latest.value \in Nat \cup {None}
           /\ latest = [value |-> latest.value, left |-> latest.left]
           /\ lease = [value |-> lease.value, left |-> lease.left]
           /\ loop \in [Worker -> Thread] /\ shown \in [Worker -> 0..S!MaxAge]
           /\ \A w \in Worker : /\ loop[w].ticks \in Nat /\ loop[w].pc \in Place
                                /\ loop[w] \in Thread /\ shown[w] \in Nat
                                /\ shown[w] \in 0..S!MaxAge /\ InTime(w)
<1>1. /\ lease \in [value : Worker \cup {None}, left : 0..LeaseTicks]
      /\ latest \in [value : 0..S!MaxAge \cup {None}, left : 0..LatestTicks]
      /\ loop \in [Worker -> Thread] /\ shown \in [Worker -> 0..S!MaxAge]
      /\ failures \in 0..MaxFaults
  BY DEF SamplerInv, S!TypeOK, Thread, Place, Ticks
<1>2. S!MaxAge \in Nat
  BY AgesTyped
<1>3. \A w \in Worker : loop[w] \in Thread /\ shown[w] \in 0..S!MaxAge
  BY <1>1
<1> HIDE DEF S!MaxAge
<1>4. \A w \in Worker : loop[w].ticks \in Nat /\ loop[w].pc \in Place /\ shown[w] \in Nat
  <2>1. Ticks \subseteq Nat /\ 0..S!MaxAge \subseteq Nat
    BY <1>2 DEF Ticks
  <2>2. \A w \in Worker : loop[w].ticks \in Ticks /\ loop[w].pc \in Place
    BY <1>3 DEF Thread
  <2> QED  BY <1>3, <2>1, <2>2
<1>5. /\ lease.left \in Nat /\ lease.left <= LeaseTicks /\ lease.value \in Worker \cup {None}
      /\ lease = [value |-> lease.value, left |-> lease.left]
  BY <1>1 DEF S!SamplerAssumption
<1>6. /\ latest.left \in Nat /\ latest.value \in Nat \cup {None}
      /\ latest = [value |-> latest.value, left |-> latest.left]
  BY <1>1, <1>2 DEF S!SamplerAssumption
<1>7. failures \in Nat
  BY <1>1 DEF S!SamplerAssumption
<1> QED  BY <1>1, <1>3, <1>4, <1>5, <1>6, <1>7 DEF SamplerInv, S!SamplerAssumption

\* As long as a worker runs, some measurement is due: at worst when the lease
\* has expired, after an election it spoiled and a cycle.
LEMMA SomethingIsDue ==
    ASSUME S!SamplerAssumption, SamplerInv, KeysInv, NEW w \in Worker, Runs(w)
    PROVE  \E n \in Nat : /\ n <= lease.left + MaxElection + S!Cycle
                          /\ \/ DueBy(w, n)
                             \/ lease.value # None /\ n = lease.left + MaxElection + S!Cycle
<1>1. CASE lease.value # None
  <2> DEFINE n == lease.left + MaxElection + S!Cycle
  <2>1. n \in Nat /\ n <= n
    BY SamplerFacts, AgesTyped
  <2> QED  BY <1>1, <2>1
<1>2. CASE lease.value = None
  <2>1. /\ loop[w].pc \in {"round", "elected", "follow", "renew"} => loop[w].ticks <= MaxElection
        /\ loop[w].pc = "measure" => loop[w].ticks <= MaxProbe
        /\ loop[w].pc = "sleep" => loop[w].ticks <= Interval
        /\ loop[w].pc \in Place \ {"off"}
    BY SamplerFacts DEF InTime, S!Election, Runs
  <2>2. CASE loop[w].pc \in {"publish", "measure", "renew", "sleep", "round"}
    <3> DEFINE n == Refresh(w)
    <3>1. n \in Nat /\ n <= lease.left + MaxElection + S!Cycle
      BY <2>1, <2>2, SamplerFacts, AgesTyped DEF Refresh, S!Election
    <3>2. DueBy(w, n)
      BY <1>2, <2>2 DEF DueBy, MayClaim
    <3> QED  BY <3>1, <3>2
  <2>3. CASE loop[w].pc \in {"elected", "follow"}
    <3> DEFINE n == Refresh(w) + S!Round
    <3>1. n \in Nat /\ n <= lease.left + MaxElection + S!Cycle
      BY <2>1, <2>3, SamplerFacts, AgesTyped DEF Refresh, S!Election
    <3>2. DueBy(w, n)
      BY <1>2, <2>3 DEF DueBy, MayClaim
    <3> QED  BY <3>1, <3>2
  <2> QED  BY <2>1, <2>2, <2>3 DEF Place
<1> QED  BY <1>1, <1>2

\* What a tick does.
LEMMA OneTick ==
    ASSUME S!SamplerAssumption, SamplerInv, KeysInv, S!Tick
    PROVE  /\ UNCHANGED <<redisUp, outage, failures>>
           /\ \/ lease.value = None /\ lease'.value = None /\ lease'.left = 0
              \/ lease.value # None /\ lease.left = 1 /\ lease'.value = None /\ lease'.left = 0
              \/ /\ lease.value # None /\ lease.left > 1
                 /\ lease'.value = lease.value /\ lease'.left = lease.left - 1
           /\ \/ latest'.value = None /\ latest'.left = 0
              \/ /\ latest.value # None /\ latest.left > 1
                 /\ latest'.value <= latest.value + 1 /\ latest'.value \in Nat
                 /\ latest'.left = latest.left - 1
           /\ latest.left > 0 => latest'.left = latest.left - 1
           /\ \A w \in Worker :
                 /\ loop'[w].pc = loop[w].pc
                 /\ loop[w].pc \in {"off", "sleep", "measure", "round", "elected", "follow", "renew"}
                 /\ loop[w].pc # "off" => loop'[w].ticks = loop[w].ticks + 1
                 /\ loop[w].pc = "sleep" => loop[w].ticks < Interval
                 /\ loop[w].pc = "measure" => loop[w].ticks < MaxProbe
                 /\ loop[w].pc \in S!Election => loop[w].ticks < MaxElection
                 /\ shown'[w] \in Nat /\ shown'[w] <= shown[w] + 1
<1>1. /\ lease' = S!Elapse(lease)
      /\ latest' = S!Elapse([latest EXCEPT !.value = S!GrowOld(latest.value)])
      /\ shown' = [w \in Worker |-> S!GrowOld(shown[w])]
      /\ loop' = [w \in Worker |-> IF S!At(w, "off") THEN loop[w]
                                   ELSE [loop[w] EXCEPT !.ticks = loop[w].ticks + 1]]
      /\ UNCHANGED <<redisUp, outage, failures>>
  BY DEF S!Tick
<1>2. \A age \in Nat : S!GrowOld(age) \in Nat /\ S!GrowOld(age) <= age + 1
  BY AgesTyped DEF S!GrowOld
<1>3. S!GrowOld(None) = None
  BY AgesTyped
<1>4. \/ lease.value = None /\ lease'.value = None /\ lease'.left = 0
      \/ lease.value # None /\ lease.left = 1 /\ lease'.value = None /\ lease'.left = 0
      \/ /\ lease.value # None /\ lease.left > 1
         /\ lease'.value = lease.value /\ lease'.left = lease.left - 1
  <2>1. /\ lease.left = 1 => lease' = S!NoKey
        /\ lease.left = 0 => lease' = [lease EXCEPT !.left = 0]
        /\ lease.left \notin {0, 1} => lease' = [lease EXCEPT !.left = lease.left - 1]
    BY <1>1 DEF S!Elapse
  <2>2. /\ lease.left = 1 => lease'.value = None /\ lease'.left = 0
        /\ lease.left = 0 => lease'.value = lease.value /\ lease'.left = 0
        /\ lease.left \notin {0, 1} => lease'.value = lease.value /\ lease'.left = lease.left - 1
    BY <2>1, SamplerFacts DEF S!NoKey
  <2> QED  BY <2>2, SamplerFacts DEF KeysInv
<1>5. /\ latest.left = 1 => latest'.value = None /\ latest'.left = 0
      /\ latest.left = 0 => latest'.value = S!GrowOld(latest.value) /\ latest'.left = 0
      /\ latest.left \notin {0, 1} => latest'.value = S!GrowOld(latest.value) /\ latest'.left = latest.left - 1
  <2> DEFINE older == [latest EXCEPT !.value = S!GrowOld(latest.value)]
  <2>1. older = [value |-> S!GrowOld(latest.value), left |-> latest.left]
    BY SamplerFacts
  <2>2. latest' = S!Elapse(older)
    BY <1>1
  <2> HIDE DEF older
  <2>3. /\ latest.left = 1 => latest' = S!NoKey
        /\ latest.left = 0 => latest' = [older EXCEPT !.left = 0]
        /\ latest.left \notin {0, 1} => latest' = [older EXCEPT !.left = older.left - 1]
    BY <2>1, <2>2 DEF S!Elapse
  <2> QED  BY <2>1, <2>3 DEF S!NoKey
<1>6. \/ latest'.value = None /\ latest'.left = 0
      \/ /\ latest.value # None /\ latest.left > 1
         /\ latest'.value <= latest.value + 1 /\ latest'.value \in Nat
         /\ latest'.left = latest.left - 1
  <2>1. CASE latest.value = None
    BY <1>3, <1>5, <2>1 DEF KeysInv
  <2>2. CASE latest.value # None
    BY <1>2, <1>5, <2>2, SamplerFacts DEF KeysInv
  <2> QED  BY <2>1, <2>2
<1>7. latest.left > 0 => latest'.left = latest.left - 1
  BY <1>5, SamplerFacts
<1>8. ASSUME NEW w \in Worker
      PROVE  /\ loop'[w].pc = loop[w].pc
             /\ loop[w].pc \in {"off", "sleep", "measure", "round", "elected", "follow", "renew"}
             /\ loop[w].pc # "off" => loop'[w].ticks = loop[w].ticks + 1
             /\ loop[w].pc = "sleep" => loop[w].ticks < Interval
             /\ loop[w].pc = "measure" => loop[w].ticks < MaxProbe
             /\ loop[w].pc \in S!Election => loop[w].ticks < MaxElection
             /\ shown'[w] \in Nat /\ shown'[w] <= shown[w] + 1
  <2>1. loop'[w] = IF S!At(w, "off") THEN loop[w]
                   ELSE [loop[w] EXCEPT !.ticks = loop[w].ticks + 1]
    BY <1>1
  <2>2. loop[w] \in Thread
    BY SamplerFacts
  <2>3. /\ loop'[w].pc = loop[w].pc
        /\ loop[w].pc # "off" => loop'[w].ticks = loop[w].ticks + 1
    BY <2>1, <2>2 DEF S!At, Thread
  <2>4. \/ loop[w].pc = "off"
        \/ loop[w].pc = "sleep" /\ loop[w].ticks < Interval
        \/ loop[w].pc = "measure" /\ loop[w].ticks < MaxProbe
        \/ loop[w].pc \in S!Election /\ loop[w].ticks < MaxElection
    BY DEF S!Tick, S!At
  <2>5. shown'[w] \in Nat /\ shown'[w] <= shown[w] + 1
    BY <1>1, <1>2, SamplerFacts
  <2> QED  BY <2>3, <2>4, <2>5 DEF S!Election
<1> QED  BY <1>1, <1>4, <1>6, <1>7, <1>8

\* What a step of a worker does to itself; the others stay as they are.
LEMMA OneMove ==
    ASSUME S!SamplerAssumption, SamplerInv, NEW w \in Worker, NEW pc \in Place,
           S!Goto(w, pc) \/ S!Stay(w, pc)
    PROVE  /\ \A v \in Worker : v # w => loop'[v] = loop[v]
           /\ loop'[w].pc = pc
           /\ S!Goto(w, pc) => loop'[w].ticks = 0
           /\ S!Stay(w, pc) => loop'[w].ticks = loop[w].ticks
<1>1. loop \in [Worker -> Thread]
  BY SamplerFacts
<1>2. /\ S!Goto(w, pc) => loop'[w] = [pc |-> pc, ticks |-> 0]
      /\ S!Stay(w, pc) => loop'[w] = [pc |-> pc, ticks |-> loop[w].ticks]
      /\ \A v \in Worker : v # w => loop'[v] = loop[v]
  BY <1>1, OneThread
<1> QED  BY <1>2

\* Every step keeps the keys as they should be.
LEMMA KeysStep ==
    ASSUME S!SamplerAssumption, SamplerInv, KeysInv, [S!Next]_(S!vars)
    PROVE  KeysInv'
<1>1. ASSUME NEW w \in Worker, S!Claim(w) \/ S!WhoLeads(w) \/ S!Renew(w) \/ S!ElectionError(w) \/ S!Wake(w)
      PROVE  KeysInv'
  <2>1. /\ UNCHANGED <<latest, shown, outage, failures>>
        /\ \/ lease' = lease
           \/ lease'.value # None /\ lease'.left = LeaseTicks
           \/ lease'.value = None /\ lease'.left = 0
    BY <1>1, SamplerFacts DEF S!Claim, S!WhoLeads, S!Renew, S!ElectionError, S!Wake, S!Key, S!NoKey
  <2>2. \E pc \in Place \ {"publish"} : S!Goto(w, pc) \/ S!Stay(w, pc)
    BY <1>1 DEF S!Claim, S!WhoLeads, S!Renew, S!ElectionError, S!Wake, Place
  <2>3. /\ \A v \in Worker : v # w => loop'[v] = loop[v]
        /\ loop'[w].pc # "publish"
    BY <2>2, OneMove
  <2> QED  BY <2>1, <2>3, SamplerFacts DEF KeysInv
<1>2. ASSUME NEW w \in Worker, S!Follow(w)
      PROVE  KeysInv'
  <2>1. /\ UNCHANGED <<lease, latest, outage, failures>> /\ S!Goto(w, "sleep")
        /\ shown' \in {shown, [shown EXCEPT ![w] = latest.value]}
    BY <1>2 DEF S!Follow
  <2>2. /\ \A v \in Worker : v # w => loop'[v] = loop[v]
        /\ loop'[w].pc = "sleep"
    BY <2>1, OneMove DEF Place
  <2>3. \A v \in Worker : v # w => shown'[v] = shown[v]
    BY <2>1, SamplerFacts
  <2> QED  BY <2>1, <2>2, <2>3 DEF KeysInv
<1>3. ASSUME NEW w \in Worker, S!Measure(w)
      PROVE  KeysInv'
  <2>1. /\ UNCHANGED <<lease, latest, outage, failures>> /\ S!Goto(w, "publish")
        /\ shown' = [shown EXCEPT ![w] = 0]
    BY <1>3 DEF S!Measure
  <2>2. /\ \A v \in Worker : v # w => loop'[v] = loop[v]
    BY <2>1, OneMove DEF Place
  <2>3. \A v \in Worker : shown'[v] = IF v = w THEN 0 ELSE shown[v]
    BY <2>1, SamplerFacts
  <2> QED  BY <2>1, <2>2, <2>3 DEF KeysInv
<1>4. ASSUME NEW w \in Worker, S!Publish(w)
      PROVE  KeysInv'
  <2>1. /\ UNCHANGED <<lease, shown, outage, failures>> /\ S!Goto(w, "sleep") /\ loop[w].pc = "publish"
        /\ latest' \in {latest, [value |-> shown[w], left |-> LatestTicks]}
    BY <1>4 DEF S!Publish, S!Key, S!At
  <2>2. /\ \A v \in Worker : v # w => loop'[v] = loop[v]
        /\ loop'[w].pc = "sleep"
    BY <2>1, OneMove DEF Place
  <2>3. shown[w] = 0
    BY <2>1 DEF KeysInv
  <2>4. /\ latest'.value # None => latest'.left > 0 /\ latest'.value + latest'.left <= LatestTicks
        /\ latest'.value = None => latest'.left = 0
    BY <2>1, <2>3, SamplerFacts DEF KeysInv
  <2> QED  BY <2>1, <2>2, <2>4 DEF KeysInv
<1>5. ASSUME NEW w \in Worker, S!Stops(w)
      PROVE  KeysInv'
  <2>1. /\ UNCHANGED <<lease, latest, shown, outage>> /\ S!Goto(w, "off") /\ failures' = failures + 1
    BY <1>5 DEF S!Stops
  <2>2. /\ \A v \in Worker : v # w => loop'[v] = loop[v]
        /\ loop'[w].pc = "off"
    BY <2>1, OneMove DEF Place
  <2> QED  BY <2>1, <2>2, SamplerFacts DEF KeysInv
<1>6. CASE S!Tick
  <2>1. /\ latest'.value # None => latest'.left > 0 /\ latest'.value + latest'.left <= LatestTicks
        /\ latest'.value = None => latest'.left = 0
    BY <1>6, OneTick, SamplerFacts DEF KeysInv
  <2>2. lease'.value # None => lease'.left > 0
    BY <1>6, OneTick, SamplerFacts
  <2>3. lease'.value = None => lease'.left = 0
    BY <1>6, OneTick, SamplerFacts
  <2>4. UNCHANGED <<outage, failures>> /\ \A w \in Worker : loop'[w].pc # "publish"
    BY <1>6, OneTick
  <2> QED  BY <2>1, <2>2, <2>3, <2>4 DEF KeysInv
<1>7. CASE S!RedisFails \/ S!RedisRecovers \/ UNCHANGED S!vars
  <2>1. /\ UNCHANGED <<lease, latest, loop, shown>>
        /\ \/ UNCHANGED <<outage, failures>>
           \/ failures' = failures + 1
    BY <1>7 DEF S!RedisFails, S!RedisRecovers, S!vars
  <2> QED  BY <2>1, SamplerFacts DEF KeysInv
<1> QED  BY <1>1, <1>2, <1>3, <1>4, <1>5, <1>6, <1>7 DEF S!Next

\* How long a refresh takes, place by place.
LEMMA RefreshBounds ==
    ASSUME S!SamplerAssumption, SamplerInv, NEW w \in Worker
    PROVE  /\ Refresh(w) \in Nat /\ Refresh(w) <= S!Cycle
           /\ loop[w].pc \in {"sleep", "round", "elected", "follow", "renew"} => Refresh(w) >= MaxProbe
<1>1. /\ loop[w].pc \in S!Election => loop[w].ticks <= MaxElection
      /\ loop[w].pc = "measure" => loop[w].ticks <= MaxProbe
      /\ loop[w].pc = "sleep" => loop[w].ticks <= Interval
      /\ loop[w].ticks \in Nat
  BY SamplerFacts DEF InTime
<1> QED  BY <1>1, SamplerFacts, AgesTyped DEF Refresh, S!Election

\* A measurement that was due stays due while one worker moves on and the
\* lease stays, if what that worker was due to do it is still due to do.
LEMMA DueWithLease ==
    ASSUME NEW w \in Worker, NEW n \in Nat, Due(n), UNCHANGED lease,
           \A v \in Worker : v # w => loop'[v] = loop[v],
           DueBy(w, n) => \E m \in Nat : m <= n /\ DueBy(w, m)'
    PROVE  \E m \in Nat : m <= n /\ Due(m)'
<1>1. CASE DueBy(w, n)
  <2>1. PICK m \in Nat : m <= n /\ DueBy(w, m)'
    BY <1>1
  <2> QED  BY <2>1 DEF Due
<1>2. ASSUME NEW v \in Worker, v # w, DueBy(v, n)
      PROVE  Due(n)'
  <2>1. loop'[v] = loop[v]
    BY <1>2
  <2>2. Refresh(v)' = Refresh(v)
    BY <2>1 DEF Refresh
  <2>3. DueBy(v, n)'
    BY <1>2, <2>1, <2>2 DEF DueBy, WillRenew, MayClaim
  <2> QED  BY <2>3 DEF Due
<1>3. CASE lease.value # None /\ n = lease.left + MaxElection + S!Cycle
  <2>1. Due(n)'
    BY <1>3 DEF Due
  <2> QED  BY <2>1
<1>4. n <= n
  OBVIOUS
<1> QED  BY <1>1, <1>2, <1>3, <1>4 DEF Due

\* It stays due when a worker gets or renews a lease: if nobody measures
\* already, that worker does.
LEMMA DueAtOnce ==
    ASSUME S!SamplerAssumption, SamplerInv, NEW w \in Worker, NEW n \in Nat, Due(n),
           loop[w].pc \in {"round", "renew"}, S!Goto(w, "measure")
    PROVE  \E m \in Nat : m <= n /\ Due(m)'
<1>1. /\ \A v \in Worker : v # w => loop'[v] = loop[v]
      /\ loop'[w].pc = "measure" /\ loop'[w].ticks = 0
  BY OneMove DEF Place
<1>2. DueBy(w, MaxProbe)'
  <2>1. Refresh(w)' = MaxProbe
    BY <1>1, SamplerFacts DEF Refresh, S!Election
  <2> QED  BY <1>1, <2>1 DEF DueBy
<1>3. CASE n >= MaxProbe
  <2>1. MaxProbe \in Nat /\ MaxProbe <= n
    BY <1>3, SamplerFacts
  <2> QED  BY <1>2, <2>1 DEF Due
<1>4. CASE ~(n >= MaxProbe)
  <2>1. ~(lease.value # None /\ n = lease.left + MaxElection + S!Cycle)
    BY <1>4, SamplerFacts, AgesTyped
  <2>2. PICK v \in Worker : DueBy(v, n)
    BY <2>1 DEF Due
  <2>3. Refresh(v) \in Nat /\ S!Round \in Nat
        /\ (loop[v].pc \in {"sleep", "round", "elected", "follow", "renew"} => Refresh(v) >= MaxProbe)
    BY RefreshBounds, AgesTyped
  <2>4. loop[v].pc \in {"publish", "measure"} /\ n = Refresh(v)
    BY <1>4, <2>2, <2>3, SamplerFacts DEF DueBy, WillRenew, MayClaim
  <2>5. loop'[v] = loop[v]
    BY <1>1, <2>4
  <2>6. Refresh(v)' = Refresh(v)
    BY <2>5 DEF Refresh
  <2>7. DueBy(v, n)'
    BY <2>4, <2>5, <2>6 DEF DueBy
  <2>8. n <= n
    OBVIOUS
  <2> QED  BY <2>7, <2>8 DEF Due
<1> QED  BY <1>3, <1>4

\* While Redis is up: a step of w, after which the next measurement is due no
\* later, leaves everybody as fresh.
LEMMA FreshAfterMove ==
    ASSUME S!SamplerAssumption, SamplerInv, NEW w \in Worker, NEW n \in Nat, FreshWhileUp(n),
           NEW m \in Nat, m <= n, Due(m)', UNCHANGED <<latest, failures>>, Runs(w),
           \A v \in Worker : v # w => loop'[v] = loop[v] /\ shown'[v] = shown[v],
           \/ /\ shown'[w] = shown[w]
              /\ Refresh(w)' \in Nat /\ Refresh(w)' <= Refresh(w)
              /\ WillSee(w) => WillSee(w)'
           \/ shown'[w] + m + S!Cycle <= S!AgeAfter(failures)
    PROVE  FreshWhileUp(m)'
<1> DEFINE a == S!AgeAfter(failures)  c == S!Cycle
<1>0. a \in Nat /\ c \in Nat /\ S!AgeAfter(failures)' = a
  BY SamplerFacts, AgesTyped
<1>1. latest.value # None => latest.value + n + c <= a
  BY DEF FreshWhileUp
<1> HIDE DEF a, c
<1>2. latest'.value # None => latest'.value + m + c <= a
  BY <1>0, <1>1, SamplerFacts
<1>3. ASSUME NEW v \in Worker, Runs(v)'
      PROVE  FreshUntil(v, m)'
  <2>1. Runs(v)
    BY <1>3 DEF Runs
  <2>2. shown[v] + n + c <= a \/ (WillSee(v) /\ shown[v] + Refresh(v) <= a)
    BY <2>1 DEF FreshWhileUp, FreshUntil, a, c
  <2>3. shown[v] \in Nat /\ Refresh(v) \in Nat
    BY SamplerFacts, RefreshBounds
  <2>4. CASE v # w
    <3>1. loop'[v] = loop[v] /\ shown'[v] = shown[v] /\ latest' = latest
      BY <2>4
    <3>2. Refresh(v)' = Refresh(v) /\ (WillSee(v) => WillSee(v)')
      BY <3>1 DEF Refresh, WillSee
    <3>3. shown'[v] + m + c <= a \/ (WillSee(v)' /\ shown'[v] + Refresh(v)' <= a)
      BY <1>0, <2>2, <2>3, <3>1, <3>2
    <3> QED  BY <1>0, <3>3 DEF FreshUntil, a, c
  <2>5. CASE v = w
    <3>1. shown'[v] + m + c <= a \/ (WillSee(v)' /\ shown'[v] + Refresh(v)' <= a)
      BY <1>0, <2>2, <2>3, <2>5 DEF a, c
    <3> QED  BY <1>0, <3>1 DEF FreshUntil, a, c
  <2> QED  BY <2>4, <2>5
<1> QED  BY <1>0, <1>2, <1>3 DEF FreshWhileUp, a, c

\* While Redis is up, every step of a round but the publication leaves
\* everybody as fresh.
LEMMA FreshInRound ==
    ASSUME S!SamplerAssumption, SamplerInv, KeysInv, redisUp,
           NEW n \in Nat, FreshWhileUp(n), NEW w \in Worker,
           S!Claim(w) \/ S!WhoLeads(w) \/ S!Renew(w) \/ S!Follow(w) \/ S!Measure(w) \/ S!Wake(w)
    PROVE  \E m \in Nat : FreshWhileUp(m)'
<1> USE DEF S!At
<1>d. Due(n)
  BY DEF FreshWhileUp
<1>t. loop[w].ticks \in Nat /\ InTime(w)
  BY SamplerFacts
<1>1. CASE (S!Claim(w) /\ lease.value = None) \/ S!Renew(w)
  <2>1. /\ S!Goto(w, "measure") /\ UNCHANGED <<latest, failures, shown>>
        /\ loop[w].pc \in {"round", "renew"}
    BY <1>1 DEF S!Claim, S!Renew
  <2>2. PICK m \in Nat : m <= n /\ Due(m)'
    BY <1>d, <2>1, DueAtOnce
  <2>3. /\ \A v \in Worker : v # w => loop'[v] = loop[v]
        /\ loop'[w].pc = "measure" /\ loop'[w].ticks = 0
    BY <2>1, OneMove DEF Place
  <2>4. /\ Refresh(w)' = MaxProbe /\ WillSee(w)'
    BY <2>3, SamplerFacts DEF Refresh, WillSee, S!Election
  <2>5. Refresh(w) >= MaxProbe
    BY <2>1, RefreshBounds
  <2>6. FreshWhileUp(m)'
    BY <2>1, <2>2, <2>3, <2>4, <2>5, SamplerFacts, FreshAfterMove DEF Runs
  <2> QED  BY <2>6
<1>2. CASE (S!Claim(w) /\ lease.value # None) \/ S!WhoLeads(w)
  <2> DEFINE pc == IF S!Claim(w) /\ lease.value # None THEN "elected"
                   ELSE IF lease.value = w THEN "renew" ELSE "follow"
  <2>1. /\ S!Stay(w, pc) /\ UNCHANGED <<lease, latest, failures, shown>>
        /\ pc \in {"elected", "renew", "follow"} /\ loop[w].pc \in {"round", "elected"}
        /\ pc = "elected" => loop[w].pc = "round" /\ lease.value # None
        /\ pc = "renew" => loop[w].pc = "elected" /\ lease.value = w
        /\ pc = "follow" => loop[w].pc = "elected" /\ lease.value # w
    BY <1>2 DEF S!Claim, S!WhoLeads
  <2> HIDE DEF pc
  <2>2. /\ \A v \in Worker : v # w => loop'[v] = loop[v]
        /\ loop'[w].pc = pc /\ loop'[w].ticks = loop[w].ticks
    BY <2>1, OneMove DEF Place
  <2>3. Refresh(w)' = Refresh(w) /\ (WillSee(w) => WillSee(w)')
    BY <2>1, <2>2 DEF Refresh, WillSee, S!Election
  <2>4. DueBy(w, n) => DueBy(w, n)'
    BY <2>1, <2>2, <2>3, SamplerFacts DEF DueBy, WillRenew, MayClaim
  <2>5. n <= n
    OBVIOUS
  <2>6. PICK m \in Nat : m <= n /\ Due(m)'
    BY <1>d, <2>1, <2>2, <2>4, <2>5, DueWithLease
  <2>7. Refresh(w) \in Nat /\ Refresh(w) <= Refresh(w)
    BY RefreshBounds
  <2>8. FreshWhileUp(m)'
    BY <2>1, <2>2, <2>3, <2>6, <2>7, FreshAfterMove DEF Runs
  <2> QED  BY <2>8
<1>3. CASE S!Follow(w)
  <2>1. /\ S!Goto(w, "sleep") /\ UNCHANGED <<lease, latest, failures>> /\ loop[w].pc = "follow"
        /\ shown' = IF latest.value = None THEN shown ELSE [shown EXCEPT ![w] = latest.value]
    BY <1>3 DEF S!Follow
  <2>2. /\ \A v \in Worker : v # w => loop'[v] = loop[v]
        /\ loop'[w].pc = "sleep" /\ loop'[w].ticks = 0
    BY <2>1, OneMove DEF Place
  <2>3. /\ \A v \in Worker : v # w => shown'[v] = shown[v]
        /\ latest.value = None => shown'[w] = shown[w]
        /\ latest.value # None => shown'[w] = latest.value
    BY <2>1, SamplerFacts
  <2>4. DueBy(w, n) => \E m \in Nat : m <= n /\ DueBy(w, m)'
    <3>1. SUFFICES ASSUME MayClaim(w, n)
                   PROVE  \E m \in Nat : m <= n /\ DueBy(w, m)'
      BY <2>1 DEF DueBy, WillRenew
    <3>2. Refresh(w)' = S!Cycle
      BY <2>2, AgesTyped DEF Refresh
    <3>3. Refresh(w) >= MaxProbe /\ Refresh(w) \in Nat
      BY <2>1, RefreshBounds
    <3>4. n = Refresh(w) + S!Round /\ lease'.value = None
      BY <2>1, <3>1 DEF MayClaim
    <3>5. S!Cycle \in Nat /\ S!Cycle <= n
      BY <3>3, <3>4, SamplerFacts, AgesTyped
    <3>6. DueBy(w, S!Cycle)'
      BY <2>2, <3>2, <3>4 DEF DueBy, MayClaim, S!Cycle, S!Round
    <3> QED  BY <3>5, <3>6
  <2>5. PICK m \in Nat : m <= n /\ Due(m)'
    BY <1>d, <2>1, <2>2, <2>4, DueWithLease
  <2>6. shown'[w] + n + S!Cycle <= S!AgeAfter(failures)
    <3>1. CASE latest.value # None
      BY <2>3, <3>1 DEF FreshWhileUp
    <3>2. CASE latest.value = None
      <4>1. WillSee(w) => latest.left > 0
        BY <1>t, <2>1, SamplerFacts DEF WillSee, InTime, S!Election
      <4>2. latest.value = None => latest.left = 0
        BY DEF KeysInv
      <4> QED  BY <2>1, <2>3, <3>2, <4>1, <4>2 DEF FreshWhileUp, FreshUntil, Runs
    <3> QED  BY <3>1, <3>2
  <2>7. shown'[w] + m + S!Cycle <= S!AgeAfter(failures)
    <3>1. shown'[w] \in Nat
      BY <2>3, SamplerFacts
    <3>2. S!Cycle \in Nat /\ S!AgeAfter(failures) \in Nat
      BY SamplerFacts, AgesTyped
    <3> QED  BY <2>5, <2>6, <3>1, <3>2
  <2>8. FreshWhileUp(m)'
    BY <2>1, <2>2, <2>3, <2>5, <2>7, FreshAfterMove DEF Runs
  <2> QED  BY <2>8
<1>4. CASE S!Measure(w)
  <2>1. /\ S!Goto(w, "publish") /\ UNCHANGED <<lease, latest, failures>> /\ loop[w].pc = "measure"
        /\ shown' = [shown EXCEPT ![w] = 0]
    BY <1>4 DEF S!Measure
  <2>2. /\ \A v \in Worker : v # w => loop'[v] = loop[v]
        /\ loop'[w].pc = "publish" /\ loop'[w].ticks = 0
    BY <2>1, OneMove DEF Place
  <2>3. /\ \A v \in Worker : v # w => shown'[v] = shown[v]
        /\ shown'[w] = 0
    BY <2>1, SamplerFacts
  <2>4. Refresh(w)' = 0
    BY <2>2 DEF Refresh, S!Election
  <2>5. DueBy(w, 0)'
    BY <2>2, <2>4 DEF DueBy
  <2>6. Due(0)' /\ 0 \in Nat /\ 0 <= n
    BY <2>5 DEF Due
  <2>7. shown'[w] + 0 + S!Cycle <= S!AgeAfter(failures)
    <3>1. S!Cycle \in Nat /\ S!AgeAfter(failures) >= 2 * S!Cycle /\ S!AgeAfter(failures) \in Nat
      BY SamplerFacts, AgesTyped, AgesAdd
    <3> QED  BY <2>3, <3>1
  <2>8. FreshWhileUp(0)'
    BY <2>1, <2>2, <2>3, <2>6, <2>7, FreshAfterMove DEF Runs
  <2> QED  BY <2>8
<1>5. CASE S!Wake(w)
  <2>1. /\ S!Goto(w, "round") /\ UNCHANGED <<lease, latest, failures, shown>> /\ loop[w].pc = "sleep"
        /\ loop[w].ticks = Interval
    BY <1>5 DEF S!Wake
  <2>2. /\ \A v \in Worker : v # w => loop'[v] = loop[v]
        /\ loop'[w].pc = "round" /\ loop'[w].ticks = 0
    BY <2>1, OneMove DEF Place
  <2>3. Refresh(w)' = Refresh(w) /\ (WillSee(w) => WillSee(w)')
    BY <2>1, <2>2, SamplerFacts, AgesTyped DEF Refresh, WillSee, S!Election
  <2>4. DueBy(w, n) => DueBy(w, n)'
    BY <2>1, <2>2, <2>3, SamplerFacts, AgesTyped DEF DueBy, WillRenew, MayClaim
  <2>5. n <= n
    OBVIOUS
  <2>6. PICK m \in Nat : m <= n /\ Due(m)'
    BY <1>d, <2>1, <2>2, <2>4, <2>5, DueWithLease
  <2>7. Refresh(w) \in Nat /\ Refresh(w) <= Refresh(w)
    BY RefreshBounds
  <2>8. FreshWhileUp(m)'
    BY <2>1, <2>2, <2>3, <2>6, <2>7, FreshAfterMove DEF Runs
  <2> QED  BY <2>8
<1> QED  BY <1>1, <1>2, <1>3, <1>4, <1>5

\* So does a publication: who was about to look sees it, and who has just
\* published leads until its next round, or a failure has paid for it.
LEMMA FreshAfterPublish ==
    ASSUME S!SamplerAssumption, S!RoundWithinLease, S!CopyOutlivesLease, SamplerInv, SamplerInv',
           KeysInv, KeysInv', redisUp, NEW n \in Nat, FreshWhileUp(n), NEW w \in Worker, S!Publish(w)
    PROVE  \E m \in Nat : FreshWhileUp(m)'
<1> DEFINE a == S!AgeAfter(failures)  c == S!Cycle
<1>0. /\ a \in Nat /\ c \in Nat /\ S!AgeAfter(failures)' = a /\ a >= 2 * c
      /\ c = S!Round + MaxProbe /\ S!Round = Interval + MaxElection
  <2>1. failures' = failures
    BY DEF S!Publish
  <2> QED  BY <2>1, SamplerFacts, AgesTyped, AgesAdd
<1>1. /\ S!Goto(w, "sleep") /\ loop[w].pc = "publish" /\ UNCHANGED <<redisUp, lease, shown, outage, failures>>
      /\ latest' = [value |-> shown[w], left |-> LatestTicks]
  BY DEF S!Publish, S!Key, S!At
<1>2. /\ \A v \in Worker : v # w => loop'[v] = loop[v]
      /\ loop'[w].pc = "sleep" /\ loop'[w].ticks = 0 /\ shown[w] = 0
  BY <1>1, OneMove DEF KeysInv, Place
<1>3. latest'.value = 0 /\ latest'.left = LatestTicks
  BY <1>1, <1>2
<1>4. \E m \in Nat : m + c <= a /\ Due(m)'
  <2>1. CASE failures > 0
    <3>1. a >= S!FailureCost + 2 * c
      BY <2>1, SamplerFacts, AgesAdd
    <3>2. PICK m \in Nat : m <= lease.left + MaxElection + c /\ Due(m)'
      <4>1. CASE lease.value # None
        <5>1. PICK m \in Nat : m = lease.left + MaxElection + c
          BY <1>0, SamplerFacts
        <5>2. Due(m)' /\ m <= lease.left + MaxElection + c
          BY <1>1, <4>1, <5>1 DEF Due, S!Cycle, S!Round
        <5> QED  BY <5>2
      <4>2. CASE lease.value = None
        <5>1. Refresh(w)' = c
          BY <1>0, <1>2, SamplerFacts DEF Refresh
        <5>2. DueBy(w, c)'
          BY <1>1, <1>2, <4>2, <5>1 DEF DueBy, MayClaim
        <5>3. c <= lease.left + MaxElection + c
          BY <1>0, SamplerFacts
        <5> QED  BY <1>0, <5>2, <5>3 DEF Due
      <4> QED  BY <4>1, <4>2
    <3>3. lease.left <= LeaseTicks /\ S!FailureCost = LeaseTicks + MaxElection + c
      BY SamplerFacts, AgesTyped
    <3>4. m + c <= a
      <4> HIDE DEF a, c
      <4> QED  BY <1>0, <3>1, <3>2, <3>3, SamplerFacts
    <3> QED  BY <3>2, <3>4
  <2>2. CASE ~(failures > 0)
    <3>1. ~outage
      BY <2>2 DEF KeysInv
    <3>2. Leads(w)'
      BY <1>1, <3>1 DEF SamplerInv
    <3>3. lease.value = w
      BY <1>1, <3>1 DEF SamplerInv, Leads
    <3>4. lease'.value = w /\ lease'.left + MaxProbe >= LeaseTicks
      BY <1>1, <1>2, <3>2, <3>3, SamplerFacts DEF Leads
    <3>5. lease'.left + loop'[w].ticks > S!Round
      BY <1>0, <1>1, <1>2, <3>4, SamplerFacts DEF S!RoundWithinLease
    <3>6. Refresh(w)' = c
      BY <1>0, <1>2, SamplerFacts DEF Refresh
    <3>7. DueBy(w, c)'
      BY <1>2, <3>4, <3>5, <3>6 DEF DueBy, WillRenew, S!Round
    <3>8. c + c <= a
      BY <1>0
    <3> QED  BY <1>0, <3>7, <3>8 DEF Due
  <2> QED  BY <2>1, <2>2
<1>5. PICK m \in Nat : m + c <= a /\ Due(m)'
  BY <1>4
<1>6. ASSUME NEW v \in Worker, Runs(v)'
      PROVE  FreshUntil(v, m)'
  <2>1. CASE v = w
    <3>1. shown'[v] + m + c <= a
      <4> HIDE DEF a, c
      <4> QED  BY <1>0, <1>1, <1>2, <1>5, <2>1
    <3> QED  BY <1>0, <3>1 DEF FreshUntil
  <2>2. CASE v # w
    <3>1. loop'[v] = loop[v] /\ shown'[v] = shown[v] /\ Runs(v)
      BY <1>1, <1>2, <1>6, <2>2 DEF Runs
    <3>2. Refresh(v)' = Refresh(v)
      BY <3>1 DEF Refresh
    <3>3. shown[v] + n + c <= a \/ shown[v] + Refresh(v) <= a
      BY <3>1 DEF FreshWhileUp, FreshUntil
    <3>4. shown[v] + Refresh(v) <= a
      <4>1. shown[v] \in Nat /\ Refresh(v) \in Nat /\ Refresh(v) <= c
        BY SamplerFacts, RefreshBounds
      <4> HIDE DEF a, c
      <4> QED  BY <1>0, <3>3, <4>1
    <3>5. WillSee(v)'
      <4>1. loop[v].ticks \in Nat /\ loop[v].pc \in Place
        BY SamplerFacts
      <4>2. LatestTicks > S!Round /\ S!Round >= MaxElection /\ S!Round \in Nat
        BY <1>0, SamplerFacts DEF S!RoundWithinLease, S!CopyOutlivesLease
      <4>3. loop[v].pc \in {"sleep", "measure", "publish"} \cup S!Election
        BY <3>1, <4>1 DEF Place, S!Election, Runs
      <4> QED  BY <1>3, <3>1, <4>1, <4>2, <4>3, SamplerFacts DEF WillSee, S!Round
    <3> QED  BY <1>0, <3>1, <3>2, <3>4, <3>5 DEF FreshUntil
  <2> QED  BY <2>1, <2>2
<1>7. latest'.value + m + c <= a
  <2> HIDE DEF a, c
  <2> QED  BY <1>0, <1>3, <1>5
<1> QED  BY <1>0, <1>5, <1>6, <1>7 DEF FreshWhileUp

\* A tick brings the measurement that is due a tick nearer.
LEMMA DueAfterTick ==
    ASSUME S!SamplerAssumption, SamplerInv, KeysInv, NEW n \in Nat, Due(n), S!Tick,
           NEW w \in Worker, Runs(w)
    PROVE  \E m \in Nat : m + 1 <= n /\ Due(m)'
<1> DEFINE c == S!Cycle
<1>0. c \in Nat /\ c = S!Round + MaxProbe /\ S!Round = Interval + MaxElection /\ S!Round \in Nat
  BY AgesTyped
<1>1. ASSUME NEW v \in Worker, Runs(v)
      PROVE  /\ Refresh(v) \in Nat /\ Refresh(v)' \in Nat /\ Refresh(v)' + 1 = Refresh(v)
             /\ loop'[v].pc = loop[v].pc /\ loop'[v].ticks = loop[v].ticks + 1
             /\ loop[v].ticks \in Nat
             /\ loop[v].pc \in {"sleep", "measure"} \cup S!Election
  <2>1. /\ loop'[v].pc = loop[v].pc /\ loop'[v].ticks = loop[v].ticks + 1
        /\ loop[v].ticks \in Nat
        /\ loop[v].pc \in {"sleep", "measure"} \cup S!Election
        /\ loop[v].pc = "sleep" => loop[v].ticks < Interval
        /\ loop[v].pc = "measure" => loop[v].ticks < MaxProbe
        /\ loop[v].pc \in S!Election => loop[v].ticks < MaxElection
    BY <1>1, OneTick, SamplerFacts DEF Runs, S!Election
  <2>2. Refresh(v) \in Nat /\ Refresh(v)' \in Nat /\ Refresh(v)' + 1 = Refresh(v)
    BY <1>0, <2>1, SamplerFacts DEF Refresh, S!Election
  <2> QED  BY <2>1, <2>2
<1>2. ASSUME NEW v \in Worker, DueBy(v, n)
      PROVE  \E m \in Nat : m + 1 <= n /\ Due(m)'
  <2>0. Runs(v)
    BY <1>2 DEF DueBy, WillRenew, MayClaim, Runs
  <2>r. PICK r \in Nat : r = Refresh(v)'
    BY <1>1, <2>0
  <2>1. /\ r \in Nat /\ r + 1 = Refresh(v) /\ Refresh(v) \in Nat
        /\ loop'[v].pc = loop[v].pc /\ loop'[v].ticks = loop[v].ticks + 1
        /\ loop[v].ticks \in Nat
    BY <1>1, <2>0, <2>r
  <2>2. CASE loop[v].pc \in {"publish", "measure", "renew"} /\ n = Refresh(v)
    <3>1. r + 1 <= n /\ DueBy(v, r)'
      BY <2>r, <2>1, <2>2 DEF DueBy
    <3> QED  BY <2>1, <3>1 DEF Due
  <2>3. CASE WillRenew(v) /\ n = Refresh(v)
    <3>1. lease.left > 1
      BY <1>0, <2>0, <2>1, <2>3, OneTick, SamplerFacts DEF WillRenew, S!Election
    <3>2. lease'.value = lease.value /\ lease'.left = lease.left - 1
      BY <2>3, <3>1, OneTick, SamplerFacts DEF WillRenew
    <3>3. WillRenew(v)'
      BY <1>0, <2>1, <2>3, <3>2, SamplerFacts DEF WillRenew, S!Round
    <3>4. r + 1 <= n /\ DueBy(v, r)'
      BY <2>r, <2>1, <2>3, <3>3 DEF DueBy
    <3> QED  BY <2>1, <3>4 DEF Due
  <2>4. CASE MayClaim(v, n)
    <3>1. lease'.value = None
      BY <2>4, OneTick DEF MayClaim
    <3>2. CASE loop[v].pc \in {"sleep", "round"} /\ n = Refresh(v)
      <4>1. r + 1 <= n /\ DueBy(v, r)'
        BY <2>r, <2>1, <3>1, <3>2 DEF DueBy, MayClaim
      <4> QED  BY <2>1, <4>1 DEF Due
    <3>3. CASE loop[v].pc \in {"elected", "follow"} /\ n = Refresh(v) + S!Round
      <4>0. PICK m \in Nat : m = r + S!Round
        BY <1>0
      <4>1. m + 1 <= n
        BY <1>0, <2>1, <3>3, <4>0
      <4>2. DueBy(v, m)'
        BY <2>r, <2>1, <3>1, <3>3, <4>0 DEF DueBy, MayClaim, S!Round
      <4> QED  BY <4>1, <4>2 DEF Due
    <3> QED  BY <2>4, <3>2, <3>3 DEF MayClaim
  <2> QED  BY <1>2, <2>2, <2>3, <2>4 DEF DueBy
<1>3. CASE lease.value # None /\ n = lease.left + MaxElection + c
  <2>1. CASE lease.left > 1
    <3>1. lease'.value # None /\ lease'.left = lease.left - 1
      BY <1>3, <2>1, OneTick, SamplerFacts
    <3>0. PICK m \in Nat : m = lease'.left + MaxElection + c
      BY <1>0, <2>1, <3>1, SamplerFacts
    <3>2. m + 1 <= n
      BY <1>0, <1>3, <2>1, <3>0, <3>1, SamplerFacts
    <3>3. Due(m)'
      BY <3>0, <3>1 DEF Due, S!Cycle, S!Round
    <3> QED  BY <3>2, <3>3
  <2>2. CASE ~(lease.left > 1)
    <3>1. lease.left = 1 /\ lease'.value = None
      BY <1>3, <2>2, OneTick, SamplerFacts DEF KeysInv
    <3>r. PICK r \in Nat : r = Refresh(w)'
      BY <1>1
    <3>2. /\ r \in Nat /\ r + 1 = Refresh(w) /\ Refresh(w) \in Nat /\ Refresh(w) <= c
          /\ loop'[w].pc = loop[w].pc
          /\ loop[w].pc \in {"sleep", "measure", "round", "elected", "follow", "renew"}
      BY <1>1, <3>r, RefreshBounds DEF S!Election
    <3>3. CASE loop[w].pc \in {"sleep", "measure", "round", "renew"}
      <4>1. DueBy(w, r)'
        BY <3>r, <3>1, <3>2, <3>3 DEF DueBy, MayClaim
      <4>2. r + 1 <= n
        BY <1>0, <1>3, <3>1, <3>2, SamplerFacts
      <4> QED  BY <3>2, <4>1, <4>2 DEF Due
    <3>4. CASE loop[w].pc \in {"elected", "follow"}
      <4>0. PICK m \in Nat : m = r + S!Round
        BY <1>0
      <4>1. DueBy(w, m)'
        BY <3>r, <3>1, <3>2, <3>4, <4>0 DEF DueBy, MayClaim, S!Round
      <4>2. Refresh(w) <= MaxElection + MaxProbe
        BY <3>4, SamplerFacts DEF Refresh, S!Election
      <4>3. m + 1 <= n
        BY <1>0, <1>3, <3>1, <3>2, <4>0, <4>2, SamplerFacts
      <4> QED  BY <4>1, <4>3 DEF Due
    <3> QED  BY <3>2, <3>3, <3>4
  <2> QED  BY <2>1, <2>2
<1> QED  BY <1>2, <1>3 DEF Due

\* While Redis is up, everybody stays fresh, unless it fails.
LEMMA FreshUpStep ==
    ASSUME S!SamplerAssumption, S!RoundWithinLease, S!CopyOutlivesLease, SamplerInv, SamplerInv',
           KeysInv, KeysInv', redisUp, NEW n \in Nat, FreshWhileUp(n), [S!Next]_(S!vars),
           NEW x \in Worker, Runs(x)'
    PROVE  IF redisUp' THEN \E m \in Nat : FreshWhileUp(m)' ELSE FreshWhileDown'
<1> DEFINE a == S!AgeAfter(failures)  c == S!Cycle
<1>0. /\ a \in Nat /\ c \in Nat /\ a >= 2 * c
      /\ S!AgeAfter(failures + 1) = a + LeaseTicks + MaxElection + c
  BY SamplerFacts, AgesTyped, AgesAdd
<1>f. /\ latest.value # None => latest.value + n + c <= a
      /\ \A v \in Worker : Runs(v) => \/ shown[v] + n + c <= a
                                      \/ WillSee(v) /\ shown[v] + Refresh(v) <= a
  BY DEF FreshWhileUp, FreshUntil
<1>s. \A v \in Worker : shown[v] \in Nat /\ Refresh(v) \in Nat /\ Refresh(v) <= c
  BY SamplerFacts, RefreshBounds
<1> HIDE DEF a, c
<1>1. ASSUME NEW w \in Worker,
             S!Claim(w) \/ S!WhoLeads(w) \/ S!Renew(w) \/ S!Follow(w) \/ S!Measure(w) \/ S!Wake(w)
      PROVE  redisUp' /\ \E m \in Nat : FreshWhileUp(m)'
  <2>1. redisUp'
    BY <1>1 DEF S!Claim, S!WhoLeads, S!Renew, S!Follow, S!Measure, S!Wake
  <2> QED  BY <1>1, <2>1, FreshInRound
<1>2. ASSUME NEW w \in Worker, S!Publish(w)
      PROVE  redisUp' /\ \E m \in Nat : FreshWhileUp(m)'
  <2>1. redisUp'
    BY <1>2 DEF S!Publish
  <2> QED  BY <1>2, <2>1, FreshAfterPublish
<1>3. ASSUME NEW w \in Worker, S!ElectionError(w)
      PROVE  FALSE
  BY <1>3 DEF S!ElectionError
<1>4. ASSUME NEW w \in Worker, S!Stops(w)
      PROVE  redisUp' /\ \E m \in Nat : FreshWhileUp(m)'
  <2>1. /\ UNCHANGED <<redisUp, lease, latest, shown>> /\ S!Goto(w, "off") /\ failures' = failures + 1
    BY <1>4 DEF S!Stops
  <2>2. /\ \A v \in Worker : v # w => loop'[v] = loop[v]
        /\ loop'[w].pc = "off"
    BY <2>1, OneMove DEF Place
  <2>3. x # w /\ loop'[x] = loop[x] /\ Runs(x)
    BY <2>2 DEF Runs
  <2>4. PICK m \in Nat : /\ m <= lease.left + MaxElection + S!Cycle
                         /\ \/ DueBy(x, m)
                            \/ lease.value # None /\ m = lease.left + MaxElection + S!Cycle
    BY <2>3, SomethingIsDue
  <2>5. Due(m)'
    <3>1. CASE DueBy(x, m)
      <4>1. Refresh(x)' = Refresh(x)
        BY <2>3 DEF Refresh
      <4>2. DueBy(x, m)'
        BY <2>1, <2>3, <3>1, <4>1 DEF DueBy, WillRenew, MayClaim
      <4> QED  BY <4>2 DEF Due
    <3>2. CASE lease.value # None /\ m = lease.left + MaxElection + S!Cycle
      BY <2>1, <3>2 DEF Due, S!Cycle, S!Round
    <3> QED  BY <2>4, <3>1, <3>2
  <2>6. m <= LeaseTicks + MaxElection + c
    BY <1>0, <2>4, SamplerFacts DEF c
  <2>7. S!AgeAfter(failures') = a + LeaseTicks + MaxElection + c
    BY <1>0, <2>1
  <2>8. latest'.value # None => latest'.value + m + c <= S!AgeAfter(failures')
    <3>1. latest.value # None => latest.value + m + c <= a + LeaseTicks + MaxElection + c
      BY <1>0, <1>f, <2>6, SamplerFacts
    <3> QED  BY <2>1, <2>7, <3>1
  <2>9. ASSUME NEW v \in Worker, Runs(v)'
        PROVE  \/ shown'[v] + m + c <= S!AgeAfter(failures')
               \/ WillSee(v)' /\ shown'[v] + Refresh(v)' <= S!AgeAfter(failures')
    <3>1. loop'[v] = loop[v] /\ Runs(v)
      BY <2>2, <2>9 DEF Runs
    <3>2. Refresh(v)' = Refresh(v) /\ (WillSee(v) => WillSee(v)')
      BY <2>1, <3>1 DEF Refresh, WillSee
    <3>3. \/ shown[v] + m + c <= a + LeaseTicks + MaxElection + c
          \/ WillSee(v) /\ shown[v] + Refresh(v) <= a + LeaseTicks + MaxElection + c
      BY <1>0, <1>f, <1>s, <2>6, <3>1, SamplerFacts
    <3> QED  BY <2>1, <2>7, <3>2, <3>3
  <2>10. S!AgeAfter(failures)' = S!AgeAfter(failures')
    OBVIOUS
  <2> QED  BY <2>1, <2>5, <2>8, <2>9, <2>10 DEF FreshWhileUp, FreshUntil, c
<1>5. CASE S!Tick
  <2>1. Runs(x)
    BY <1>5, OneTick DEF Runs
  <2>2. PICK m \in Nat : m + 1 <= n /\ Due(m)'
    BY <1>5, <2>1, DueAfterTick DEF FreshWhileUp
  <2>3. redisUp' /\ failures' = failures
    BY <1>5, OneTick
  <2>4. latest'.value # None => latest'.value + m + c <= a
    BY <1>0, <1>5, <1>f, <2>2, OneTick, SamplerFacts
  <2>5. ASSUME NEW v \in Worker, Runs(v)'
        PROVE  \/ shown'[v] + m + c <= a
               \/ WillSee(v)' /\ shown'[v] + Refresh(v)' <= a
    <3>1. /\ Runs(v) /\ loop'[v].pc = loop[v].pc /\ loop'[v].ticks = loop[v].ticks + 1
          /\ loop[v].ticks \in Nat /\ shown'[v] \in Nat /\ shown'[v] <= shown[v] + 1
          /\ loop[v].pc \in {"sleep", "measure"} \cup S!Election
          /\ loop[v].pc = "sleep" => loop[v].ticks < Interval
          /\ loop[v].pc = "measure" => loop[v].ticks < MaxProbe
          /\ loop[v].pc \in S!Election => loop[v].ticks < MaxElection
      BY <1>5, <2>5, OneTick, SamplerFacts DEF Runs, S!Election
    <3>2. Refresh(v)' + 1 = Refresh(v) /\ Refresh(v)' \in Nat
      BY <3>1, SamplerFacts, AgesTyped DEF Refresh, S!Election
    <3>3. WillSee(v) => WillSee(v)'
      <4>1. S!Round \in Nat /\ S!Round = Interval + MaxElection
        BY AgesTyped
      <4>2. CASE loop[v].pc = "measure"
        BY <3>1, <4>2 DEF WillSee
      <4>3. CASE loop[v].pc # "measure"
        <5>1. WillSee(v) => latest.left > 0
          BY <3>1, <4>1, <4>3, SamplerFacts DEF WillSee, S!Election
        <5>2. latest.left > 0 => latest'.left = latest.left - 1
          BY <1>5, OneTick
        <5> QED  BY <3>1, <4>1, <5>1, <5>2, SamplerFacts DEF WillSee, S!Round, S!Election
      <4> QED  BY <4>2, <4>3
    <3> QED  BY <1>0, <1>f, <1>s, <2>2, <3>1, <3>2, <3>3
  <2>6. S!AgeAfter(failures)' = a
    BY <2>3 DEF a
  <2> QED  BY <2>2, <2>3, <2>4, <2>5, <2>6 DEF FreshWhileUp, FreshUntil, c
<1>6. CASE S!RedisFails
  <2>1. ~redisUp' /\ failures' = failures + 1 /\ UNCHANGED <<lease, latest, loop, shown>>
    BY <1>6 DEF S!RedisFails
  <2>2. failures' > 0 /\ failures' - 1 = failures
    BY <2>1, SamplerFacts
  <2>3. S!AgeAfter(failures') = a + LeaseTicks + MaxElection + c /\ S!AgeAfter(failures' - 1) = a
    BY <1>0, <2>1, <2>2 DEF a
  <2>4. latest.value # None =>
            latest.value + lease.left + MaxElection + 2 * c <= a + LeaseTicks + MaxElection + c
    BY <1>0, <1>f, SamplerFacts
  <2>5. ASSUME NEW v \in Worker, Runs(v)'
        PROVE  /\ shown'[v] + Refresh(v)' <= a
               /\ \/ WillSee(v)'
                  \/ shown'[v] + lease'.left + MaxElection + 2 * c <= a + LeaseTicks + MaxElection + c
    <3>1. Runs(v) /\ Refresh(v)' = Refresh(v) /\ (WillSee(v) => WillSee(v)')
      BY <2>1, <2>5 DEF Runs, Refresh, WillSee
    <3>2. shown[v] + Refresh(v) <= a
      BY <1>0, <1>f, <1>s, <3>1
    <3>3. shown[v] + n + c <= a =>
              shown[v] + lease.left + MaxElection + 2 * c <= a + LeaseTicks + MaxElection + c
      BY <1>0, <1>s, SamplerFacts
    <3> QED  BY <1>f, <2>1, <3>1, <3>2, <3>3
  <2>6. S!AgeAfter(failures)' = S!AgeAfter(failures') /\ S!AgeAfter(failures - 1)' = S!AgeAfter(failures' - 1)
    OBVIOUS
  <2> QED  BY <2>1, <2>2, <2>3, <2>4, <2>5, <2>6 DEF FreshWhileDown, c
<1>7. CASE S!RedisRecovers
  BY <1>7 DEF S!RedisRecovers
<1>8. CASE UNCHANGED S!vars
  <2>1. UNCHANGED <<redisUp, lease, latest, loop, shown, failures>>
    BY <1>8 DEF S!vars
  <2>2. FreshWhileUp(n)'
    BY <2>1 DEF FreshWhileUp, FreshUntil, Due, DueBy, WillRenew, MayClaim, WillSee, Refresh, Runs,
                S!Cycle, S!Round, S!Election
  <2> QED  BY <2>1, <2>2
<1> QED  BY <1>1, <1>2, <1>3, <1>4, <1>5, <1>6, <1>7, <1>8 DEF S!Next

\* While Redis is down, everybody stays fresh by itself; when it is back, the
\* failure has paid for the lease of before.
LEMMA FreshDownStep ==
    ASSUME S!SamplerAssumption, S!RoundWithinLease, S!CopyOutlivesLease, SamplerInv,
           KeysInv, ~redisUp, FreshWhileDown, [S!Next]_(S!vars), NEW x \in Worker, Runs(x)'
    PROVE  IF redisUp' THEN \E m \in Nat : FreshWhileUp(m)' ELSE FreshWhileDown'
<1> DEFINE a == S!AgeAfter(failures)  b == S!AgeAfter(failures - 1)  c == S!Cycle
<1>0. /\ a \in Nat /\ b \in Nat /\ c \in Nat /\ b >= 2 * c /\ a = b + LeaseTicks + MaxElection + c
      /\ S!AgeAfter(failures + 1) = a + LeaseTicks + MaxElection + c
      /\ failures > 0 /\ failures \in Nat /\ (failures + 1) - 1 = failures
  <2>1. failures > 0 /\ failures \in Nat /\ failures - 1 \in Nat
    BY SamplerFacts DEF FreshWhileDown
  <2>2. /\ S!AgeAfter(failures) = S!AgeAfter(failures - 1) + S!FailureCost
        /\ S!AgeAfter(failures + 1) = S!AgeAfter(failures) + S!FailureCost
        /\ S!AgeAfter(failures - 1) >= 2 * S!Cycle
    BY <2>1, AgesAdd
  <2>3. /\ S!AgeAfter(failures) \in Nat /\ S!AgeAfter(failures - 1) \in Nat /\ c \in Nat
        /\ S!FailureCost = LeaseTicks + MaxElection + c
    BY <2>1, AgesTyped
  <2> HIDE DEF c
  <2> QED  BY <2>1, <2>2, <2>3, SamplerFacts DEF a, b, c
<1>f. /\ latest.value # None /\ lease.value # None => latest.value + lease.left + MaxElection + 2 * c <= a
      /\ \A v \in Worker : Runs(v) =>
            /\ shown[v] + Refresh(v) <= b
            /\ \/ lease.value = None
               \/ WillSee(v)
               \/ shown[v] + lease.left + MaxElection + 2 * c <= a
  BY DEF FreshWhileDown
<1>s. \A v \in Worker : shown[v] \in Nat /\ Refresh(v) \in Nat /\ Refresh(v) <= c
  BY SamplerFacts, RefreshBounds
<1> HIDE DEF a, b, c
<1>1. ASSUME NEW w \in Worker, S!ElectionError(w) \/ S!Measure(w) \/ S!Publish(w) \/ S!Wake(w)
      PROVE  ~redisUp' /\ FreshWhileDown'
  <2>1. UNCHANGED <<redisUp, lease, latest, failures>>
    BY <1>1 DEF S!ElectionError, S!Measure, S!Publish, S!Wake
  <2>2. /\ \A v \in Worker : v # w => loop'[v] = loop[v] /\ shown'[v] = shown[v]
        /\ shown'[w] \in Nat
        /\ Runs(w)' => /\ Runs(w) /\ shown'[w] + Refresh(w)' <= b
                       /\ \/ lease.value = None
                          \/ WillSee(w)'
                          \/ shown'[w] + lease.left + MaxElection + 2 * c <= a
    <3>1. CASE S!ElectionError(w) \/ S!Wake(w)
      <4>1. /\ UNCHANGED shown
            /\ \/ S!Goto(w, "measure") /\ loop[w].pc \in S!Election
               \/ S!Goto(w, "round") /\ loop[w].pc = "sleep" /\ loop[w].ticks = Interval
        BY <3>1 DEF S!ElectionError, S!Wake, S!At
      <4>2. /\ \A v \in Worker : v # w => loop'[v] = loop[v]
            /\ loop'[w].ticks = 0
            /\ \/ loop'[w].pc = "measure" /\ loop[w].pc \in S!Election
               \/ loop'[w].pc = "round" /\ loop[w].pc = "sleep" /\ loop[w].ticks = Interval
        BY <4>1, OneMove DEF Place
      <4>3. Runs(w) /\ Refresh(w)' <= Refresh(w) /\ Refresh(w)' \in Nat /\ (WillSee(w) => WillSee(w)')
        <5>1. loop[w].ticks \in Nat /\ InTime(w)
          BY SamplerFacts
        <5> QED  BY <2>1, <4>2, <5>1, SamplerFacts, AgesTyped
                 DEF Runs, Refresh, WillSee, S!Election, InTime
      <4>4. shown[w] + Refresh(w)' <= b
        BY <1>0, <1>f, <1>s, <4>3
      <4> QED  BY <1>f, <1>s, <4>1, <4>2, <4>3, <4>4
    <3>2. CASE S!Measure(w)
      <4>1. S!Goto(w, "publish") /\ loop[w].pc = "measure" /\ shown' = [shown EXCEPT ![w] = 0]
        BY <3>2 DEF S!Measure, S!At
      <4>2. /\ \A v \in Worker : v # w => loop'[v] = loop[v]
            /\ loop'[w].pc = "publish"
        BY <4>1, OneMove DEF Place
      <4>3. /\ \A v \in Worker : v # w => shown'[v] = shown[v]
            /\ shown'[w] = 0
        BY <4>1, SamplerFacts
      <4>4. Runs(w) /\ Refresh(w)' = 0 /\ WillSee(w)'
        BY <4>1, <4>2 DEF Runs, Refresh, WillSee, S!Election
      <4> QED  BY <1>0, <4>2, <4>3, <4>4
    <3>3. CASE S!Publish(w)
      <4>1. S!Goto(w, "sleep") /\ loop[w].pc = "publish" /\ UNCHANGED shown
        BY <3>3 DEF S!Publish, S!At
      <4>2. /\ \A v \in Worker : v # w => loop'[v] = loop[v]
            /\ loop'[w].pc = "sleep" /\ loop'[w].ticks = 0
        BY <4>1, OneMove DEF Place
      <4>3. shown'[w] = 0 /\ Runs(w) /\ Refresh(w)' = c
        BY <1>0, <4>1, <4>2 DEF KeysInv, Runs, Refresh, c
      <4>4. shown'[w] + lease.left + MaxElection + 2 * c <= a
        BY <1>0, <4>3, SamplerFacts
      <4> QED  BY <1>0, <4>1, <4>2, <4>3, <4>4
    <3> QED  BY <1>1, <3>1, <3>2, <3>3
  <2>3. ASSUME NEW v \in Worker, Runs(v)'
        PROVE  /\ shown'[v] + Refresh(v)' <= b
               /\ \/ lease'.value = None
                  \/ WillSee(v)'
                  \/ shown'[v] + lease'.left + MaxElection + 2 * c <= a
    <3>1. CASE v = w
      BY <2>1, <2>2, <2>3, <3>1
    <3>2. CASE v # w
      <4>1. loop'[v] = loop[v] /\ shown'[v] = shown[v]
        BY <2>2, <3>2
      <4>2. Runs(v) /\ Refresh(v)' = Refresh(v) /\ (WillSee(v) => WillSee(v)')
        BY <2>1, <2>3, <4>1 DEF Runs, Refresh, WillSee
      <4> QED  BY <1>f, <2>1, <4>1, <4>2
    <3> QED  BY <3>1, <3>2
  <2>4. S!AgeAfter(failures)' = a /\ S!AgeAfter(failures - 1)' = b
    BY <2>1 DEF a, b
  <2> QED  BY <1>0, <1>f, <2>1, <2>3, <2>4 DEF FreshWhileDown, c
<1>2. ASSUME NEW w \in Worker, S!Claim(w) \/ S!WhoLeads(w) \/ S!Renew(w) \/ S!Follow(w)
      PROVE  FALSE
  BY <1>2 DEF S!Claim, S!WhoLeads, S!Renew, S!Follow
<1>3. ASSUME NEW w \in Worker, S!Stops(w)
      PROVE  ~redisUp' /\ FreshWhileDown'
  <2>1. /\ UNCHANGED <<redisUp, lease, latest, shown>> /\ S!Goto(w, "off") /\ failures' = failures + 1
    BY <1>3 DEF S!Stops
  <2>2. /\ \A v \in Worker : v # w => loop'[v] = loop[v]
        /\ loop'[w].pc = "off"
    BY <2>1, OneMove DEF Place
  <2>3. S!AgeAfter(failures') >= a /\ S!AgeAfter(failures' - 1) = a /\ S!AgeAfter(failures') \in Nat
    BY <1>0, <2>1, SamplerFacts DEF a
  <2>4. ASSUME NEW v \in Worker, Runs(v)'
        PROVE  /\ shown'[v] + Refresh(v)' <= a
               /\ \/ lease'.value = None
                  \/ WillSee(v)'
                  \/ shown'[v] + lease'.left + MaxElection + 2 * c <= S!AgeAfter(failures')
    <3>1. loop'[v] = loop[v] /\ shown'[v] = shown[v]
      BY <2>1, <2>2, <2>4 DEF Runs
    <3>2. Runs(v) /\ Refresh(v)' = Refresh(v) /\ (WillSee(v) => WillSee(v)')
      BY <2>1, <2>4, <3>1 DEF Runs, Refresh, WillSee
    <3>3. shown[v] + Refresh(v) <= a
      BY <1>0, <1>f, <1>s, <3>2, SamplerFacts
    <3>4. shown[v] + lease.left + MaxElection + 2 * c <= a =>
              shown[v] + lease.left + MaxElection + 2 * c <= S!AgeAfter(failures')
      BY <1>0, <1>s, <2>3, SamplerFacts
    <3> QED  BY <1>f, <2>1, <3>1, <3>2, <3>3, <3>4
  <2>5. latest.value # None /\ lease.value # None =>
            latest.value + lease.left + MaxElection + 2 * c <= S!AgeAfter(failures')
    BY <1>0, <1>f, <2>3, SamplerFacts
  <2>6. S!AgeAfter(failures)' = S!AgeAfter(failures') /\ S!AgeAfter(failures - 1)' = S!AgeAfter(failures' - 1)
        /\ failures' > 0
    BY <1>0, <2>1
  <2> QED  BY <2>1, <2>3, <2>4, <2>5, <2>6 DEF FreshWhileDown, c
<1>4. CASE S!Tick
  <2>1. UNCHANGED <<redisUp, failures>>
    BY <1>4, OneTick
  <2>2. lease'.value # None => lease.value # None /\ lease.left > 1 /\ lease'.left = lease.left - 1
    BY <1>4, OneTick, SamplerFacts
  <2>3. latest'.value # None /\ lease'.value # None =>
            latest'.value + lease'.left + MaxElection + 2 * c <= a
    BY <1>0, <1>4, <1>f, <2>2, OneTick, SamplerFacts
  <2>4. ASSUME NEW v \in Worker, Runs(v)'
        PROVE  /\ shown'[v] + Refresh(v)' <= b
               /\ \/ lease'.value = None
                  \/ WillSee(v)'
                  \/ shown'[v] + lease'.left + MaxElection + 2 * c <= a
    <3>1. /\ Runs(v) /\ loop'[v].pc = loop[v].pc /\ loop'[v].ticks = loop[v].ticks + 1
          /\ loop[v].ticks \in Nat /\ shown'[v] \in Nat /\ shown'[v] <= shown[v] + 1
          /\ loop[v].pc \in {"sleep", "measure"} \cup S!Election
          /\ loop[v].pc = "sleep" => loop[v].ticks < Interval
          /\ loop[v].pc = "measure" => loop[v].ticks < MaxProbe
          /\ loop[v].pc \in S!Election => loop[v].ticks < MaxElection
      BY <1>4, <2>4, OneTick, SamplerFacts DEF Runs, S!Election
    <3>2. Refresh(v)' + 1 = Refresh(v) /\ Refresh(v)' \in Nat
      BY <3>1, SamplerFacts, AgesTyped DEF Refresh, S!Election
    <3>3. WillSee(v) => WillSee(v)'
      <4>1. S!Round \in Nat /\ S!Round = Interval + MaxElection
        BY AgesTyped
      <4>2. CASE loop[v].pc = "measure"
        BY <3>1, <4>2 DEF WillSee
      <4>3. CASE loop[v].pc # "measure"
        <5>1. WillSee(v) => latest.left > 0
          BY <3>1, <4>1, <4>3, SamplerFacts DEF WillSee, S!Election
        <5>2. latest.left > 0 => latest'.left = latest.left - 1
          BY <1>4, OneTick
        <5> QED  BY <3>1, <4>1, <5>1, <5>2, SamplerFacts DEF WillSee, S!Round, S!Election
      <4> QED  BY <4>2, <4>3
    <3>4. shown'[v] + Refresh(v)' <= b
      BY <1>0, <1>f, <1>s, <3>1, <3>2
    <3>5. lease'.value # None /\ shown[v] + lease.left + MaxElection + 2 * c <= a =>
              shown'[v] + lease'.left + MaxElection + 2 * c <= a
      BY <1>0, <1>s, <2>2, <3>1, SamplerFacts
    <3> QED  BY <1>f, <2>2, <3>1, <3>3, <3>4, <3>5
  <2>5. S!AgeAfter(failures)' = a /\ S!AgeAfter(failures - 1)' = b
    BY <2>1 DEF a, b
  <2> QED  BY <1>0, <2>1, <2>3, <2>4, <2>5 DEF FreshWhileDown, c
<1>5. CASE S!RedisRecovers
  <2>1. redisUp' /\ UNCHANGED <<lease, latest, loop, shown, failures>>
    BY <1>5 DEF S!RedisRecovers
  <2>2. Runs(x)
    BY <2>1 DEF Runs
  <2>3. PICK m \in Nat : /\ m <= lease.left + MaxElection + S!Cycle
                         /\ \/ DueBy(x, m)
                            \/ lease.value # None /\ m = lease.left + MaxElection + S!Cycle
    BY <2>2, SomethingIsDue
  <2>4. Due(m)'
    <3>1. CASE DueBy(x, m)
      <4>1. DueBy(x, m)'
        BY <2>1, <3>1 DEF DueBy, WillRenew, MayClaim, Refresh, S!Cycle, S!Round, S!Election
      <4> QED  BY <4>1 DEF Due
    <3>2. CASE lease.value # None /\ m = lease.left + MaxElection + S!Cycle
      BY <2>1, <3>2 DEF Due, S!Cycle, S!Round
    <3> QED  BY <2>3, <3>1, <3>2
  <2>5. /\ m <= lease.left + MaxElection + c
        /\ lease.value = None => lease.left = 0
    BY <2>3 DEF KeysInv, c
  <2>6. latest.value # None => latest.value + m + c <= a
    <3>1. CASE lease.value # None
      BY <1>0, <1>f, <2>5, <3>1, SamplerFacts
    <3>2. CASE lease.value = None
      <4>1. latest.value # None => latest.value <= LeaseTicks + c
        BY <1>0, SamplerFacts DEF KeysInv, S!CopyOutlivesLease, c
      <4> QED  BY <1>0, <2>5, <3>2, <4>1, SamplerFacts
    <3> QED  BY <3>1, <3>2
  <2>7. ASSUME NEW v \in Worker, Runs(v)'
        PROVE  \/ shown'[v] + m + c <= a
               \/ WillSee(v)' /\ shown'[v] + Refresh(v)' <= a
    <3>1. Runs(v) /\ Refresh(v)' = Refresh(v) /\ (WillSee(v) => WillSee(v)')
      BY <2>1, <2>7 DEF Runs, Refresh, WillSee
    <3>2. shown[v] + Refresh(v) <= a
      BY <1>0, <1>f, <1>s, <3>1, SamplerFacts
    <3>3. lease.value = None => shown[v] + m + c <= a
      <4>1. c <= LeaseTicks
        BY SamplerFacts, AgesTyped DEF c, S!RoundWithinLease
      <4> QED  BY <1>0, <1>f, <1>s, <2>5, <3>1, <4>1, SamplerFacts
    <3>4. shown[v] + lease.left + MaxElection + 2 * c <= a => shown[v] + m + c <= a
      BY <1>0, <1>s, <2>5, SamplerFacts
    <3> QED  BY <1>f, <2>1, <3>1, <3>2, <3>3, <3>4
  <2>8. S!AgeAfter(failures)' = a
    BY <2>1 DEF a
  <2> QED  BY <2>1, <2>4, <2>6, <2>7, <2>8 DEF FreshWhileUp, FreshUntil, c
<1>6. CASE S!RedisFails
  BY <1>6 DEF S!RedisFails
<1>7. CASE UNCHANGED S!vars
  <2>1. UNCHANGED <<redisUp, lease, latest, loop, shown, failures>>
    BY <1>7 DEF S!vars
  <2>2. FreshWhileDown'
    BY <2>1 DEF FreshWhileDown, WillSee, Refresh, Runs, S!Cycle, S!Round, S!Election
  <2> QED  BY <2>1, <2>2
<1> QED  BY <1>1, <1>2, <1>3, <1>4, <1>5, <1>6, <1>7 DEF S!Next

\* So every running worker stays fresh, whatever fails.
LEMMA FreshAlways ==
    ASSUME S!RoundWithinLease, S!CopyOutlivesLease
    PROVE  Spec => [](part = "sampler" => SamplerInv /\ FreshInv)
<1> DEFINE Old == part = "sampler" => SamplerInv
           Inv == part = "sampler" => FreshInv
<1>1. Init => Inv
  <2> SUFFICES ASSUME S!Init PROVE FreshInv
    BY DEF Init
  <2>1. /\ redisUp = TRUE /\ lease = S!NoKey /\ latest = S!NoKey /\ outage = FALSE /\ failures = 0
        /\ loop = [w \in Worker |-> [pc |-> "round", ticks |-> 0]]
        /\ shown = [w \in Worker |-> 0]
    BY DEF S!Init
  <2>2. KeysInv
    BY <2>1 DEF KeysInv, S!NoKey
  <2>3. ASSUME NEW x \in Worker
        PROVE  FreshWhileUp(MaxElection + MaxProbe)
    <3> DEFINE n == MaxElection + MaxProbe
    <3>0. /\ n \in Nat /\ S!Cycle \in Nat /\ n <= S!Cycle /\ S!AgeAfter(failures) = 2 * S!Cycle
      BY <2>1, BoundsAssumption, AgesTyped, AgesAdd DEF S!SamplerAssumption
    <3>1. Refresh(x) = n
      BY <2>1, BoundsAssumption DEF Refresh, S!Election, S!SamplerAssumption
    <3>2. DueBy(x, n)
      BY <2>1, <3>1 DEF DueBy, MayClaim, S!NoKey
    <3>3. \A v \in Worker : FreshUntil(v, n)
      <4> HIDE DEF n
      <4>1. \A v \in Worker : shown[v] + n + S!Cycle <= S!AgeAfter(failures)
        BY <2>1, <3>0
      <4> QED  BY <4>1 DEF FreshUntil
    <3> QED  BY <2>1, <3>0, <3>2, <3>3 DEF FreshWhileUp, Due, S!NoKey
  <2>4. MaxElection + MaxProbe \in Nat
    BY BoundsAssumption DEF S!SamplerAssumption
  <2> QED  BY <2>1, <2>2, <2>3, <2>4 DEF FreshInv
<1>2. Old /\ Inv /\ Old' /\ [Next]_vars => Inv'
  <2> SUFFICES ASSUME Old, Inv, Old', [Next]_vars, part' = "sampler"
               PROVE  FreshInv'
    OBVIOUS
  <2>1. part = "sampler" /\ [S!Next]_(S!vars) /\ S!SamplerAssumption
    BY Parts, BoundsAssumption
  <2>2. SamplerInv /\ SamplerInv' /\ FreshInv
    BY <2>1
  <2>3. KeysInv'
    BY <2>1, <2>2, KeysStep DEF FreshInv
  <2>4. ASSUME NEW x \in Worker, Runs(x)'
        PROVE  IF redisUp' THEN \E m \in Nat : FreshWhileUp(m)' ELSE FreshWhileDown'
    <3>1. Runs(x)
      <4>1. CASE loop' = loop
        BY <2>4, <4>1 DEF Runs
      <4>2. CASE S!Tick
        BY <2>1, <2>2, <2>4, <4>2, OneTick DEF FreshInv, Runs
      <4>3. ASSUME NEW w \in Worker, NEW pc \in Place, S!Goto(w, pc) \/ S!Stay(w, pc), Runs(w)
            PROVE  Runs(x)
        BY <2>1, <2>2, <2>4, <4>3, OneMove DEF Runs
      <4>4. ASSUME NEW w \in Worker,
                   S!Claim(w) \/ S!WhoLeads(w) \/ S!Renew(w) \/ S!Follow(w) \/ S!ElectionError(w)
                   \/ S!Measure(w) \/ S!Publish(w) \/ S!Wake(w) \/ S!Stops(w)
            PROVE  Runs(x)
        <5>1. Runs(w) /\ \E pc \in Place : S!Goto(w, pc) \/ S!Stay(w, pc)
          BY <4>4 DEF S!Claim, S!WhoLeads, S!Renew, S!Follow, S!ElectionError, S!Measure, S!Publish,
                      S!Wake, S!Stops, S!At, S!Election, Runs, Place
        <5> QED  BY <4>3, <5>1
      <4>5. CASE S!RedisFails \/ S!RedisRecovers \/ UNCHANGED S!vars
        BY <4>1, <4>5 DEF S!RedisFails, S!RedisRecovers, S!vars
      <4> QED  BY <2>1, <4>2, <4>4, <4>5 DEF S!Next
    <3>2. CASE redisUp
      <4>1. PICK n \in Nat : FreshWhileUp(n)
        BY <2>2, <3>1, <3>2 DEF FreshInv
      <4> QED  BY <2>1, <2>2, <2>3, <2>4, <3>2, <4>1, FreshUpStep DEF FreshInv
    <3>3. CASE ~redisUp
      <4>1. FreshWhileDown
        BY <2>2, <3>1, <3>3 DEF FreshInv
      <4> QED  BY <2>1, <2>2, <2>4, <3>3, <4>1, FreshDownStep DEF FreshInv
    <3> QED  BY <3>2, <3>3
  <2> QED  BY <2>3, <2>4 DEF FreshInv
<1> QED  BY <1>1, <1>2, SamplerAlways, PTL DEF Spec

\* For any workers, times and number of failures, if the leader's round is
\* shorter than its lease and the published copy outlives the lease by at most
\* a cycle: what a running worker shows is never older than two cycles and
\* one FailureCost per failure (sample_once, sampler.py:66).
THEOREM FreshHardwareAlways ==
    S!RoundWithinLease /\ S!CopyOutlivesLease => (Spec => []FreshHardware)
<1> SUFFICES ASSUME S!RoundWithinLease, S!CopyOutlivesLease PROVE Spec => []FreshHardware
  OBVIOUS
<1>1. (part = "sampler" => SamplerInv /\ FreshInv) => FreshHardware
  <2> SUFFICES ASSUME SamplerInv, FreshInv, NEW w \in Worker, ~S!At(w, "off")
               PROVE  shown[w] <= S!Bound
    BY DEF FreshHardware, S!FreshHardware
  <2>0. S!SamplerAssumption /\ Runs(w)
    BY BoundsAssumption DEF Runs, S!At
  <2>1. /\ shown[w] \in Nat /\ Refresh(w) \in Nat /\ S!Cycle \in Nat /\ S!Bound \in Nat
        /\ S!AgeAfter(failures) \in Nat /\ S!AgeAfter(failures) <= S!Bound
    BY <2>0, SamplerFacts, RefreshBounds, AgesTyped, AgesAdd
  <2>2. CASE redisUp
    <3>1. PICK n \in Nat : FreshWhileUp(n)
      BY <2>0, <2>2 DEF FreshInv
    <3>2. shown[w] + n + S!Cycle <= S!AgeAfter(failures) \/ shown[w] + Refresh(w) <= S!AgeAfter(failures)
      BY <2>0, <3>1 DEF FreshWhileUp, FreshUntil
    <3> QED  BY <2>1, <3>2
  <2>3. CASE ~redisUp
    <3>1. failures > 0 /\ shown[w] + Refresh(w) <= S!AgeAfter(failures - 1)
      BY <2>0, <2>3 DEF FreshInv, FreshWhileDown
    <3>2. S!AgeAfter(failures - 1) \in Nat /\ S!AgeAfter(failures - 1) <= S!Bound
      <4>1. failures - 1 \in 0..MaxFaults /\ failures - 1 \in Nat
        BY <2>0, <3>1, SamplerFacts
      <4> QED  BY <2>0, <4>1, AgesTyped, AgesAdd
    <3> QED  BY <2>1, <3>1, <3>2
  <2> QED  BY <2>2, <2>3
<1> QED  BY <1>1, FreshAlways, PTL

\* The types of the two parts that state theirs.
THEOREM ObservatoryTypesAlways == Spec => []TypeOK
<1>1. /\ part = "concurrency" => InFlightInv
      /\ part = "sampler" => SamplerInv
      => TypeOK
  BY InFlightIsShown, BoundsAssumption DEF TypeOK, SamplerInv
<1> QED  BY <1>1, InFlightAlways, SamplerAlways, PTL


-----------------------------------------------------------------------------
(* The metrics.                                                             *)

Recording == [pc : {"new", "local", "shared", "lost", "forgotten"}, age : Nat]

\* What a payload with figures of Redis misses, or still counts after a reset,
\* is no older than the payload.
NoOlder(p, recorded) ==
    p.mode = "redis" =>
        \A e \in Event :
            /\ recorded[e].pc = "shared" /\ e \notin p.got.events => recorded[e].age <= p.age
            /\ recorded[e].pc = "forgotten" /\ e \in p.got.events => recorded[e].age <= p.age

IsSnapshot(s) ==
    s = [range |-> s.range, age |-> s.age, mode |-> s.mode, got |-> s.got] /\ s.age \in Nat

IsRead(r) ==
    /\ r = [pc |-> r.pc, worker |-> r.worker, range |-> r.range, age |-> r.age,
            mode |-> r.mode, got |-> r.got]
    /\ r.pc \in {"idle", "read", "store", "answer"} /\ r.age \in Nat

SampleInv ==
    samples \in [Worker -> Seq(Event)] /\ \A w \in Worker : Len(samples[w]) <= MaxSamples

CounterInv ==
    /\ shared.events \in SUBSET Event /\ IsFiniteSet(shared.events)
    /\ \A e \in Event : e \in shared.events <=> event[e].pc = "shared"
    /\ shared.counts = M!Tally({e \in shared.events : M!IsRequest(Kind[e])})

StalenessInv ==
    /\ \A w \in Worker : snapshot[w] = None \/ (IsSnapshot(snapshot[w]) /\ NoOlder(snapshot[w], event))
    /\ \A g \in Reader :
          /\ IsRead(reader[g])
          /\ reader[g].pc \in {"read", "store"} => reader[g].age <= MaxAggregation
          /\ reader[g].pc \in {"store", "answer"} => NoOlder(reader[g], event)
          /\ reader[g].pc = "answer" => reader[g].age <= M!Staleness

MetricsInv ==
    /\ event \in [Event -> Recording] /\ linked \in BOOLEAN
    /\ snapshot = [w \in Worker |-> snapshot[w]] /\ reader = [g \in Reader |-> reader[g]]
    /\ SampleInv /\ CounterInv /\ StalenessInv

\* A ring buffer never outgrows its length.
LEMMA PushBounded ==
    ASSUME M!MetricsAssumption, NEW list \in Seq(Event), Len(list) <= MaxSamples, NEW e \in Event
    PROVE  M!Push(list, e) \in Seq(Event) /\ Len(M!Push(list, e)) <= MaxSamples
<1>1. MaxSamples \in Nat /\ MaxSamples >= 1 /\ Len(list) \in Nat
  BY DEF M!MetricsAssumption
<1>2. CASE Len(list) < MaxSamples
  BY <1>1, <1>2 DEF M!Push
<1>3. CASE ~(Len(list) < MaxSamples)
  <2>1. Tail(list) \in Seq(Event) /\ Len(Tail(list)) = Len(list) - 1
    BY <1>1, <1>3
  <2> QED  BY <1>1, <1>3, <2>1 DEF M!Push
<1> QED  BY <1>2, <1>3

\* A set of events that gains one, or does not, counts one more, or not.
LEMMA CountedOnce ==
    ASSUME NEW A, NEW B, NEW e, IsFiniteSet(A), e \notin A, NEW more \in BOOLEAN,
           B = IF more THEN A \cup {e} ELSE A
    PROVE  M!Cardinality(B) = M!Cardinality(A) + M!One(more)
<1>1. \A T : M!Cardinality(T) = Cardinality(T)
  BY DEF M!Cardinality, Cardinality
<1>2. Cardinality(A \cup {e}) = Cardinality(A) + 1 /\ Cardinality(A) \in Nat
  BY FS_AddElement, FS_CardinalityType
<1> QED  BY <1>1, <1>2 DEF M!One

\* The increments of a pipeline are what one more event makes of the figures.
LEMMA IncrementTallies ==
    ASSUME NEW events \in SUBSET Event, IsFiniteSet(events), NEW e \in Event, e \notin events,
           M!MetricsAssumption
    PROVE  M!Tally({x \in events \cup {e} : M!IsRequest(Kind[x])}) =
               M!Increment(M!Tally({x \in events : M!IsRequest(Kind[x])}), Kind[e])
<1> DEFINE k == Kind[e]
           Old == {x \in events : M!IsRequest(Kind[x])}
           New == {x \in events \cup {e} : M!IsRequest(Kind[x])}
           is == M!IsRequest(k)
<1>0. IsFiniteSet(Old) /\ e \notin Old
  <2>1. Old \in SUBSET events
    OBVIOUS
  <2> QED  BY <2>1, FS_Subset
<1>1. New = IF is THEN Old \cup {e} ELSE Old
  OBVIOUS
<1> HIDE DEF Old, New
<1>2. M!Cardinality(New) = M!Cardinality(Old) + M!One(is)
  BY <1>0, <1>1, CountedOnce DEF M!IsRequest
<1>3. M!Cardinality({x \in New : M!IsUser(Kind[x])}) =
          M!Cardinality({x \in Old : M!IsUser(Kind[x])}) + M!One(M!IsUser(k))
  <2> DEFINE A == {x \in Old : M!IsUser(Kind[x])}
             B == {x \in New : M!IsUser(Kind[x])}
  <2>1. A \in SUBSET Old
    OBVIOUS
  <2>2. IsFiniteSet(A) /\ e \notin A
    BY <1>0, <2>1, FS_Subset
  <2>3. B = IF M!IsUser(k) THEN A \cup {e} ELSE A
    BY <1>1 DEF M!IsUser
  <2>4. M!IsUser(k) \in BOOLEAN
    BY DEF M!IsUser
  <2> HIDE DEF A, B
  <2>5. M!Cardinality(B) = M!Cardinality(A) + M!One(M!IsUser(k))
    BY <2>2, <2>3, <2>4, CountedOnce
  <2> QED  BY <2>5 DEF A, B
<1>4. M!Cardinality({x \in New : Kind[x].system}) =
          M!Cardinality({x \in Old : Kind[x].system}) + M!One(is /\ k.system)
  <2> DEFINE A == {x \in Old : Kind[x].system}
             B == {x \in New : Kind[x].system}
             more == is /\ k.system
  <2>1. A \in SUBSET Old
    OBVIOUS
  <2>2. IsFiniteSet(A) /\ e \notin A
    BY <1>0, <2>1, FS_Subset
  <2>3. B = IF more THEN A \cup {e} ELSE A
    BY <1>1
  <2>4. more \in BOOLEAN
    OBVIOUS
  <2> HIDE DEF A, B, more
  <2>5. M!Cardinality(B) = M!Cardinality(A) + M!One(more)
    BY <2>2, <2>3, <2>4, CountedOnce
  <2> QED  BY <2>5 DEF A, B, more
<1>5. M!Cardinality({x \in New : M!IsAppError(Kind[x])}) =
          M!Cardinality({x \in Old : M!IsAppError(Kind[x])}) + M!One(M!IsAppError(k))
  <2> DEFINE A == {x \in Old : M!IsAppError(Kind[x])}
             B == {x \in New : M!IsAppError(Kind[x])}
  <2>1. A \in SUBSET Old
    OBVIOUS
  <2>2. IsFiniteSet(A) /\ e \notin A
    BY <1>0, <2>1, FS_Subset
  <2>3. B = IF M!IsAppError(k) THEN A \cup {e} ELSE A
    BY <1>1 DEF M!IsAppError, M!IsUser
  <2>4. M!IsAppError(k) \in BOOLEAN
    BY DEF M!IsAppError
  <2> HIDE DEF A, B
  <2>5. M!Cardinality(B) = M!Cardinality(A) + M!One(M!IsAppError(k))
    BY <2>2, <2>3, <2>4, CountedOnce
  <2> QED  BY <2>5 DEF A, B
<1>6. M!Cardinality({x \in New : M!IsScan(Kind[x])}) =
          M!Cardinality({x \in Old : M!IsScan(Kind[x])}) + M!One(M!IsScan(k))
  <2> DEFINE A == {x \in Old : M!IsScan(Kind[x])}
             B == {x \in New : M!IsScan(Kind[x])}
  <2>1. A \in SUBSET Old
    OBVIOUS
  <2>2. IsFiniteSet(A) /\ e \notin A
    BY <1>0, <2>1, FS_Subset
  <2>3. B = IF M!IsScan(k) THEN A \cup {e} ELSE A
    BY <1>1 DEF M!IsScan
  <2>4. M!IsScan(k) \in BOOLEAN
    BY DEF M!IsScan
  <2> HIDE DEF A, B
  <2>5. M!Cardinality(B) = M!Cardinality(A) + M!One(M!IsScan(k))
    BY <2>2, <2>3, <2>4, CountedOnce
  <2> QED  BY <2>5 DEF A, B
<1>7. M!Tally(New) = M!Increment(M!Tally(Old), k)
  BY <1>2, <1>3, <1>4, <1>5, <1>6 DEF M!Tally, M!Increment
<1> QED  BY <1>7 DEF Old, New

\* A payload stays as it is when events are recorded or forgotten ...
LEMMA RecordedAfter ==
    ASSUME NEW p, p.age \in Nat, NEW old \in [Event -> Recording], NEW new \in [Event -> Recording],
           NoOlder(p, old),
           \A e \in Event : new[e].pc \in {"shared", "forgotten"} => new[e] = old[e] \/ new[e].age = 0
    PROVE  NoOlder(p, new)
  BY DEF NoOlder, Recording

\* ... and when it ages with them.
LEMMA AgedAlike ==
    ASSUME M!MetricsAssumption, NEW p, p.age \in Nat, NEW q, q.age \in Nat,
           q.mode = p.mode, q.got = p.got, q.age = M!Later(p.age) \/ q.age = p.age + 1,
           NEW old \in [Event -> Recording], NEW new \in [Event -> Recording], NoOlder(p, old),
           \A e \in Event : /\ new[e].pc = old[e].pc
                            /\ old[e].pc \in {"shared", "forgotten"} => new[e].age = M!Later(old[e].age)
    PROVE  NoOlder(q, new)
<1>0. \A a, b \in Nat : /\ a <= b => M!Later(a) <= M!Later(b) /\ M!Later(a) <= b + 1
                        /\ M!Later(a) \in Nat
  <2>1. M!OldAge \in Nat
    BY DEF M!OldAge, M!Staleness, M!MetricsAssumption
  <2> HIDE DEF M!OldAge
  <2> QED  BY <2>1 DEF M!Later
<1> SUFFICES ASSUME q.mode = "redis", NEW e \in Event, new[e].pc \in {"shared", "forgotten"},
                    old[e].age <= p.age
             PROVE  new[e].age <= q.age
  BY DEF NoOlder
<1>1. old[e].age \in Nat /\ new[e].age = M!Later(old[e].age)
  BY DEF Recording
<1> QED  BY <1>0, <1>1

\* Every step keeps the counters those of the events they stand for, and the
\* payloads as recent as they say.
LEMMA MetricsStep ==
    ASSUME M!MetricsAssumption, MetricsInv, [M!Next]_(M!vars)
    PROVE  MetricsInv'
<1> USE DEF MetricsInv
<1>a. /\ MaxAggregation \in Nat /\ SnapshotTicks \in Nat /\ M!Staleness \in Nat
      /\ MaxAggregation <= M!Staleness /\ SnapshotTicks - 1 <= M!Staleness
  BY DEF M!Staleness, M!MetricsAssumption
<1>e. \A e \in Event : event[e] \in Recording
  OBVIOUS
<1>1. ASSUME NEW e \in Event, NEW w \in Worker, M!RecordLocal(e, w)
      PROVE  MetricsInv'
  <2>1. /\ event[e].pc = "new" /\ event' = [event EXCEPT ![e] = [pc |-> "local", age |-> 0]]
        /\ samples' \in {samples, [samples EXCEPT ![w] = M!Push(samples[w], e)]}
        /\ snapshot' = [snapshot EXCEPT ![w] = None]
        /\ UNCHANGED <<linked, shared, reader>>
    BY <1>1 DEF M!RecordLocal
  <2>2. event' \in [Event -> Recording]
    BY <2>1 DEF Recording
  <2>3. /\ event'[e].pc = "local"
        /\ \A x \in Event : x # e => event'[x] = event[x]
    BY <2>1
  <2>4. SampleInv'
    <3>1. M!Push(samples[w], e) \in Seq(Event) /\ Len(M!Push(samples[w], e)) <= MaxSamples
      BY PushBounded DEF SampleInv
    <3> QED  BY <2>1, <3>1 DEF SampleInv
  <2>5. CounterInv'
    BY <2>1, <2>3 DEF CounterInv
  <2>6. StalenessInv'
    <3>1. ASSUME NEW p, p.age \in Nat, NoOlder(p, event) PROVE NoOlder(p, event')
      BY <2>2, <2>3, <3>1, RecordedAfter
    <3>2. \A v \in Worker : snapshot'[v] = None \/ snapshot'[v] = snapshot[v]
      BY <2>1
    <3> QED  BY <2>1, <3>1, <3>2 DEF StalenessInv, IsSnapshot, IsRead
  <2> QED  BY <2>1, <2>2, <2>4, <2>5, <2>6
<1>2. ASSUME NEW e \in Event, M!RecordShared(e)
      PROVE  MetricsInv'
  <2> DEFINE pc == IF linked THEN "shared" ELSE "lost"
  <2>1. /\ event[e].pc = "local" /\ event' = [event EXCEPT ![e] = [pc |-> pc, age |-> 0]]
        /\ ~linked => shared' = shared
        /\ linked => /\ shared'.counts = M!Increment(shared.counts, Kind[e])
                     /\ shared'.events = shared.events \cup {e}
        /\ UNCHANGED <<linked, samples, snapshot, reader>>
    BY <1>2 DEF M!RecordShared
  <2>2. event' \in [Event -> Recording] /\ event'[e].pc = pc /\ event'[e].age = 0
    BY <2>1 DEF Recording
  <2>3. \A x \in Event : x # e => event'[x] = event[x]
    BY <2>1
  <2>4. CounterInv'
    <3>1. CASE linked
      <4>1. e \notin shared.events
        BY <2>1 DEF CounterInv
      <4>2. shared'.counts = M!Tally({x \in shared'.events : M!IsRequest(Kind[x])})
        BY <2>1, <3>1, <4>1, IncrementTallies DEF CounterInv
      <4>3. IsFiniteSet(shared'.events)
        BY <2>1, <3>1, FS_AddElement DEF CounterInv
      <4>4. \A x \in Event : x \in shared'.events <=> event'[x].pc = "shared"
        BY <2>1, <2>2, <2>3, <3>1 DEF CounterInv
      <4>5. shared'.events \in SUBSET Event
        BY <2>1, <3>1 DEF CounterInv
      <4> QED  BY <4>2, <4>3, <4>4, <4>5 DEF CounterInv
    <3>2. CASE ~linked
      BY <2>1, <2>2, <2>3, <3>2 DEF CounterInv
    <3> QED  BY <3>1, <3>2
  <2>5. StalenessInv'
    <3>1. ASSUME NEW p, p.age \in Nat, NoOlder(p, event) PROVE NoOlder(p, event')
      BY <2>2, <2>3, <3>1, RecordedAfter
    <3> QED  BY <2>1, <3>1 DEF StalenessInv, IsSnapshot, IsRead
  <2> QED  BY <2>1, <2>2, <2>4, <2>5 DEF SampleInv
<1>3. ASSUME NEW g \in Reader, UNCHANGED <<linked, samples, shared, event>>,
             \A v \in Worker : snapshot'[v] = snapshot[v] \/ (IsSnapshot(snapshot'[v]) /\ NoOlder(snapshot'[v], event)),
             snapshot' = [v \in Worker |-> snapshot'[v]],
             NEW r, reader' = [reader EXCEPT ![g] = r], IsRead(r),
             r.pc \in {"read", "store"} => r.age <= MaxAggregation,
             r.pc \in {"store", "answer"} => NoOlder(r, event),
             r.pc = "answer" => r.age <= M!Staleness
      PROVE  MetricsInv'
  <2>1. reader'[g] = r /\ \A h \in Reader : h # g => reader'[h] = reader[h]
    BY <1>3
  <2>2. StalenessInv'
    BY <1>3, <2>1 DEF StalenessInv
  <2>3. reader' = [h \in Reader |-> reader'[h]]
    BY <1>3
  <2> QED  BY <1>3, <2>2, <2>3 DEF SampleInv, CounterInv
<1>4. ASSUME NEW g \in Reader, NEW w \in Worker, NEW range \in Window, M!GetSnapshot(g, w, range)
      PROVE  MetricsInv'
  <2> DEFINE r == [pc |-> "answer", worker |-> w, range |-> range, age |-> snapshot[w].age,
                   mode |-> snapshot[w].mode, got |-> snapshot[w].got]
  <2>1. /\ UNCHANGED <<linked, samples, shared, snapshot, event>> /\ reader' = [reader EXCEPT ![g] = r]
        /\ snapshot[w] # None /\ snapshot[w].age < SnapshotTicks
    BY <1>4 DEF M!GetSnapshot, M!Fresh
  <2>2. IsSnapshot(snapshot[w]) /\ NoOlder(snapshot[w], event)
    BY <2>1 DEF StalenessInv
  <2>3. IsRead(r) /\ NoOlder(r, event) /\ r.age <= M!Staleness /\ r.pc = "answer"
    BY <1>a, <2>1, <2>2 DEF IsRead, IsSnapshot, NoOlder
  <2> HIDE DEF r
  <2> QED  BY <1>3, <2>1, <2>3
<1>5. ASSUME NEW g \in Reader, NEW w \in Worker, NEW range \in Window, M!GetMetrics(g, w, range)
      PROVE  MetricsInv'
  <2> DEFINE r == [pc |-> "read", worker |-> w, range |-> range, age |-> 0,
                   mode |-> None, got |-> M!Empty]
  <2>1. /\ UNCHANGED <<linked, samples, shared, snapshot, event>> /\ reader' = [reader EXCEPT ![g] = r]
    BY <1>5 DEF M!GetMetrics
  <2>2. IsRead(r) /\ r.pc = "read" /\ r.age <= MaxAggregation
    BY <1>a DEF IsRead
  <2> HIDE DEF r
  <2> QED  BY <1>3, <2>1, <2>2
<1>6. ASSUME NEW g \in Reader, M!Aggregate(g)
      PROVE  MetricsInv'
  <2> DEFINE old == reader[g]
             mode == IF linked THEN "redis" ELSE "local"
             got == IF linked THEN shared ELSE M!OwnFigures(old.worker)
             r == [pc |-> "store", worker |-> old.worker, range |-> old.range, age |-> old.age,
                   mode |-> mode, got |-> got]
  <2>1. /\ UNCHANGED <<linked, samples, shared, snapshot, event>> /\ reader' = [reader EXCEPT ![g] = r]
        /\ old.pc = "read"
    BY <1>6 DEF M!Aggregate
  <2>2. r.mode = "redis" => r.got = shared
    OBVIOUS
  <2>3. NoOlder(r, event)
    BY <2>2 DEF NoOlder, CounterInv
  <2>4. IsRead(r) /\ r.pc = "store" /\ r.age <= MaxAggregation
    BY <2>1 DEF IsRead, StalenessInv
  <2> HIDE DEF r
  <2> QED  BY <1>3, <2>1, <2>3, <2>4
<1>7. ASSUME NEW g \in Reader, M!StoreSnapshot(g)
      PROVE  MetricsInv'
  <2> DEFINE old == reader[g]
             s == [range |-> old.range, age |-> old.age, mode |-> old.mode, got |-> old.got]
             r == [old EXCEPT !.pc = "answer"]
  <2>1. /\ UNCHANGED <<linked, samples, shared, event>> /\ reader' = [reader EXCEPT ![g] = r]
        /\ snapshot' = [snapshot EXCEPT ![old.worker] = s] /\ old.pc = "store"
    BY <1>7 DEF M!StoreSnapshot
  <2>2. IsRead(old) /\ old.age <= MaxAggregation /\ NoOlder(old, event)
    BY <2>1 DEF StalenessInv
  <2>3. IsRead(r) /\ r.pc = "answer" /\ r.age = old.age /\ NoOlder(r, event)
    BY <2>2 DEF IsRead, NoOlder
  <2>4. IsSnapshot(s) /\ NoOlder(s, event)
    BY <2>2 DEF IsSnapshot, IsRead, NoOlder
  <2>5. r.age <= M!Staleness
    BY <1>a, <2>2, <2>3 DEF IsRead
  <2> HIDE DEF s, r
  <2>6. /\ \A v \in Worker : snapshot'[v] = snapshot[v] \/ snapshot'[v] = s
        /\ snapshot' = [v \in Worker |-> snapshot'[v]]
    BY <2>1
  <2> QED  BY <1>3, <2>1, <2>3, <2>4, <2>5, <2>6
<1>8. ASSUME NEW g \in Reader, M!Reply(g)
      PROVE  MetricsInv'
  <2>1. /\ UNCHANGED <<linked, samples, shared, snapshot, event>>
        /\ reader' = [reader EXCEPT ![g] = M!NoRead]
    BY <1>8 DEF M!Reply
  <2>2. IsRead(M!NoRead) /\ M!NoRead.pc = "idle"
    BY DEF IsRead, M!NoRead
  <2> QED  BY <1>3, <2>1, <2>2
<1>9. ASSUME NEW w \in Worker, M!ResetLocal(w)
      PROVE  MetricsInv'
  <2>1. /\ UNCHANGED <<linked, shared, event, reader>>
        /\ samples' = [samples EXCEPT ![w] = <<>>] /\ snapshot' = [snapshot EXCEPT ![w] = None]
    BY <1>9 DEF M!ResetLocal
  <2>2. SampleInv'
    BY <2>1 DEF SampleInv, M!MetricsAssumption
  <2>3. \A v \in Worker : snapshot'[v] = None \/ snapshot'[v] = snapshot[v]
    BY <2>1
  <2>4. StalenessInv'
    BY <2>1, <2>3 DEF StalenessInv
  <2> QED  BY <2>1, <2>2, <2>4 DEF CounterInv
<1>10. CASE M!ResetShared
  <2>1. /\ UNCHANGED <<linked, samples, snapshot, reader>>
        /\ shared' = IF linked THEN M!Empty ELSE shared
        /\ event' = [e \in Event |-> IF linked /\ event[e].pc = "shared"
                                     THEN [pc |-> "forgotten", age |-> 0] ELSE event[e]]
    BY <1>10 DEF M!ResetShared
  <2>2. event' \in [Event -> Recording]
    BY <2>1 DEF Recording
  <2>3. StalenessInv'
    <3>0. \A x \in Event : event'[x] = event[x] \/ event'[x].age = 0
      BY <2>1
    <3>1. ASSUME NEW p, p.age \in Nat, NoOlder(p, event) PROVE NoOlder(p, event')
      BY <2>2, <3>0, <3>1, RecordedAfter
    <3> QED  BY <2>1, <3>1 DEF StalenessInv, IsSnapshot, IsRead
  <2>4. CounterInv'
    <3>1. CASE linked
      <4>1. shared'.events = {} /\ shared'.counts = M!NoCounts
        BY <2>1, <3>1 DEF M!Empty
      <4>2. \A x \in Event : event'[x].pc # "shared"
        BY <2>1, <3>1
      <4>3. M!Tally({x \in {} : M!IsRequest(Kind[x])}) = M!NoCounts
        BY FS_EmptySet DEF M!Tally, M!NoCounts, M!Cardinality, Cardinality
      <4> QED  BY <4>1, <4>2, <4>3, FS_EmptySet DEF CounterInv
    <3>2. CASE ~linked
      BY <2>1, <3>2 DEF CounterInv
    <3> QED  BY <3>1, <3>2
  <2> QED  BY <2>1, <2>2, <2>3, <2>4 DEF SampleInv
<1>11. CASE M!Tick
  <2>1. /\ UNCHANGED <<linked, samples, shared>>
        /\ snapshot' = [w \in Worker |-> IF snapshot[w] = None THEN None
                                         ELSE [snapshot[w] EXCEPT !.age = M!Later(snapshot[w].age)]]
        /\ event' = [e \in Event |-> IF event[e].pc \in {"shared", "forgotten"}
                                     THEN [event[e] EXCEPT !.age = M!Later(event[e].age)]
                                     ELSE event[e]]
        /\ reader' = [g \in Reader |-> IF reader[g].pc = "idle" THEN reader[g]
                                       ELSE [reader[g] EXCEPT !.age = reader[g].age + 1]]
        /\ \A g \in Reader : \/ reader[g].pc = "idle"
                             \/ reader[g].pc \in {"read", "store"} /\ reader[g].age < MaxAggregation
    BY <1>11 DEF M!Tick
  <2>2. \A age \in Nat : M!Later(age) \in Nat
    BY DEF M!Later
  <2>3. event' \in [Event -> Recording]
    BY <2>1, <2>2 DEF Recording
  <2>4. \A x \in Event : /\ event'[x].pc = event[x].pc
                         /\ event[x].pc \in {"shared", "forgotten"} => event'[x].age = M!Later(event[x].age)
    BY <2>1 DEF Recording
  <2>5. CounterInv'
    BY <2>1, <2>4 DEF CounterInv
  <2>6. ASSUME NEW w \in Worker
        PROVE  snapshot'[w] = None \/ (IsSnapshot(snapshot'[w]) /\ NoOlder(snapshot'[w], event'))
    <3>1. CASE snapshot[w] = None
      BY <2>1, <3>1
    <3>2. CASE snapshot[w] # None
      <4> DEFINE p == snapshot[w]
                 q == [p EXCEPT !.age = M!Later(p.age)]
      <4>1. IsSnapshot(p) /\ NoOlder(p, event) /\ snapshot'[w] = q
        BY <2>1, <3>2 DEF StalenessInv
      <4>2. IsSnapshot(q) /\ q.mode = p.mode /\ q.got = p.got /\ q.age = M!Later(p.age)
        BY <2>2, <4>1 DEF IsSnapshot
      <4> HIDE DEF p, q
      <4>3. NoOlder(q, event')
        BY <2>3, <2>4, <4>1, <4>2, AgedAlike DEF IsSnapshot
      <4> QED  BY <4>1, <4>2, <4>3
    <3> QED  BY <3>1, <3>2
  <2>7. ASSUME NEW g \in Reader
        PROVE  /\ IsRead(reader'[g])
               /\ reader'[g].pc \in {"read", "store"} => reader'[g].age <= MaxAggregation
               /\ reader'[g].pc \in {"store", "answer"} => NoOlder(reader'[g], event')
               /\ reader'[g].pc # "answer"
    <3> DEFINE p == reader[g]
               q == [p EXCEPT !.age = p.age + 1]
    <3>0. IsRead(p)
      BY DEF StalenessInv
    <3>1. CASE p.pc = "idle"
      BY <2>1, <3>0, <3>1
    <3>2. CASE p.pc # "idle"
      <4>1. reader'[g] = q /\ p.pc \in {"read", "store"} /\ p.age < MaxAggregation
        BY <2>1, <3>2
      <4>2. IsRead(q) /\ q.mode = p.mode /\ q.got = p.got /\ q.age = p.age + 1 /\ q.pc = p.pc
        BY <3>0 DEF IsRead
      <4>3. p.pc = "store" => NoOlder(p, event)
        BY DEF StalenessInv
      <4> HIDE DEF p, q
      <4>4. p.pc = "store" => NoOlder(q, event')
        BY <2>3, <2>4, <3>0, <4>2, <4>3, AgedAlike DEF IsRead
      <4> QED  BY <1>a, <3>0, <4>1, <4>2, <4>4 DEF IsRead
    <3> QED  BY <3>1, <3>2
  <2>8. snapshot' = [w \in Worker |-> snapshot'[w]] /\ reader' = [g \in Reader |-> reader'[g]]
    BY <2>1
  <2>9. StalenessInv'
    BY <2>6, <2>7 DEF StalenessInv
  <2> QED  BY <2>1, <2>3, <2>5, <2>8, <2>9 DEF SampleInv
<1>12. CASE M!LinkChanges \/ UNCHANGED M!vars
  <2>1. linked' \in BOOLEAN /\ UNCHANGED <<samples, shared, snapshot, event, reader>>
    BY <1>12 DEF M!LinkChanges, M!vars
  <2> QED  BY <2>1 DEF SampleInv, CounterInv, StalenessInv
<1> QED  BY <1>1, <1>2, <1>4, <1>5, <1>6, <1>7, <1>8, <1>9, <1>10, <1>11, <1>12 DEF M!Next

\* So it is in every state of the part.
LEMMA MetricsAlways == Spec => [](part = "metrics" => MetricsInv)
<1> DEFINE Inv == part = "metrics" => MetricsInv
<1>1. Init => Inv
  <2> SUFFICES ASSUME M!Init PROVE MetricsInv
    BY DEF Init
  <2>1. /\ linked = TRUE /\ samples = [w \in Worker |-> <<>>] /\ shared = M!Empty
        /\ snapshot = [w \in Worker |-> None]
        /\ event = [e \in Event |-> [pc |-> "new", age |-> 0]]
        /\ reader = [g \in Reader |-> M!NoRead]
    BY DEF M!Init
  <2>2. SampleInv
    BY <2>1, BoundsAssumption DEF SampleInv, M!MetricsAssumption
  <2>3. CounterInv
    <3>1. M!Tally({x \in {} : M!IsRequest(Kind[x])}) = M!NoCounts
      BY FS_EmptySet DEF M!Tally, M!NoCounts, M!Cardinality, Cardinality
    <3>2. shared.events = {} /\ shared.counts = M!NoCounts
      BY <2>1 DEF M!Empty
    <3> QED  BY <2>1, <3>1, <3>2, FS_EmptySet DEF CounterInv
  <2>4. StalenessInv
    BY <2>1 DEF StalenessInv, IsRead, M!NoRead
  <2> QED  BY <2>1, <2>2, <2>3, <2>4 DEF MetricsInv, Recording
<1>2. Inv /\ [Next]_vars => Inv'
  BY Parts, MetricsStep, BoundsAssumption
<1> QED  BY <1>1, <1>2, PTL DEF Spec

\* For any events, readers and times: an answer with figures of Redis counts
\* every event that reached Redis longer ago than a snapshot or an aggregation
\* lasts, and none that a reset removed longer ago (get_metrics).
THEOREM StalenessIsBoundedAlways == Spec => []StalenessIsBounded
<1>1. (part = "metrics" => MetricsInv) => StalenessIsBounded
  <2> SUFFICES ASSUME MetricsInv, NEW g \in Reader, reader[g].pc = "answer", reader[g].mode = "redis",
                      NEW e \in Event, event[e].age > M!Staleness
               PROVE  /\ event[e].pc = "shared" => e \in reader[g].got.events
                      /\ event[e].pc = "forgotten" => e \notin reader[g].got.events
    BY DEF StalenessIsBounded, M!StalenessIsBounded
  <2>1. /\ reader[g].age \in Nat /\ event[e].age \in Nat /\ reader[g].age <= M!Staleness
        /\ NoOlder(reader[g], event)
    BY DEF MetricsInv, StalenessInv, IsRead, Recording
  <2>2. M!Staleness \in Nat
    BY BoundsAssumption DEF M!Staleness, M!MetricsAssumption
  <2>3. ~(event[e].age <= reader[g].age)
    BY <2>1, <2>2
  <2> QED  BY <2>1, <2>3 DEF NoOlder
<1> QED  BY <1>1, MetricsAlways, PTL

\* And the counters incremented in Redis are the figures the fallback computes
\* from the requests they stand for; no ring buffer outgrows its length
\* (record_request, get_metrics).
THEOREM AggregatesAgreeAlways == Spec => []AggregatesAgree
<1>1. (part = "metrics" => MetricsInv) => AggregatesAgree
  BY DEF AggregatesAgree, M!AggregatesAgree, MetricsInv, CounterInv, SampleInv
<1> QED  BY <1>1, MetricsAlways, PTL


-----------------------------------------------------------------------------
(* The sessions.                                                            *)

Entries == [User -> Nat \cup {None}]
Pending == [pc : {"none", "record", "record-logout", "remove"}, user : User \cup {None},
            worker : Worker \cup {None}]

SessionTypeOK ==
    /\ session \in [own : [Worker -> Entries], zset : Entries, key : Entries]
    /\ call \in [Call -> Pending]
    /\ seen \in [User -> Nat] /\ signed \in [User -> {"never", "in", "out"}]
    /\ reachable \in BOOLEAN /\ redisOutages \in Nat

\* What is done for a user is done within the tick of the request, so that
\* no entry is younger than the last request; and while Redis was there, the
\* set knows every user who is signed in and has no request under way.
NoYounger(entries, last) == \A u \in User : entries[u] # None => last[u] <= entries[u]

SetKnows(u) ==
    signed[u] = "in" /\ seen[u] < Life /\ ~N!Busy(u) =>
        session.zset[u] # None /\ session.zset[u] <= seen[u]

SessionInv ==
    /\ SessionTypeOK
    /\ \A c \in Call : IF call[c].pc = "none" THEN call[c].user = None
                       ELSE /\ call[c].user \in User /\ call[c].worker \in Worker
                            /\ seen[call[c].user] = 0
    /\ \A w \in Worker : NoYounger(session.own[w], seen)
    /\ NoYounger(session.zset, seen) /\ NoYounger(session.key, seen)
    /\ \A u \in User : session.key[u] # None => session.key[u] < Life
    /\ redisOutages = 0 /\ reachable => \A u \in User : SetKnows(u)

\* The operations on a set of entries.
LEMMA EntriesTyped ==
    ASSUME N!SessionAssumption, NEW entries \in Entries
    PROVE  /\ N!Kept(entries) \in Entries /\ N!KeptOwn(entries) \in Entries
           /\ N!GrowAll(entries) \in Entries
           /\ \A u \in User : /\ N!Entered(entries, u) \in Entries
                              /\ N!Without(entries, u) \in Entries
           /\ \A u \in User : N!Kept(entries)[u] = entries[u] \/ N!Kept(entries)[u] = None
           /\ \A u \in User : N!KeptOwn(entries)[u] = entries[u] \/ N!KeptOwn(entries)[u] = None
           /\ \A u \in User : /\ N!Kept(entries)[u] # None => entries[u] < Life
                              /\ N!KeptOwn(entries)[u] # None => entries[u] <= Life
                              /\ entries[u] # None /\ entries[u] < Life => N!Kept(entries)[u] = entries[u]
           /\ \A u, v \in User :
                 /\ N!Entered(entries, u)[v] = IF v = u THEN 0 ELSE entries[v]
                 /\ N!Without(entries, u)[v] = IF v = u THEN None ELSE entries[v]
<1>1. None \notin Nat /\ Life \in Nat
  BY DEF N!SessionAssumption
<1>2. N!Kept(entries) \in Entries /\ N!KeptOwn(entries) \in Entries
  BY DEF N!Kept, N!KeptOwn, Entries
<1>3. N!GrowAll(entries) \in Entries
  BY DEF N!GrowAll, N!Grow, Entries
<1>4. \A u \in User : /\ N!Entered(entries, u) \in Entries
                      /\ N!Without(entries, u) \in Entries
  BY DEF N!Entered, N!Without, Entries
<1>5. /\ \A u \in User : N!Kept(entries)[u] = entries[u] \/ N!Kept(entries)[u] = None
      /\ \A u \in User : N!KeptOwn(entries)[u] = entries[u] \/ N!KeptOwn(entries)[u] = None
      /\ \A u \in User : /\ N!Kept(entries)[u] # None => entries[u] < Life
                         /\ N!KeptOwn(entries)[u] # None => entries[u] <= Life
                         /\ entries[u] # None /\ entries[u] < Life => N!Kept(entries)[u] = entries[u]
  BY <1>1 DEF N!Kept, N!KeptOwn, Entries
<1>6. \A u, v \in User :
         /\ N!Entered(entries, u)[v] = IF v = u THEN 0 ELSE entries[v]
         /\ N!Without(entries, u)[v] = IF v = u THEN None ELSE entries[v]
  BY DEF N!Entered, N!Without, Entries
<1> QED  BY <1>2, <1>3, <1>4, <1>5, <1>6

\* Entries and requests age alike.
LEMMA AgesGrow ==
    ASSUME N!SessionAssumption, NEW age \in Nat
    PROVE  /\ N!Grow(age) \in Nat /\ age <= N!Grow(age) /\ N!Grow(age) <= age + 1
           /\ N!Grow(None) = None
           /\ \A older \in Nat : age <= older => N!Grow(age) <= N!Grow(older)
  BY DEF N!Grow, N!SessionAssumption

\* What a set of entries loses, nobody is younger for; who is entered was
\* seen in this tick; a request of a user and time make no entry too young.
LEMMA EntriesStayOld ==
    ASSUME N!SessionAssumption, NEW entries \in Entries, NEW last \in [User -> Nat],
           NoYounger(entries, last)
    PROVE  /\ NoYounger(N!Kept(entries), last) /\ NoYounger(N!KeptOwn(entries), last)
           /\ \A u \in User :
                 /\ NoYounger(N!Without(entries, u), last)
                 /\ last[u] = 0 => NoYounger(N!Entered(entries, u), last)
                 /\ NoYounger(entries, [last EXCEPT ![u] = 0])
           /\ NoYounger(N!GrowAll(entries), N!GrowAll(last))
<1>1. NoYounger(N!Kept(entries), last) /\ NoYounger(N!KeptOwn(entries), last)
  BY EntriesTyped DEF NoYounger
<1>2. ASSUME NEW u \in User
      PROVE  /\ NoYounger(N!Without(entries, u), last)
             /\ last[u] = 0 => NoYounger(N!Entered(entries, u), last)
             /\ NoYounger(entries, [last EXCEPT ![u] = 0])
  <2>1. NoYounger(N!Without(entries, u), last)
    BY EntriesTyped DEF NoYounger
  <2>2. last[u] = 0 => NoYounger(N!Entered(entries, u), last)
    BY EntriesTyped DEF NoYounger
  <2>3. NoYounger(entries, [last EXCEPT ![u] = 0])
    BY DEF NoYounger, Entries
  <2> QED  BY <2>1, <2>2, <2>3
<1>3. NoYounger(N!GrowAll(entries), N!GrowAll(last))
  <2> SUFFICES ASSUME NEW u \in User, N!Grow(entries[u]) # None
               PROVE  N!Grow(last[u]) <= N!Grow(entries[u])
    BY DEF NoYounger, N!GrowAll
  <2>1. entries[u] # None /\ entries[u] \in Nat
    BY AgesGrow DEF Entries
  <2> QED  BY <2>1, AgesGrow DEF NoYounger
<1> QED  BY <1>1, <1>2, <1>3

\* Every step of a request, of the count, of the time or of Redis keeps the
\* types.
LEMMA SessionTyping ==
    ASSUME N!SessionAssumption, SessionInv, [N!Next]_(N!vars)
    PROVE  SessionTypeOK'
<1> USE DEF SessionInv, SessionTypeOK
<1>0. /\ \A w \in Worker : session.own[w] \in Entries
      /\ session.zset \in Entries /\ session.key \in Entries
      /\ \A entries \in Entries, w \in Worker : N!OnWorker(w, entries) \in [Worker -> Entries]
  BY DEF N!OnWorker
<1>n. N!NoCall \in Pending
  BY DEF N!NoCall, Pending
<1>1. ASSUME NEW c \in Call, NEW u \in User, NEW w \in Worker, NEW pc \in {"record", "record-logout"},
             N!Visit(c, u, w, pc), signed' \in [User -> {"never", "in", "out"}]
      PROVE  SessionTypeOK'
  <2> DEFINE own == N!OnWorker(w, N!Entered(session.own[w], u))
             p == [pc |-> pc, user |-> u, worker |-> w]
  <2>1. own \in [Worker -> Entries] /\ p \in Pending
    BY <1>0, EntriesTyped DEF Pending
  <2>2. /\ session' = [session EXCEPT !.own = own] /\ call' = [call EXCEPT ![c] = p]
        /\ seen' = [seen EXCEPT ![u] = 0] /\ UNCHANGED <<reachable, redisOutages>>
    BY <1>1 DEF N!Visit
  <2> HIDE DEF own, p
  <2> QED  BY <1>1, <2>1, <2>2
<1>2. ASSUME NEW c \in Call, N!Record(c)
      PROVE  SessionTypeOK'
  <2>0. PICK u \in User : u = call[c].user
    BY <1>2 DEF N!Record
  <2> DEFINE zset == N!Entered(N!Kept(session.zset), u)
             key == N!Entered(session.key, u)
             p == IF call[c].pc = "record" THEN N!NoCall ELSE [call[c] EXCEPT !.pc = "remove"]
  <2>1. zset \in Entries /\ key \in Entries
    BY <1>0, EntriesTyped
  <2>2. p \in Pending
    BY <1>n DEF Pending
  <2>3. /\ session' = session \/ session' = [session EXCEPT !.zset = zset, !.key = key]
        /\ call' = [call EXCEPT ![c] = p]
        /\ UNCHANGED <<seen, signed, reachable, redisOutages>>
    BY <1>2, <2>0 DEF N!Record
  <2> HIDE DEF zset, key, p
  <2> QED  BY <2>1, <2>2, <2>3
<1>3. ASSUME NEW c \in Call, N!Remove(c)
      PROVE  SessionTypeOK'
  <2>0. PICK u \in User, w \in Worker : u = call[c].user /\ w = call[c].worker
    BY <1>3 DEF N!Remove
  <2> DEFINE own == N!OnWorker(w, N!Without(session.own[w], u))
             zset == IF reachable THEN N!Without(session.zset, u) ELSE session.zset
             key == IF reachable THEN N!Without(session.key, u) ELSE session.key
  <2>1. own \in [Worker -> Entries] /\ zset \in Entries /\ key \in Entries
    BY <1>0, EntriesTyped
  <2>2. /\ session' = [own |-> own, zset |-> zset, key |-> key]
        /\ signed' = [signed EXCEPT ![u] = "out"] /\ call' = [call EXCEPT ![c] = N!NoCall]
        /\ UNCHANGED <<seen, reachable, redisOutages>>
    BY <1>3, <2>0 DEF N!Remove
  <2> HIDE DEF own, zset, key
  <2> QED  BY <1>n, <2>1, <2>2
<1>4. ASSUME NEW w \in Worker, N!Count(w)
      PROVE  SessionTypeOK'
  <2> DEFINE zset == IF reachable THEN N!Kept(session.zset) ELSE session.zset
             inRedis == reachable /\ N!Some(zset) \cup N!Some(session.key) # {}
             own == IF inRedis THEN session.own
                    ELSE N!OnWorker(w, N!KeptOwn(session.own[w]))
  <2>0. session' = [session EXCEPT !.zset = zset, !.own = own]
    BY <1>4 DEF N!Count
  <2> HIDE DEF inRedis
  <2>1. /\ own \in {session.own, N!OnWorker(w, N!KeptOwn(session.own[w]))}
        /\ zset \in {session.zset, N!Kept(session.zset)}
    OBVIOUS
  <2> HIDE DEF own, zset
  <2>2. own \in [Worker -> Entries] /\ zset \in Entries
    BY <1>0, <2>1, EntriesTyped
  <2>3. UNCHANGED <<call, seen, signed, reachable, redisOutages>>
    BY <1>4 DEF N!Count
  <2> QED  BY <2>0, <2>2, <2>3
<1>5. CASE N!Tick
  <2>1. /\ session' = [own |-> [w \in Worker |-> N!GrowAll(session.own[w])],
                       zset |-> N!GrowAll(session.zset), key |-> N!Kept(N!GrowAll(session.key))]
        /\ seen' = N!GrowAll(seen) /\ UNCHANGED <<call, signed, reachable, redisOutages>>
    BY <1>5 DEF N!Tick
  <2> DEFINE own == [w \in Worker |-> N!GrowAll(session.own[w])]
             zset == N!GrowAll(session.zset)
             key == N!Kept(N!GrowAll(session.key))
  <2>2. own \in [Worker -> Entries] /\ zset \in Entries /\ key \in Entries
    BY <1>0, EntriesTyped
  <2>3. seen' \in [User -> Nat]
    BY <2>1, AgesGrow DEF N!GrowAll
  <2>4. session' = [own |-> own, zset |-> zset, key |-> key]
    BY <2>1
  <2> HIDE DEF own, zset, key
  <2> QED  BY <2>1, <2>2, <2>3, <2>4
<1>6. CASE N!RedisChanges \/ UNCHANGED N!vars
  <2>1. /\ UNCHANGED <<session, call, seen, signed>> /\ reachable' \in BOOLEAN
        /\ redisOutages' = redisOutages \/ redisOutages' = redisOutages + 1
    BY <1>6 DEF N!RedisChanges, N!vars
  <2> QED  BY <2>1
<1>7. ASSUME NEW c \in Call, NEW u \in User, NEW w \in Worker,
             N!Login(c, u, w) \/ N!Authenticate(c, u, w) \/ N!Logout(c, u, w)
      PROVE  SessionTypeOK'
  <2>1. N!Visit(c, u, w, "record") \/ N!Visit(c, u, w, "record-logout")
    BY <1>7 DEF N!Login, N!Authenticate, N!Logout
  <2>2. signed' \in [User -> {"never", "in", "out"}]
    BY <1>7 DEF N!Login, N!Authenticate, N!Logout
  <2> QED  BY <1>1, <2>1, <2>2
<1> QED  BY <1>2, <1>3, <1>4, <1>5, <1>6, <1>7 DEF N!Next

\* One worker's entries change, the others' do not.
LEMMA OnWorkerOld ==
    ASSUME N!SessionAssumption, session.own \in [Worker -> Entries], NEW last \in [User -> Nat],
           \A v \in Worker : NoYounger(session.own[v], last),
           NEW w \in Worker, NEW entries \in Entries, NoYounger(entries, last)
    PROVE  \A v \in Worker : NoYounger(N!OnWorker(w, entries)[v], last)
  BY DEF N!OnWorker

\* Every step keeps the entries no younger than the last request.
LEMMA SessionStep ==
    ASSUME N!SessionAssumption, SessionInv, [N!Next]_(N!vars)
    PROVE  SessionInv'
<1> USE DEF SessionInv
<1>t. SessionTypeOK'
  BY SessionTyping
<1>0. /\ session.own \in [Worker -> Entries] /\ session.zset \in Entries /\ session.key \in Entries
      /\ session \in [own : [Worker -> Entries], zset : Entries, key : Entries]
      /\ call \in [Call -> Pending] /\ seen \in [User -> Nat]
      /\ signed \in [User -> {"never", "in", "out"}] /\ redisOutages \in Nat
      /\ \A w \in Worker : session.own[w] \in Entries
  BY DEF SessionTypeOK
<1>c. \A c \in Call : call[c] = [pc |-> call[c].pc, user |-> call[c].user, worker |-> call[c].worker]
  BY <1>0 DEF Pending
<1>l. Life \in Nat /\ 0 < Life /\ None \notin Nat /\ None \notin User
  BY DEF N!SessionAssumption
<1>1. ASSUME NEW c \in Call, NEW u \in User, NEW w \in Worker, NEW pc \in {"record", "record-logout"},
             N!Visit(c, u, w, pc), call[c].pc = "none",
             \A v \in User : v # u => signed'[v] = signed[v]
      PROVE  SessionInv'
  <2> DEFINE own == N!OnWorker(w, N!Entered(session.own[w], u))
             last == [seen EXCEPT ![u] = 0]
             p == [pc |-> pc, user |-> u, worker |-> w]
  <2>1. /\ session' = [session EXCEPT !.own = own] /\ call' = [call EXCEPT ![c] = p]
        /\ seen' = last /\ UNCHANGED <<reachable, redisOutages>>
    BY <1>1 DEF N!Visit
  <2>2. last \in [User -> Nat] /\ last[u] = 0 /\ \A v \in User : v # u => last[v] = seen[v]
    BY <1>0
  <2>3. /\ \A v \in Worker : NoYounger(session.own[v], last)
        /\ NoYounger(session.zset, last) /\ NoYounger(session.key, last)
    BY <1>0, EntriesStayOld
  <2> HIDE DEF last
  <2>4. NoYounger(N!Entered(session.own[w], u), last) /\ N!Entered(session.own[w], u) \in Entries
    BY <1>0, <2>2, <2>3, EntriesStayOld, EntriesTyped
  <2>5. \A v \in Worker : NoYounger(own[v], last)
    BY <1>0, <2>2, <2>3, <2>4, OnWorkerOld
  <2> HIDE DEF own
  <2>6. session'.own = own /\ session'.zset = session.zset /\ session'.key = session.key
    BY <1>0, <2>1
  <2>7. /\ call'[c].pc = pc /\ call'[c].user = u /\ call'[c].worker = w
        /\ \A b \in Call : b # c => call'[b] = call[b]
    BY <1>0, <2>1
  <2>8. \A b \in Call : IF call'[b].pc = "none" THEN call'[b].user = None
                        ELSE /\ call'[b].user \in User /\ call'[b].worker \in Worker
                             /\ last[call'[b].user] = 0
    BY <2>2, <2>7
  <2>9. redisOutages' = 0 /\ reachable' => \A v \in User : SetKnows(v)'
    <3> SUFFICES ASSUME redisOutages = 0, reachable, NEW v \in User PROVE SetKnows(v)'
      BY <2>1
    <3>1. N!Busy(u)'
      BY <2>7 DEF N!Busy
    <3>2. N!Busy(v) => N!Busy(v)'
      BY <1>1, <1>l, <2>7 DEF N!Busy
    <3>3. v # u => signed'[v] = signed[v] /\ seen'[v] = seen[v]
      BY <1>1, <2>1, <2>2
    <3>4. SetKnows(v)
      OBVIOUS
    <3> QED  BY <2>6, <3>1, <3>2, <3>3, <3>4 DEF SetKnows
  <2> QED  BY <1>t, <2>1, <2>3, <2>5, <2>6, <2>8, <2>9
<1>2. ASSUME NEW c \in Call, N!Record(c)
      PROVE  SessionInv'
  <2>0. PICK u \in User : u = call[c].user
    BY <1>2 DEF N!Record
  <2> DEFINE zset == N!Entered(N!Kept(session.zset), u)
             key == N!Entered(session.key, u)
             p == IF call[c].pc = "record" THEN N!NoCall ELSE [call[c] EXCEPT !.pc = "remove"]
  <2>1. /\ IF reachable THEN session' = [session EXCEPT !.zset = zset, !.key = key]
                        ELSE session' = session
        /\ call' = [call EXCEPT ![c] = p] /\ call[c].pc \in {"record", "record-logout"}
        /\ UNCHANGED <<seen, signed, reachable, redisOutages>>
    BY <1>2, <2>0 DEF N!Record
  <2>2. seen[u] = 0 /\ call[c].user = u
    BY <2>0, <2>1
  <2>3. /\ zset \in Entries /\ key \in Entries
        /\ NoYounger(zset, seen) /\ NoYounger(key, seen)
        /\ \A v \in User : key[v] # None => key[v] < Life
        /\ zset[u] = 0
        /\ \A v \in User : session.zset[v] # None /\ session.zset[v] < Life => zset[v] # None /\ zset[v] <= session.zset[v]
    <3>1. N!Kept(session.zset) \in Entries /\ NoYounger(N!Kept(session.zset), seen)
      BY <1>0, EntriesTyped, EntriesStayOld
    <3>2. zset \in Entries /\ key \in Entries /\ NoYounger(zset, seen) /\ NoYounger(key, seen)
      BY <1>0, <2>2, <3>1, EntriesTyped, EntriesStayOld
    <3>3. \A v \in User : key[v] = IF v = u THEN 0 ELSE session.key[v]
      BY <1>0, EntriesTyped
    <3>4. \A v \in User : zset[v] = IF v = u THEN 0 ELSE N!Kept(session.zset)[v]
      BY <3>1, EntriesTyped
    <3>5. \A v \in User : session.zset[v] # None /\ session.zset[v] < Life => N!Kept(session.zset)[v] = session.zset[v]
      BY <1>0, EntriesTyped
    <3>6. \A v \in User : session.zset[v] # None => session.zset[v] \in Nat
      BY <1>0 DEF Entries
    <3> HIDE DEF zset, key
    <3>7. \A v \in User : key[v] # None => key[v] < Life
      BY <1>l, <3>3
    <3> QED  BY <1>l, <3>2, <3>4, <3>5, <3>6, <3>7
  <2> HIDE DEF zset, key
  <2>4. /\ session'.own = session.own
        /\ IF reachable THEN session'.zset = zset /\ session'.key = key
           ELSE session'.zset = session.zset /\ session'.key = session.key
    BY <1>0, <2>1
  <2>5. /\ \A b \in Call : b # c => call'[b] = call[b]
        /\ call[c].pc = "record" => call'[c].pc = "none" /\ call'[c].user = None
        /\ call[c].pc # "record" => /\ call'[c].pc = "remove" /\ call'[c].user = u
                                    /\ call'[c].worker = call[c].worker
    BY <1>0, <1>c, <2>1, <2>2 DEF N!NoCall, Pending
  <2>6. \A b \in Call : IF call'[b].pc = "none" THEN call'[b].user = None
                        ELSE /\ call'[b].user \in User /\ call'[b].worker \in Worker
                             /\ seen[call'[b].user] = 0
    BY <2>1, <2>2, <2>5
  <2>7. redisOutages' = 0 /\ reachable' => \A v \in User : SetKnows(v)'
    <3> SUFFICES ASSUME redisOutages = 0, reachable, NEW v \in User,
                        signed[v] = "in", seen[v] < Life, ~N!Busy(v)'
                 PROVE  zset[v] # None /\ zset[v] <= seen[v]
      BY <2>1, <2>4 DEF SetKnows
    <3>1. CASE v = u
      BY <1>l, <2>2, <2>3, <3>1
    <3>2. CASE v # u
      <4>1. ~N!Busy(v)
        BY <2>2, <2>5, <3>2 DEF N!Busy
      <4>2. session.zset[v] # None /\ session.zset[v] <= seen[v]
        BY <4>1 DEF SetKnows
      <4>3. session.zset[v] \in Nat /\ seen[v] \in Nat /\ (zset[v] # None => zset[v] \in Nat)
        BY <1>0, <2>3, <4>2 DEF Entries
      <4>4. zset[v] # None /\ zset[v] <= session.zset[v]
        BY <1>l, <2>3, <4>2, <4>3
      <4> QED  BY <4>2, <4>3, <4>4
    <3> QED  BY <3>1, <3>2
  <2> QED  BY <1>t, <2>1, <2>3, <2>4, <2>6, <2>7
<1>3. ASSUME NEW c \in Call, N!Remove(c)
      PROVE  SessionInv'
  <2>0. PICK u \in User, w \in Worker : u = call[c].user /\ w = call[c].worker
    BY <1>3 DEF N!Remove
  <2> DEFINE own == N!OnWorker(w, N!Without(session.own[w], u))
             zset == IF reachable THEN N!Without(session.zset, u) ELSE session.zset
             key == IF reachable THEN N!Without(session.key, u) ELSE session.key
  <2>1. /\ session' = [own |-> own, zset |-> zset, key |-> key]
        /\ signed' = [signed EXCEPT ![u] = "out"] /\ call' = [call EXCEPT ![c] = N!NoCall]
        /\ UNCHANGED <<seen, reachable, redisOutages>>
    BY <1>3, <2>0 DEF N!Remove
  <2>2. /\ NoYounger(N!Without(session.own[w], u), seen) /\ N!Without(session.own[w], u) \in Entries
        /\ NoYounger(zset, seen) /\ NoYounger(key, seen)
    BY <1>0, EntriesTyped, EntriesStayOld
  <2>3. \A v \in Worker : NoYounger(own[v], seen)
    BY <1>0, <2>2, OnWorkerOld
  <2>4. \A v \in User : /\ key[v] = session.key[v] \/ key[v] = None
                        /\ v # u => zset[v] = session.zset[v]
    <3>1. \A e \in Entries, v \in User : N!Without(e, u)[v] = IF v = u THEN None ELSE e[v]
      BY EntriesTyped
    <3>2. /\ \A v \in User : N!Without(session.key, u)[v] = IF v = u THEN None ELSE session.key[v]
          /\ \A v \in User : N!Without(session.zset, u)[v] = IF v = u THEN None ELSE session.zset[v]
      BY <1>0, <3>1
    <3> QED  BY <3>2
  <2> HIDE DEF own, zset, key
  <2>5. session'.own = own /\ session'.zset = zset /\ session'.key = key
    BY <2>1
  <2>6. /\ call'[c].pc = "none" /\ call'[c].user = None
        /\ \A b \in Call : b # c => call'[b] = call[b]
    BY <1>0, <2>1 DEF N!NoCall
  <2>7. redisOutages' = 0 /\ reachable' => \A v \in User : SetKnows(v)'
    <3> SUFFICES ASSUME redisOutages = 0, reachable, NEW v \in User,
                        signed'[v] = "in", seen[v] < Life, ~N!Busy(v)'
                 PROVE  zset[v] # None /\ zset[v] <= seen[v]
      BY <2>1, <2>5 DEF SetKnows
    <3>1. v # u /\ signed[v] = "in"
      BY <1>0, <2>1
    <3>2. ~N!Busy(v)
      BY <2>0, <2>6, <3>1 DEF N!Busy
    <3> QED  BY <2>4, <3>1, <3>2 DEF SetKnows
  <2> QED  BY <1>t, <2>1, <2>2, <2>3, <2>4, <2>5, <2>6, <2>7
<1>4. ASSUME NEW w \in Worker, N!Count(w)
      PROVE  SessionInv'
  <2> DEFINE zset == IF reachable THEN N!Kept(session.zset) ELSE session.zset
             inRedis == reachable /\ N!Some(zset) \cup N!Some(session.key) # {}
             own == IF inRedis THEN session.own
                    ELSE N!OnWorker(w, N!KeptOwn(session.own[w]))
  <2>0. session' = [session EXCEPT !.zset = zset, !.own = own]
    BY <1>4 DEF N!Count
  <2> HIDE DEF inRedis
  <2>1. /\ own \in {session.own, N!OnWorker(w, N!KeptOwn(session.own[w]))}
        /\ zset \in {session.zset, N!Kept(session.zset)}
    OBVIOUS
  <2> HIDE DEF own, zset
  <2>2. UNCHANGED <<call, seen, signed, reachable, redisOutages>>
    BY <1>4 DEF N!Count
  <2>3. session'.own = own /\ session'.zset = zset /\ session'.key = session.key
    BY <1>0, <2>0
  <2>4. N!KeptOwn(session.own[w]) \in Entries /\ NoYounger(N!KeptOwn(session.own[w]), seen)
    BY <1>0, EntriesTyped, EntriesStayOld
  <2>5. \A v \in Worker : NoYounger(own[v], seen)
    <3>1. \A v \in Worker : NoYounger(N!OnWorker(w, N!KeptOwn(session.own[w]))[v], seen)
      BY <1>0, <2>4, OnWorkerOld
    <3> QED  BY <2>1, <3>1
  <2>6. NoYounger(zset, seen)
    BY <1>0, <2>1, EntriesStayOld
  <2>7. \A v \in User : session.zset[v] # None /\ session.zset[v] < Life => zset[v] = session.zset[v]
    BY <1>0, <2>1, EntriesTyped
  <2>8. redisOutages' = 0 /\ reachable' => \A v \in User : SetKnows(v)'
    <3> SUFFICES ASSUME redisOutages = 0, reachable, NEW v \in User,
                        signed[v] = "in", seen[v] < Life, ~N!Busy(v)
                 PROVE  zset[v] # None /\ zset[v] <= seen[v]
      BY <2>2, <2>3 DEF SetKnows, N!Busy
    <3>1. session.zset[v] # None /\ session.zset[v] <= seen[v]
      BY DEF SetKnows
    <3>2. session.zset[v] \in Nat /\ seen[v] \in Nat
      BY <1>0, <3>1 DEF Entries
    <3> QED  BY <1>l, <2>7, <3>1, <3>2
  <2> QED  BY <1>t, <2>2, <2>3, <2>5, <2>6, <2>8
<1>5. CASE N!Tick
  <2>1. /\ session' = [own |-> [w \in Worker |-> N!GrowAll(session.own[w])],
                       zset |-> N!GrowAll(session.zset), key |-> N!Kept(N!GrowAll(session.key))]
        /\ seen' = N!GrowAll(seen) /\ UNCHANGED <<call, signed, reachable, redisOutages>>
        /\ \A c \in Call : call[c].pc = "none"
    BY <1>5 DEF N!Tick
  <2>2. seen' \in [User -> Nat] /\ N!GrowAll(session.key) \in Entries
    BY <1>0, <1>t, EntriesTyped DEF SessionTypeOK
  <2>3. /\ \A w \in Worker : NoYounger(N!GrowAll(session.own[w]), seen')
        /\ NoYounger(N!GrowAll(session.zset), seen')
        /\ NoYounger(N!GrowAll(session.key), seen')
    BY <1>0, <2>1, EntriesStayOld
  <2>4. NoYounger(N!Kept(N!GrowAll(session.key)), seen')
    BY <2>2, <2>3, EntriesStayOld
  <2>5. \A u \in User : N!Kept(N!GrowAll(session.key))[u] # None => N!Kept(N!GrowAll(session.key))[u] < Life
    BY <2>2, EntriesTyped
  <2>6. /\ \A w \in Worker : session'.own[w] = N!GrowAll(session.own[w])
        /\ session'.zset = N!GrowAll(session.zset)
        /\ session'.key = N!Kept(N!GrowAll(session.key))
    BY <2>1
  <2>7. redisOutages' = 0 /\ reachable' => \A v \in User : SetKnows(v)'
    <3> SUFFICES ASSUME redisOutages = 0, reachable, NEW v \in User,
                        signed[v] = "in", N!Grow(seen[v]) < Life, ~N!Busy(v)
                 PROVE  N!Grow(session.zset[v]) # None /\ N!Grow(session.zset[v]) <= N!Grow(seen[v])
      BY <2>1, <2>6 DEF SetKnows, N!Busy, N!GrowAll
    <3>1. seen[v] \in Nat /\ seen[v] < Life
      <4>1. seen[v] \in Nat /\ seen[v] <= N!Grow(seen[v]) /\ N!Grow(seen[v]) \in Nat
        BY <1>0, AgesGrow
      <4> QED  BY <1>l, <4>1
    <3>2. session.zset[v] # None /\ session.zset[v] <= seen[v]
      BY <3>1 DEF SetKnows
    <3>3. session.zset[v] \in Nat
      BY <1>0, <3>2 DEF Entries
    <3>4. N!Grow(session.zset[v]) \in Nat
      BY <3>3, AgesGrow
    <3> QED  BY <1>l, <3>1, <3>2, <3>3, <3>4, AgesGrow
  <2> QED  BY <1>t, <2>1, <2>3, <2>4, <2>5, <2>6, <2>7
<1>6. CASE N!RedisChanges
  <2>1. /\ UNCHANGED <<session, call, seen, signed>> /\ redisOutages' = redisOutages + 1
    BY <1>6 DEF N!RedisChanges
  <2>2. redisOutages' # 0
    BY <1>0, <2>1
  <2> QED  BY <1>t, <2>1, <2>2
<1>7. ASSUME NEW c \in Call, NEW u \in User, NEW w \in Worker,
             N!Login(c, u, w) \/ N!Authenticate(c, u, w) \/ N!Logout(c, u, w)
      PROVE  SessionInv'
  <2>1. N!Visit(c, u, w, "record") \/ N!Visit(c, u, w, "record-logout")
    BY <1>7 DEF N!Login, N!Authenticate, N!Logout
  <2>2. \A v \in User : v # u => signed'[v] = signed[v]
    BY <1>0, <1>7 DEF N!Login, N!Authenticate, N!Logout
  <2>3. call[c].pc = "none"
    BY <2>1 DEF N!Visit
  <2> QED  BY <1>1, <2>1, <2>2, <2>3
<1>8. CASE UNCHANGED N!vars
  <2>1. UNCHANGED <<session, call, seen, signed, reachable, redisOutages>>
    BY <1>8 DEF N!vars
  <2>2. \A v \in User : SetKnows(v)' <=> SetKnows(v)
    BY <2>1 DEF SetKnows, N!Busy
  <2> QED  BY <1>t, <2>1, <2>2
<1> QED  BY <1>2, <1>3, <1>4, <1>5, <1>6, <1>7, <1>8 DEF N!Next

\* So it is in every state of the part.
LEMMA SessionsAlways == Spec => [](part = "sessions" => SessionInv)
<1> DEFINE Inv == part = "sessions" => SessionInv
<1>1. Init => Inv
  <2> SUFFICES ASSUME N!Init PROVE SessionInv
    BY DEF Init
  <2>1. Life + 1 \in Nat
    BY BoundsAssumption DEF N!SessionAssumption
  <2>2. SessionTypeOK
    BY <2>1 DEF N!Init, SessionTypeOK, N!Nobody, N!NoCall, Entries, Pending
  <2>3. /\ \A w \in Worker, u \in User : session.own[w][u] = None
        /\ \A u \in User : session.zset[u] = None /\ session.key[u] = None /\ signed[u] = "never"
        /\ \A c \in Call : call[c].pc = "none" /\ call[c].user = None
    BY DEF N!Init, N!Nobody, N!NoCall
  <2> QED  BY <2>2, <2>3 DEF SessionInv, NoYounger, SetKnows
<1>2. Inv /\ [Next]_vars => Inv'
  BY Parts, SessionStep, BoundsAssumption
<1> QED  BY <1>1, <1>2, PTL DEF Spec

\* For any users and requests: whichever store answers, whatever Redis lost
\* and whoever logged out on another worker, a user is counted only within the
\* life of a token after the last request (get_active_sessions_count).
THEOREM OnlyRecentUsersAlways == Spec => []OnlyRecentUsers
<1>1. (part = "sessions" => SessionInv) => OnlyRecentUsers
  <2> SUFFICES ASSUME SessionInv, NEW w \in Worker, NEW u \in N!Counted(w)
               PROVE  seen[u] <= Life
    BY DEF OnlyRecentUsers, N!OnlyRecentUsers
  <2>1. /\ session.own[w] \in Entries /\ session.zset \in Entries /\ session.key \in Entries
        /\ seen \in [User -> Nat] /\ Life \in Nat
    BY BoundsAssumption DEF SessionInv, SessionTypeOK, N!SessionAssumption
  <2>2. u \in User
    BY DEF N!Counted, N!Some
  <2>3. CASE N!Kept(session.zset)[u] # None
    <3>1. session.zset[u] # None /\ session.zset[u] \in Nat /\ session.zset[u] < Life
      BY <2>1, <2>2, <2>3, EntriesTyped, BoundsAssumption DEF Entries
    <3> QED  BY <2>1, <2>2, <3>1 DEF SessionInv, NoYounger
  <2>4. CASE session.key[u] # None
    <3>1. session.key[u] \in Nat /\ session.key[u] < Life
      BY <2>1, <2>2, <2>4 DEF Entries, SessionInv
    <3> QED  BY <2>1, <2>2, <2>4, <3>1 DEF SessionInv, NoYounger
  <2>5. CASE N!KeptOwn(session.own[w])[u] # None
    <3>1. session.own[w][u] # None /\ session.own[w][u] \in Nat /\ session.own[w][u] <= Life
      BY <2>1, <2>2, <2>5, EntriesTyped, BoundsAssumption DEF Entries
    <3> QED  BY <2>1, <2>2, <3>1 DEF SessionInv, NoYounger
  <2> QED  BY <2>3, <2>4, <2>5 DEF N!Counted, N!Some
<1> QED  BY <1>1, SessionsAlways, PTL

\* And while Redis was there all the time, a user who is signed in, was seen
\* within the life of a token and has no request under way is counted on every
\* worker, whatever logout the login overtook.
THEOREM SignedInIsCountedAlways == Spec => []SignedInIsCounted
<1>1. (part = "sessions" => SessionInv) => SignedInIsCounted
  <2> SUFFICES ASSUME SessionInv, redisOutages = 0, reachable, NEW w \in Worker, NEW u \in User,
                      signed[u] = "in", seen[u] < Life, ~N!Busy(u)
               PROVE  u \in N!Counted(w)
    BY DEF SignedInIsCounted, N!SignedInIsCounted
  <2>1. session.zset \in Entries /\ seen \in [User -> Nat] /\ Life \in Nat
    BY BoundsAssumption DEF SessionInv, SessionTypeOK, N!SessionAssumption
  <2>2. session.zset[u] # None /\ session.zset[u] <= seen[u] /\ session.zset[u] \in Nat
    BY <2>1 DEF SessionInv, SetKnows, Entries
  <2>3. session.zset[u] < Life
    BY <2>1, <2>2
  <2>4. u \in N!Some(N!Kept(session.zset))
    BY <2>1, <2>2, <2>3, EntriesTyped, BoundsAssumption DEF N!Some
  <2> QED  BY <2>4 DEF N!Counted
<1> QED  BY <1>1, SessionsAlways, PTL
=============================================================================
