----------------------------- MODULE Exposition -----------------------------
(***************************************************************************)
(* The histogram of request durations that Prometheus scrapes              *)
(* (observatory/buffer.py).  A request adds one to every bucket its        *)
(* duration falls under and to the count, in the worker's memory and then, *)
(* in one transaction, in Redis.  A scrape reads the count and the buckets *)
(* from Redis one after the other while requests go on being recorded.     *)
(***************************************************************************)
EXTENDS Naturals

CONSTANTS
    Buckets,    \* number of finite buckets, 1 the shortest
    MaxRequests, MaxHistogramResets, MaxLinkFailures

\* Assumed of the constants; an instance states it for the values it gives them.
ExpositionAssumption ==
    /\ Buckets \in Nat \ {0}
    /\ {MaxRequests, MaxHistogramResets, MaxLinkFailures} \subseteq Nat

VARIABLES
    redisBuckets, redisCount,   \* duration:bucket:* and duration:count
    ownBuckets, ownCount,       \* the same in the scraped worker
    scrape,                     \* the scrape in progress
    link,                       \* Redis answers the scraped worker
    requests, histogramResets, linkFailures

vars == <<redisBuckets, redisCount, ownBuckets, ownCount, scrape, link,
          requests, histogramResets, linkFailures>>

Bucket == 1..Buckets
Zero == [b \in Bucket |-> 0]
NoScrape == [next |-> 0, buckets |-> Zero, count |-> 0, reset |-> FALSE]

Init ==
    /\ redisBuckets = Zero /\ redisCount = 0
    /\ ownBuckets = Zero /\ ownCount = 0
    /\ scrape = NoScrape
    /\ link \in BOOLEAN
    /\ requests = 0 /\ histogramResets = 0 /\ linkFailures = 0

-----------------------------------------------------------------------------
\* A duration of class d is at most the bounds of the buckets d and above;
\* class Buckets + 1 is beyond the last.
Add_OneBucket(counts, d) == [b \in Bucket |-> IF b = d THEN counts[b] + 1 ELSE counts[b]]
Add(counts, d) == [b \in Bucket |-> IF b >= d THEN counts[b] + 1 ELSE counts[b]]

\* record_request: here TRUE for a request the scraped worker served.
Observe(d, here) ==
    /\ requests < MaxRequests /\ requests' = requests + 1
    /\ IF here THEN ownBuckets' = Add(ownBuckets, d) /\ ownCount' = ownCount + 1
               ELSE UNCHANGED <<ownBuckets, ownCount>>
    /\ IF link \/ ~here THEN redisBuckets' = Add(redisBuckets, d) /\ redisCount' = redisCount + 1
                        ELSE UNCHANGED <<redisBuckets, redisCount>>
    /\ UNCHANGED <<scrape, link, histogramResets, linkFailures>>

\* The worker's own figures are copied under its lock, then the count is read.
BeginScrape ==
    /\ scrape.next = 0
    /\ scrape' = [next |-> IF link THEN 1 ELSE Buckets + 1, buckets |-> ownBuckets,
                  count |-> IF link THEN redisCount ELSE ownCount, reset |-> FALSE]
    /\ UNCHANGED <<redisBuckets, redisCount, ownBuckets, ownCount, link,
                   requests, histogramResets, linkFailures>>

\* One GET per bucket, in the order of the bounds.  The buckets replace the
\* worker's own only when all were read: got holds those read so far.
ReadBucket_Descending ==
    LET b == Buckets + 1 - scrape.next IN
    /\ scrape.next \in Bucket /\ link
    /\ scrape' = [scrape EXCEPT !.next = @ + 1, !.buckets[b] = redisBuckets[b]]
    /\ UNCHANGED <<redisBuckets, redisCount, ownBuckets, ownCount, link,
                   requests, histogramResets, linkFailures>>
ReadBucket ==
    LET b == scrape.next IN
    /\ scrape.next \in Bucket /\ link
    /\ scrape' = [scrape EXCEPT !.next = b + 1,
                                 !.buckets = [scrape.buckets EXCEPT ![b] = redisBuckets[b]]]
    /\ UNCHANGED <<redisBuckets, redisCount, ownBuckets, ownCount, link,
                   requests, histogramResets, linkFailures>>

\* An error on the way leaves the buckets the worker counted itself, beside
\* the count that was already read from Redis.  (The copy taken at the start
\* is older than ownBuckets here; both are complete.)
ScrapeFails ==
    /\ scrape.next \in Bucket /\ ~link
    /\ scrape' = [scrape EXCEPT !.next = Buckets + 1, !.buckets = ownBuckets]
    /\ UNCHANGED <<redisBuckets, redisCount, ownBuckets, ownCount, link,
                   requests, histogramResets, linkFailures>>

EndScrape ==
    /\ scrape.next = Buckets + 1
    /\ scrape' = NoScrape
    /\ UNCHANGED <<redisBuckets, redisCount, ownBuckets, ownCount, link,
                   requests, histogramResets, linkFailures>>

\* reset on the scraped worker.  It deletes the keys it scans in batches of
\* a hundred, so that the histogram's can be gone one batch before another:
\* here it happens to all at once, and marks the scrape it overlaps.
Reset ==
    /\ histogramResets < MaxHistogramResets /\ histogramResets' = histogramResets + 1
    /\ ownBuckets' = Zero /\ ownCount' = 0
    /\ IF link THEN redisBuckets' = Zero /\ redisCount' = 0
               ELSE UNCHANGED <<redisBuckets, redisCount>>
    /\ scrape' = [scrape EXCEPT !.reset = scrape.reset \/ scrape.next # 0]
    /\ UNCHANGED <<link, requests, linkFailures>>

LinkFails ==
    /\ linkFailures < MaxLinkFailures
    /\ link' = ~link /\ linkFailures' = linkFailures + 1
    /\ UNCHANGED <<redisBuckets, redisCount, ownBuckets, ownCount, scrape,
                   requests, histogramResets>>

Next ==
    \/ \E d \in 1..Buckets + 1, here \in BOOLEAN : Observe(d, here)
    \/ BeginScrape \/ ReadBucket \/ ScrapeFails \/ EndScrape
    \/ Reset \/ LinkFails

-----------------------------------------------------------------------------
\* What a scrape that no reset overlapped exposes is a histogram: a bucket
\* holds at least what the buckets below it hold, whatever was recorded
\* between two reads, because the buckets are read in ascending order, and
\* an error leaves a whole set of the worker's own (_to_prometheus_text).
\* The count, exposed as the bucket "+Inf", is read first and is not covered.
HistogramIsMonotone ==
    scrape.next = Buckets + 1 /\ ~scrape.reset =>
        \A b, c \in Bucket : b <= c => scrape.buckets[b] <= scrape.buckets[c]
=============================================================================
