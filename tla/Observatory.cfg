SPECIFICATION Spec
CONSTANTS
    Worker = {w1, w2}
    None = None
    Request = {r1, r2}
    Lease = 2
    MaxFaults = 2
    Interval = 2
    LeaseTicks = 6
    LatestTicks = 6
    MaxElection = 2
    MaxProbe = 1
    Event = {1, 2}
    Kind <- TwoKinds
    Reader = {g1}
    Window = {"7d"}
    MaxSamples = 1
    SnapshotTicks = 2
    MaxAggregation = 1
    MaxOutages = 1
    MaxResets = 1
    Buckets = 2
    MaxRequests = 3
    MaxHistogramResets = 1
    MaxLinkFailures = 2
    User = {u1}
    Call = {c1, c2}
    Life = 2
    MaxRedisOutages = 1
INVARIANT CountIsExact
INVARIANT OneSampler
INVARIANT FreshHardware
 
INVARIANT AggregatesAgree
 
INVARIANT OnlyRecentUsers
 
INVARIANT LeasedOnly
INVARIANT TypeOK
CHECK_DEADLOCK FALSE
