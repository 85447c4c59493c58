SPECIFICATION SyncSpec
CONSTANTS
    Page = {p1, p2}
    Doc = {d1, d2, d3}
    Task = {t1, t2, t3}
    Run = {n1, n2}
    Request = {}
    StableIds = TRUE
    Editable = {p1, p2}
    Ops = {}
    MaxFaults = 0
    Content = {c1, c2}
    Acl = {a1}
    None = None
SYMMETRY Symmetry
ACTION_CONSTRAINT Serial
INVARIANT DeletedJobLeavesNothing
PROPERTIES CompletedRunMirrorsSource PurgeOnlyVanished
