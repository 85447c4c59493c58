SPECIFICATION SyncFairSpec
CONSTANTS
    Page = {p1}
    Doc = {d1}
    Task = {t1}
    Run = {n1, n2}
    Request = {r1}
    StableIds = TRUE
    Editable = {}
    Ops = {"delete"}
    MaxFaults = 0
    Content = {c1}
    Acl = {a1}
    None = None
PROPERTY JobStopsRunning
