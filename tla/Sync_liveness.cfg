SPECIFICATION SyncFairSpec
CONSTANTS
    Page = {p1}
    Doc = {d1, d2}
    Task = {t1, t2}
    Run = {n1, n2}
    Request = {}
    StableIds = TRUE
    Editable = {}
    Ops = {}
    MaxFaults = 0
    Content = {c1}
    Acl = {a1}
    None = None
PROPERTIES JobStopsRunning RegisteredDocsSettle
