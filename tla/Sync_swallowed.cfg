SPECIFICATION SyncSpec
CONSTANTS
    Page = {p1}
    Doc = {d1}
    Task = {t1, t2}
    Run = {n1, n2}
    Request = {}
    StableIds = TRUE
    Editable = {}
    Ops = {}
    MaxFaults = 1
    Content = {c1}
    Acl = {a1}
    None = None
ACTION_CONSTRAINT Serial
PROPERTY PurgeOnlyVanished
