SPECIFICATION SyncSpec
CONSTANTS
    Page = {p1, p2}
    Doc = {d1, d2}
    Task = {t1, t2, t3}
    Run = {n1, n2}
    Request = {r1}
    StableIds = TRUE
    Editable = {p1}
    Ops = {"delete"}
    MaxFaults = 1
    Content = {c1, c2}
    Acl = {a1}
    None = None
SYMMETRY Symmetry
ACTION_CONSTRAINT SerialRuns
INVARIANTS SyncTypeOK SkipIsSound
