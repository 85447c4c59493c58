SPECIFICATION QuietSpec
CONSTANTS
    Doc = {d1, d2}
    Task = {t1, t2}
    Request = {r1, r2, r3, r4}
    Content = {c1}
    Acl = {a1, a2}
    None = None
    Ops = {"upload", "delete", "update", "reindex"}
    MaxFaults = 0
SYMMETRY Symmetry
INVARIANTS MetadataAgrees NoPartialWrite
PROPERTY ImplementsIndex
