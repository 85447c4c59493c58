SPECIFICATION Spec
CONSTANTS
    Doc = {d1}
    Task = {t1}
    Request = {r1, r2}
    Content = {c1}
    Acl = {a1}
    None = None
    Ops = {"upload", "delete"}
    MaxFaults = 0
INVARIANT NoOrphanPoints
