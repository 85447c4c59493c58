SPECIFICATION FairSpec
CONSTANTS
    Doc = {d1}
    Task = {t1}
    Request = {r1, r2, r3}
    Content = {c1}
    Acl = {a1, a2}
    None = None
    Ops = {"upload", "delete", "update"}
    MaxFaults = 0
PROPERTIES DocumentsSettle 
