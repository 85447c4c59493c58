SPECIFICATION Spec
CONSTANTS
    Doc = {d1, d2}
    Task = {t1, t2}
    Request = {r1, r2, r3, r4}
    Content = {c1}
    Acl = {a1}
    None = None
    Ops = {"upload", "delete", "update", "reindex"}
    MaxFaults = 1
SYMMETRY Symmetry
INVARIANTS TypeOK IndexedIsBacked RowsHavePoints FailedIsClean
PROPERTIES OutcomeIsFinal StagedFileKept
