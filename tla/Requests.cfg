SPECIFICATION Spec
CONSTANTS
    MaxRetries = 2
    Turns = 4
    Window = 2
    Kept = 2
    Attempts = 3
    Person = {a, b}
    None = None
    Questions = 4
    Proc = {p1, p2}
    Fill = {f1, f2}
    Ttl = 2
    MaxFill = 1
    MaxTime = 8
    Client = {c1, c2, c3}
    Default = Default
    Slug = {Default, OtherSlug}
    Email = {m1, m2}
    Admin = {d1, d2}
    Doc = {e1, e2}
    Label = {la, lb}
    First = la
    Updates = 3
INVARIANT GroundedIsWhole
INVARIANT VerifiedOrRefused
INVARIANT NothingForgotten
INVARIANT NothingBoundFromBefore
INVARIANT CatalogIsRecent
INVARIANT RegisteredIsWhole
 
PROPERTY ImplementsExchange
CHECK_DEADLOCK FALSE
