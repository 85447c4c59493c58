SPECIFICATION MCSpec
CONSTANTS
    Proc = {p1, p2}
    Turn = {t1, t2, t3}
    None = None
    MaxFaults = 1
    MaxDeletions = 1
SYMMETRY Symmetry
CHECK_DEADLOCK FALSE
INVARIANTS TypeOK RemembersEveryTurn TiersAgree
PROPERTY CleanTurnHeals
