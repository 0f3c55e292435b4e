SPECIFICATION Spec
CONSTANTS
    h = h
    g = g
    x = x
    r1 = r1
    r2 = r2
    r3 = r3
    Users = {h, g, x}
    Host = h
    Requests = {r1, r2}
    Scores = {0}
    Names = {"n0", "n1"}
    NoReq = NoReq
    Ops = {"join", "start", "leave", "cancel", "rename"}
    CacheUp = TRUE
SYMMETRY RequestSymmetry
INVARIANT SeatsKept
PROPERTY NameFrozen
PROPERTY ImplementsContract
