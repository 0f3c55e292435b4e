SPECIFICATION Spec
CONSTANTS
    h = h
    g = g
    x = x
    r1 = r1
    r2 = r2
    r3 = r3
    Users = {h, g}
    Host = h
    Requests = {r1, r2}
    Scores = {0}
    Names = {"n0"}
    NoReq = NoReq
    Ops = {"join", "start", "cancel", "submit"}
    CacheUp = TRUE
SYMMETRY RequestSymmetry
PROPERTY CancelledIsFinal
