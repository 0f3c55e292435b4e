SPECIFICATION Spec
CONSTANTS
    r1 = r1
    r2 = r2
    r3 = r3
    p1 = p1
    p2 = p2
    NoReq = NoReq
    NoSub = NoSub
    Requests = {r1, r2}
    Payments = {p1}
    Renewing = {p1}
    Ops = {"initiate", "verify", "reverse", "reconcile", "grant", "revoke", "cancel", "abort"}
    Duration = 2
    GrantDays = 1
    MaxTime = 4
    MaxGrants = 2
    MaxOverwrites = 1
SYMMETRY RequestSymmetry
INVARIANT CoveredIsPremium
CHECK_DEADLOCK FALSE
