SPECIFICATION Spec
CONSTANTS
    r1 = r1
    r2 = r2
    r3 = r3
    p1 = p1
    p2 = p2
    NoReq = NoReq
    NoSub = NoSub
    Requests = {r1, r2}
    Payments = {p1, p2}
    Renewing = {p1}
    Ops = {"initiate", "verify", "expire"}
    Duration = 2
    GrantDays = 1
    MaxTime = 3
    MaxGrants = 0
    MaxOverwrites = 1
SYMMETRY RequestSymmetry
PROPERTY PaidUntilEnd
CHECK_DEADLOCK FALSE
