SPECIFICATION Spec
CONSTANTS
    r1 = r1
    r2 = r2
    r3 = r3
    p = p
    q = q
    Requests = {r1, r2}
    Payloads = {p}
    NoRecord = NoRecord
    Faults = {"crash"}
    MaxEffects = 2
    MaxEpoch = 1
SYMMETRY RequestSymmetry
INVARIANT BusyMeansRunning
