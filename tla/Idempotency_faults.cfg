SPECIFICATION FairSpec
CONSTANTS
    r1 = r1
    r2 = r2
    r3 = r3
    p = p
    q = q
    Requests = {r1, r2}
    Payloads = {p, q}
    NoRecord = NoRecord
    Faults = {"store", "late", "crash"}
    MaxEffects = 3
    MaxEpoch = 2
PROPERTY RequestsEnd
INVARIANT EffectsExcused
INVARIANT AnswersTrue
PROPERTY SettledStays
