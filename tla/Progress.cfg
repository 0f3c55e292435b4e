SPECIFICATION Spec
CONSTANTS
    w1 = w1
    r1 = r1
    q1 = q1
    Users = {1, 2, 3}
    Workers = {w1, w2}
    Resets = {r1, r2}
    Readers = {q1}
    MaxAttempts_ = 2
    TieBuffer = 1
    MaxPoints = 2
    MaxEvents = 3
    MaxWeek = 2
    MaxOutages = 2
INVARIANTS PointsAccounted ReadsAgree
PROPERTY BoardConverges
CHECK_DEADLOCK FALSE
