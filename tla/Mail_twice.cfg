SPECIFICATION Spec
CONSTANTS
    Scenes = {"broadcasts"}
    MaxCalls = 3
    e1 = e1
    e2 = e2
    c1 = c1
    c2 = c2
    r1 = r1
    r2 = r2
    p1 = p1
    p2 = p2
    x1 = x1
    x2 = x2
    x3 = x3
    q1 = q1
    q2 = q2
    i1 = i1
    i2 = i2
    i3 = i3
    Exams = {e1, e2}
    Milestones = {2, 3}
    FirstFreezer = 2
    FreezerInterval = 1
    CollabTarget = 2
    MaxDay = 4
    MaxCollabs = 2
    Clients = {c1, c2}
    Categories = {"STREAK", "EXAM"}
    Occasions = {1}
    Announcements = {n1}
    Sockets = {s1}
    Processes = {p1, p2}
    Conns = {1, 2}
    Listeners <- ListenersOf
    Events = {1, 2}
    MaxQueue = 2
    TooSlow = 3
    MaxPosts = 5
    People = {1}
    Runs = {r1, r2}
    Batch = 1
    MinAge = 1
    MaxNudges = 1
    NudgeCooldown = 1
    PromptCooldown = 1
    Thresholds = {1, 2}
    WarningDays <- TwoWarnings
    MaxDate = 3
    MaxRows = 2
    MaxStarts = 3
    MaxMishaps = 1
    MaxExams = 1
    MaxChanges = 2
    Editors = {e1, e2}
    Questions = {q1, q2}
    Explaining = {q2}
    Subjects = {1, 2}
    Images = {x1, x2, x3}
    PoolCap = 1
    FeatureCap = 1
    MaxBreaks = 1
    Savers = {b1, b2}
    Items = {i1, i2, i3}
    Flagged <- FlaggedTogether
    FreeMax = 1
    PremiumMax = 2
    Lifetime = 1
    SweepBatch = 1
    SweepBatches = 2
    LastDay = 2
    Reviewers = {a1, a2}
    MaxFiled = 2
    MaxDecisions = 4
INVARIANT ReceivedOnce
CHECK_DEADLOCK FALSE
