SPECIFICATION Spec
CONSTANTS
    r1 = r1
    r2 = r2
    r3 = r3
    math = math
    english = english
    full = full
    single = single
    challenge = challenge
    other = other
    Requests = {r1, r2}
    Subjects = {math, english}
    Scopes = {full, challenge, other}
    SubjectsOf <- ScopeSubjects
    Daily = {challenge, other}
    Full = {full}
    Longest = {full}
    Longer = {}
    FreeCredits = 4
    PremiumCredits = 3
    MaxRetakes = 2
    FreeRetakes = 1
    DailyTries = 2
    Ops = {"start", "daily", "submit", "retake", "abandon", "open", "premium", "reset"}
    MaxExams = 2
    MaxChanges = 1
SYMMETRY RequestSymmetry
INVARIANT DailyOnce
CHECK_DEADLOCK FALSE
