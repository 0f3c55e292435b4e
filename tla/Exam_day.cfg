SPECIFICATION Spec
CONSTANTS
    r1 = r1
    r2 = r2
    r3 = r3
    math = math
    english = english
    full = full
    single = single
    challenge = challenge
    other = other
    Requests = {r1, r2}
    Subjects = {math, english}
    Scopes = {full, challenge}
    SubjectsOf <- ScopeSubjects
    Daily = {challenge}
    Full = {full}
    Longest = {}
    Longer = {full}
    FreeCredits = 4
    PremiumCredits = 3
    MaxRetakes = 2
    FreeRetakes = 1
    DailyTries = 2
    Ops = {"start", "daily", "submit", "retake", "abandon", "open", "premium", "reset", "fail"}
    MaxExams = 2
    MaxChanges = 1
SYMMETRY RequestSymmetry
INVARIANT AttemptsNumbered
INVARIANT CreditsMatchExams
INVARIANT LimitsExcused
PROPERTY FreshExamsKept
CHECK_DEADLOCK FALSE
