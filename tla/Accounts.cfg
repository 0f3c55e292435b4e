SPECIFICATION Spec
CONSTANTS
    d1 = d1
    d2 = d2
    d3 = d3
    a = a
    b = b
    s1 = s1
    s2 = s2
    Callers = {c1, c2}
    Devices = {d1, d2, d3}
    NoDevice = none
    Alike <- MCAlike
    Bound <- MCBound
    MaxDevices = 2
    MaxOtps = 2
    MaxAttempts = 2
    MaxAccounts = 2
    MaxSessions = 3
    MaxVersion = 2
    MaxCodes = 2
    MaxPasswords = 2
    MaxPolicy = 2
    People = {a, b}
    Tabs = {s1, s2}
    Owner <- MCOwner
    Clerks = {c1, c2}
    MaxFails = 2
    MaxOtpSent = 2
INVARIANTS PremiumBounded OldPasswordsOut CodesUsedOnce GuessesBounded SuperadminLeft
PROPERTY RefreshConverges
CHECK_DEADLOCK FALSE
