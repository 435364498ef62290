CONSTANTS
    Workers = {w1, w2}
    Emails = {e1}
    Ips = {i1, i2, i3}
    Passwords = {p1, p2}
    Schemes <- MCSchemes
    KeyOf <- MCKeyOf
    Threshold = 2
    Duration = 3
    Window = 3
    LockCap = 2
    RateLimit = 1
    RateWindow = 1
    RateCap = 1
    Skew = 1
    Nothing = Nothing
    MaxTime = 3
    MaxRequests = 4
SYMMETRY Symmetry
SPECIFICATION MCSpec
CONSTRAINT FewAboutBcrypt
INVARIANTS TypeOK GuessesBounded RateBounded PasswordKept
PROPERTIES LocksOutliveJunk
CHECK_DEADLOCK FALSE
