\* Two goroutines, each of which may serve a login or an account page: two logins, two
\* pages or one of each race; used codes are forgotten while the clock still runs.
SPECIFICATION Spec
CONSTANTS
    Secrets = {s1, s2}
    Logins = {g1, g2}
    Visits = {g1, g2}
    Skew = 1
    Keep = 2
    SessionTTL = 2
    MaxStall = 0
    MaxSessions = 1
    MaxTime = 3
INVARIANTS NoLockout SessionsExact
PROPERTIES NoReplay
SYMMETRY Symmetric
CHECK_DEADLOCK FALSE
