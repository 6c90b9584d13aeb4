\* Two account pages at a time.
SPECIFICATION Spec
CONSTANTS
    Secrets = {s1, s2}
    Logins = {l1}
    Visits = {v1, v2}
    Skew = 1
    Keep = 3
    SessionTTL = 2
    MaxStall = 1
    MaxSessions = 1
    MaxTime = 1
PROPERTY StripNeedsProof
SYMMETRY Symmetric
CHECK_DEADLOCK FALSE
