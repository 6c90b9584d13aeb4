\* Two logins, an account page and the first-run setup; buckets lapse, are cleared,
\* replaced and pruned while attempts are under way, and one hash runs at a time.
SPECIFICATION Spec
CONSTANTS
    LoginKeys = {k1}
    CodeKeys = {c1}
    Logins = {l1, l2}
    Pages = {p1}
    Setups = {s1}
    Callers = {l1, l2, s1}
    maxConcurrentHashes = 1
    Max = 1
    Period = 1
    MaxBuckets = 1
    MaxTime = 3
INVARIANTS Ceiling BusyIsNoStrike HashesBounded
PROPERTIES BlockEnds AttemptsEnd
CHECK_DEADLOCK FALSE
