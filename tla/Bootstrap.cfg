\* A fresh database, or one with an administrator but no bootstrapped flag; two
\* goroutines, a crash, a store call that fails, and two identities that suggest
\* the same login.  The operator retries.
SPECIFICATION LiveSpec
CONSTANTS
    Logins = {"ann", "ann-gh1", "ann-2f0c"}
    Subjects = {"github:1", "oidc:2"}
    Preferred <- SameLogin
    Suffixed <- OwnSuffix
    Requests = {q1, q2}
    ConfiguredToken = FALSE
    LegacyDatabase = TRUE
    MaxStarts = 2
    MaxFaults = 1
INVARIANTS OneAdmin AdminFirst NeverLockedOut SessionsMatchAccounts
PROPERTIES AdminClaimed EventuallyAdmin
CHECK_DEADLOCK FALSE
