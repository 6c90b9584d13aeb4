\* The environment says one day, older rows 0 or a value at which time wraps; forms
\* are saved, blank or out of range, during passes; a read or a statement fails
\* and the process dies once.
SPECIFICATION LiveSpec
CONSTANTS
    Posted = {2}
    Legacy = {0, 3}
    EnvRetention = 1
    EnvAudit = 0
    MaxRetentionDays = 1
    Wrap = 2
    Forms = {f1}
    MaxTime = 2
    MaxFaults = 1
    MaxCrashes = 1
PROPERTIES NoEarlyPrune EventuallyPruned
CHECK_DEADLOCK FALSE
