\* A database of the old release, the server and a backup, two kills.
SPECIFICATION Spec
CONSTANTS
    Server = server
    Backups = {backup}
    OrgIds = {0, 1}
    Endpoints = {"npm", "git"}
    OldRows = {"git"}
    MaxCrashes = 2
INVARIANT HistoryKept
CHECK_DEADLOCK FALSE
