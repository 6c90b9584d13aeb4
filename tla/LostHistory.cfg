\* Two posts out of order and a cutoff between their timestamps.
SPECIFICATION Spec
CONSTANTS
    OrgIds = {1}
    Keys = {"scoped"}
    Tokens = {"scoped"}
    KeyOrg <- OrgOf
    KeyScope <- ScopeOf
    AnyRepo = "*"
    Names = {"acme/site"}
    Lower <- LowerOf
    Fold <- FoldOf
    Endpoints = {"a"}
    Posts = {p1, p2}
    Windows = {1}
    MaxTime = 3
    MaxRuns = 2
INVARIANT HistoryCovers
CHECK_DEADLOCK FALSE
