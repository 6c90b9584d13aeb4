\* Two posts in flight under a scoped and the shared key, a revocation, a crash and
\* the janitor; the same repository in two spellings.  Three runs are stored, so that
\* two earlier ones, in or out of order, stand before the last.
SPECIFICATION Spec
CONSTANTS
    OrgIds = {0, 1}
    Keys = {"scoped", "shared"}
    Tokens = {"scoped"}
    KeyOrg <- OrgOf
    KeyScope <- ScopeOf
    AnyRepo = "*"
    Names = {"acme/site", "Acme/Site"}
    Lower <- LowerOf
    Fold <- FoldOf
    Endpoints = {"npm"}
    Posts = {p1, p2}
    Windows = {1}
    MaxTime = 3
    MaxRuns = 3
INVARIANTS HistoryBacked CoversInOrder
PROPERTIES NoMissedDrift DriftExact
CONSTRAINT Explored
SYMMETRY Symmetric
CHECK_DEADLOCK FALSE
