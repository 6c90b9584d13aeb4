\* GitHub comes from the environment, OIDC from the settings or, after a restart, from
\* the environment too.  Two saves at a time, an issuer that is refused and silent, a
\* crash and a second start; two browsers, two logins, and one member who may leave.
SPECIFICATION SSOSpec
CONSTANTS
    Ids = {"good", "dead"}
    Blocked = {"dead"}
    Dead = {"dead"}
    Secrets = {"s"}
    Scopes = {"acme"}
    Env <- EnvRows
    Environments = {{"github"}, {"github", "oidc"}}
    BaseURLSet = TRUE
    Saves = {q1, q2}
    MaxStarts = 2
    MaxFaults = 0
    Browsers = {"b1", "b2"}
    Callbacks = {c1}
    Enrolled <- OneMember
    MaxLogins = 2
INVARIANTS LiveIsStored LastSaveStands StartsAgain OwnBrowser ListHolds
PROPERTY SavesAtomic
SYMMETRY Symmetric
CHECK_DEADLOCK FALSE
