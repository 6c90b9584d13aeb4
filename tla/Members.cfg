\* Two goroutines for one or two organizations and their tokens, while instance admins
\* edit memberships on /admin/users.
SPECIFICATION Spec
CONSTANTS
    Users = {root, ann, bob}
    Admins = {root}
    Founder = root
    Orgs = {dflt, team}
    DefaultOrg = dflt
    Tokens = {k1}
    Requests = {q1, q2}
    FormRoles = {"owner", "admin"}
    OperatorEdits = TRUE
INVARIANTS ChecksHold
PROPERTIES LastOwnerKept GrantsBacked TokensConfined OwnershipImplemented
CONSTRAINT Explored
SYMMETRY Symmetric
