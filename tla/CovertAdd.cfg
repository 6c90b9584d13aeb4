\* Two managers of one organization, and nobody on /admin/users.
SPECIFICATION Spec
CONSTANTS
    Users = {root, ann, bob}
    Admins = {root}
    Founder = root
    Orgs = {dflt}
    DefaultOrg = dflt
    Tokens = {}
    Requests = {q1, q2}
    FormRoles = {"owner", "admin", "member"}
    OperatorEdits = FALSE
PROPERTY SetRoleNeverAdds
SYMMETRY Symmetric
