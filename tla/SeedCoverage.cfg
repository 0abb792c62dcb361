SPECIFICATION Spec
CONSTANTS
    User = {admin}
    Admin = admin
    RoleId = {r1}
    RoleName = {"SUPER_ADMIN"}
    SuperAdmin = "SUPER_ADMIN"
    MaxEdits = 0
    None = None
INVARIANT SeedOpensEveryRoute
