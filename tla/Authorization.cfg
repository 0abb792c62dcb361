SPECIFICATION Spec
CONSTANTS
    User = {admin, clerk}
    Admin = admin
    Code = {"USERS_READ", "ROLES_READ"}
    Gen = {0, 1}
    RoleId = {r1, r2}
    RoleName = {"SUPER_ADMIN", "CLERK"}
    SuperAdmin = "SUPER_ADMIN"
    Key = {"users.find", "roles.find"}
    SeedPermissions = {"USERS_READ"}
    SeedRules <- MCSeedRules
    MaxEdits = 4
    None = None
SYMMETRY MCSymmetry
INVARIANTS
    TypeOK
    GuardsFollowTables
    NoBorrowedAccess
    SeedRestoresAdmin
