SPECIFICATION Spec
CONSTANTS
    Users = {u1, u2, u3}
    Roles = {"user", "security_admin", "super_admin"}
    Requests = {r1, r2}
    None = None
SYMMETRY Symmetry
INVARIANTS RoleTablesAgree
PROPERTIES ManagerRemains
