SPECIFICATION Spec
CONSTANTS
    Users = {u1}
    Passwords = {p1}
    Requests = {r1, r2}
    AccessLifetime = 1
    RefreshLifetime = 2
    MaxSessions = 3
    MaxTime = 2
    None = None
SYMMETRY Symmetry
VIEW WithoutHistory
INVARIANTS FamilyIsChain
PROPERTIES DeadFamilyStaysDead
