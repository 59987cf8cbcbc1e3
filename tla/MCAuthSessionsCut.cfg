SPECIFICATION Spec
CONSTANTS
    Users = {u1, u2}
    Passwords = {p1, p2}
    Requests = {r1, r2}
    AccessLifetime = 1
    RefreshLifetime = 2
    MaxSessions = 2
    MaxTime = 0
    None = None
SYMMETRY Symmetry
INVARIANTS EndedMeansDead CutHolds
PROPERTIES OnlyOwnerRevokes
