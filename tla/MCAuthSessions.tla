--------------------------- MODULE MCAuthSessions ---------------------------
(* Model checking of AuthSessions: calls are interchangeable, and so are   *)
(* the users, who all start with the same account.                         *)
EXTENDS AuthSessions, TLC

Symmetry == Permutations(Requests) \cup Permutations(Users)

(* The state without the history variables, which no action reads and the  *)
(* properties of the runs that use it do not mention.                      *)
WithoutHistory == <<now, account, sessions, revoked, call>>
=============================================================================
