------------------------------- MODULE MCRbac -------------------------------
(* Model checking of Rbac: users and calls are interchangeable.            *)
EXTENDS Rbac, TLC

Symmetry == Permutations(Users) \cup Permutations(Requests)
=============================================================================
