--------------------------- MODULE MCHttpSession ----------------------------
(* Model checking of HttpSession: sessions are interchangeable.            *)
EXTENDS HttpSession, TLC

Symmetry == Permutations(Sessions)
=============================================================================
