---------------------------- MODULE MCLoginGuard ----------------------------
(* Model checking of LoginGuard: threads and addresses are interchangeable,*)
(* and so are the spellings of the one account.                            *)
EXTENDS LoginGuard, TLC

MCNormalLogin == [l \in Logins |-> CHOOSE a \in Accounts : TRUE]

(* Rounding at many scales, the one of the run among them: a wait is cut   *)
(* short by less than a millisecond and is never a second too long.        *)
ASSUME RoundedUp ==
    \A perMilli \in 1 .. 5, perSecond \in 1 .. 5, ticks \in 1 .. 60 :
        LET seconds == Rounded(ticks, perMilli, perSecond)
            second  == perSecond * perMilli
        IN  /\ seconds * second + perMilli > ticks
            /\ (seconds - 1) * second < ticks

Symmetry == Permutations(Calls) \cup Permutations(Ips) \cup Permutations(Logins)
=============================================================================
