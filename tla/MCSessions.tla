----------------------------- MODULE MCSessions -----------------------------
(* TLC instances of Sessions. *)
EXTENDS Sessions, TLC

\* No definition tells one user, role, pair or request from another.
Symmetry == Permutations(User) \cup Permutations(Role)
            \cup Permutations(Pair) \cup Permutations(Request)
=============================================================================
