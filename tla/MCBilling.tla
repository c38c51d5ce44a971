------------------------------ MODULE MCBilling ------------------------------
(* TLC instances of Billing. *)
EXTENDS Billing, TLC

CONSTANTS r1, r2

MCPrice == r1 :> 1 @@ r2 :> 3

Symmetry == Permutations(Entry)
=============================================================================
