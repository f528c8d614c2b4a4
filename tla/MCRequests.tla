------------------------------ MODULE MCRequests ------------------------------
(* Small instances of Requests for TLC. *)
EXTENDS Requests, TLC

CONSTANTS asker, giver, other, r1, r2, r3, h1, p1, p2

AskerOfOne == r1 :> asker
AskerOfTwo == (r1 :> asker) @@ (r2 :> asker)
AskerOfThree == AskerOfTwo @@ (r3 :> asker)

Symmetry == Permutations(Proc)
SymmetryRequests == Symmetry \cup Permutations({r1, r2, r3})
=============================================================================
