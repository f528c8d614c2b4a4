------------------------------ MODULE MCBooking ------------------------------
(* Small instances of Booking for TLC. *)
EXTENDS Booking, TLC

CONSTANTS a, b, c, don, i1, i2, i3, p1, p2

DonorOfOne == i1 :> don
DonorOfTwo == (i1 :> don) @@ (i2 :> don)
DonorOfThree == DonorOfTwo @@ (i3 :> don)

Symmetry == Permutations(Proc)
\* Users whom the moderator leaves alone.
SymmetryUsers == Symmetry \cup Permutations({a, c})
SymmetryItems == Symmetry \cup Permutations({i1, i2, i3})
=============================================================================
