---------------------------- MODULE MCAdmission -----------------------------
(* A small instance of Admission for TLC. *)
EXTENDS Admission

CONSTANTS n1, n2, k1, k2
=============================================================================
