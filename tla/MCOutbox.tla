------------------------------- MODULE MCOutbox -------------------------------
(* Small instances of Outbox for TLC. *)
EXTENDS Outbox, TLC

CONSTANTS e1, e2, w1, w2

Symmetry == Permutations(Event) \cup Permutations(Worker)
=============================================================================
