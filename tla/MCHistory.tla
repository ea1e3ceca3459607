------------------------------ MODULE MCHistory ------------------------------
(* Two writers of one history for TLC. *)
EXTENDS History, TLC

Symmetry == Permutations(Writer)
=============================================================================
