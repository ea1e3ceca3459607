----------------------------- MODULE MCRunLocks -----------------------------
(* A tree of three runs for TLC. *)
EXTENDS RunLocks, TLC

MCChildKind == {[policy |-> "cancel", limits |-> {"execution-timeout"}],
                [policy |-> "terminate", limits |-> {}]}

Symmetry == Permutations(Tx)
=============================================================================
