-------------------------- MODULE MCUpdateRecovery --------------------------
(* Model values for the runs of UpdateRecovery. *)
EXTENDS UpdateRecovery, TLC

CONSTANTS m1, m2

TwoMachines == {m1, m2}

OneGroup == [m \in TwoMachines |-> "app"]

Nothing == {}

Interchangeable == Permutations(TwoMachines)
=============================================================================
