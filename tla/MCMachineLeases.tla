-------------------------- MODULE MCMachineLeases --------------------------
(* Model values for the lease runs. *)
EXTENDS MachineLeases

CONSTANTS m1, m2

TwoMachines == {m1, m2}
=============================================================================
