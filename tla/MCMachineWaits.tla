--------------------------- MODULE MCMachineWaits ---------------------------
(* The calls flyctl makes, for the runs of MachineWaits. *)
EXTENDS MachineWaits

(* updateMachineWChecks, of an updated or a newly launched machine *)
AnyGoodState ==
    [states |-> {"stopped", "started", "suspended"}, justCreated |-> FALSE, new |-> TRUE,
     timed |-> TRUE]

(* waitForMachine *)
StartedJustCreated ==
    [states |-> {"started"}, justCreated |-> TRUE, new |-> TRUE, timed |-> TRUE]

(* waiting for a machine to be gone *)
Gone == [states |-> {"destroyed"}, justCreated |-> FALSE, new |-> FALSE, timed |-> TRUE]

(* waitForReleaseCommandToFinish, with --release-command-timeout none *)
GoneUntimed == [Gone EXCEPT !.timed = FALSE]

AllCalls == {AnyGoodState, StartedJustCreated, Gone, GoneUntimed}
=============================================================================
