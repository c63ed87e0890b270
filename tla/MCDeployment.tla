---------------------------- MODULE MCDeployment ----------------------------
(* The fleet and the setups for the runs of the deployment. *)
EXTENDS Deployment

CONSTANTS app, worker, gone, api

Fleet     == 1 .. 7
FleetOf   == [m \in Fleet |-> IF m \in {1, 2, 3, 4, 7} THEN app ELSE IF m = 5 THEN worker ELSE gone]
Started   == {1, 2, 3, 4, 6}
Processes == {app, worker, api}
Second    == {api}

setupOf(strategy, statics, skip, restart, upd, sel) ==
    [strategy |-> strategy, statics |-> statics, skipRelease |-> skip,
     restartOnly |-> restart, updateOnly |-> upd, selected |-> sel]

\* The whole fleet rolls; a release command before one machine; canaries;
\* a first deployment; all at once; a restart.
SomeSetups ==
    { setupOf("rolling", FALSE, TRUE, FALSE, TRUE, {1, 2, 3, 4, 5}),
      setupOf("rolling", TRUE, FALSE, FALSE, FALSE, {5, 6}),
      setupOf("canary", FALSE, TRUE, FALSE, FALSE, {1, 7}),
      setupOf("immediate", FALSE, TRUE, FALSE, TRUE, {1, 2, 5}),
      setupOf("rolling", FALSE, FALSE, TRUE, FALSE, {4, 6}) }
=============================================================================
