-------------------------- MODULE MCMachineCommands --------------------------
(* The machines, and pairs of commands that meet on them. *)
EXTENDS MachineCommands

CONSTANTS c1, c2, r1, r2, r3

ThreeMachines == 1 .. 3
TwoInOne      == [m \in ThreeMachines |-> IF m <= 2 THEN r1 ELSE r2]
\* The first machine may be stopped, or on a host that is not reachable.
SomeFleets ==
    { [m \in ThreeMachines |-> IF m = 1 THEN f ELSE [state |-> "started", reachable |-> TRUE]] :
        f \in { [state |-> "started", reachable |-> TRUE],
                [state |-> "stopped", reachable |-> TRUE],
                [state |-> "started", reachable |-> FALSE] } }

ThreeRegions  == {r1, r2, r3}
TwoCommands   == {c1, c2}

on(k, ts) == [kind |-> k, targets |-> ts, force |-> FALSE, count |-> 0, regions |-> <<>>, max |-> -1]

forced(ts) == [on("destroy", ts) EXCEPT !.force = TRUE]

scale(n, rs, max) ==
    [on("scale", ThreeMachines) EXCEPT !.count = n, !.regions = rs, !.max = max]

both(a, b) == [c \in TwoCommands |-> IF c = c1 THEN a ELSE b]

\* A scale of every size, alone.
Scales ==
    { both(scale(n, rs, max), on("none", {})) :
        n \in 0 .. 4, max \in {-1, 1, 2}, rs \in {<<r2, r1, r2>>, <<r1, r2, r3>>} }

Pairs ==
    { both(on("update", {1}), on("updateAll", {1})),
      both(on("updateAll", {1, 2}), on("none", {})),
      both(on("update", {1}), on("clear", {1})),
      both(on("restart", {1}), on("stop", {1})),
      both(on("restartApp", {1}), on("suspend", {1})),
      both(on("restartApp", {1, 2}), on("none", {})),
      both(on("destroy", {1}), on("start", {1})),
      both(on("cordon", {1}), on("kill", {1})),
      both(on("cordon", {1, 2}), on("uncordon", {2})),
      both([scale(3, <<r1, r2>>, -1) EXCEPT !.targets = {1, 3}], forced({3})) }

AllScenarios == Scales \cup Pairs
=============================================================================
