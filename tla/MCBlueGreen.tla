---------------------------- MODULE MCBlueGreen ----------------------------
(* Model values and bounds for the blue-green runs. *)
EXTENDS BlueGreen, TLC

CONSTANTS web, worker, v1, v2

OneGroup  == {web}
TwoGroups == {web, worker}
Interchangeable == Permutations({web, worker}) \cup Permutations({v1, v2})

OneImage  == {v1}
TwoImages == {v1, v2}
=============================================================================
