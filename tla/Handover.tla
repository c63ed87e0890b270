------------------------------ MODULE Handover ------------------------------
(***************************************************************************)
(* What a blue-green deployment promises, without how: traffic is handed   *)
(* over from a set of old machines to their replacements, one per member   *)
(* of Slots.  An old machine is given up only while every replacement      *)
(* serves, and a replacement is withdrawn only while every old machine is  *)
(* as it was.  At every instant one of the two fleets is therefore whole.  *)
(***************************************************************************)
CONSTANT Slots

VARIABLES old,      \* slots whose old machine has not been touched
          new       \* slots whose replacement takes traffic

Init == old = Slots /\ new = {}

BringUp(s) == new' = new \cup {s} /\ UNCHANGED old

Withdraw(s) == old = Slots /\ new' = new \ {s} /\ UNCHANGED old

GiveUp(s) == new = Slots /\ old' = old \ {s} /\ UNCHANGED new

Next == \E s \in Slots : BringUp(s) \/ Withdraw(s) \/ GiveUp(s)

Spec == Init /\ [][Next]_<<old, new>>
=============================================================================
