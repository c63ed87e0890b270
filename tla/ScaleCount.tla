----------------------------- MODULE ScaleCount -----------------------------
(***************************************************************************)
(* The plan of `fly scale count`: convergeGroupCounts in                   *)
(* internal/command/scale/count_machines.go, which says by how many each   *)
(* region grows or shrinks so that a group has the expected machines.      *)
(*                                                                         *)
(* A loop is a function of the number of iterations: loop[i] is its state  *)
(* after i of them.  The two loops over diff have no bound in the code;    *)
(* here they get as many rounds over the regions as diff has units, and    *)
(* do nothing once diff is 0.  That this is enough, so that the code's     *)
(* loops end, is part of what a plan has to satisfy: diff is 0 at the end  *)
(* exactly if the planned machines are the expected ones.                  *)
(***************************************************************************)
EXTENDS Integers, Sequences

\* lo.Uniq: the first of equal regions is kept.
Uniq(regions) ==
    LET kept[i \in 0 .. Len(regions)] ==
            IF i = 0 THEN <<>>
            ELSE IF \E j \in 1 .. i - 1 : regions[j] = regions[i] THEN kept[i - 1]
            ELSE Append(kept[i - 1], regions[i])
    IN kept[Len(regions)]

\* How many machines there will be in the regions.
planned(regions, current, diffs) ==
    LET sum[i \in 0 .. Len(regions)] ==
            IF i = 0 THEN 0
            ELSE sum[i - 1] + (current[regions[i]] + diffs[regions[i]])
    IN sum[Len(regions)]

\* Round robin over the regions with room, from the first.
growStep(regions, current, max, i, p) ==
    LET r == regions[((i - 1) % Len(regions)) + 1]
    IN IF p.diff > 0 /\ (max < 0 \/ current[r] + p.diffs[r] < max)
       THEN [diff |-> p.diff - 1, diffs |-> [p.diffs EXCEPT ![r] = @ + 1]]
       ELSE p

grow(regions, current, max, start) ==
    LET loop[i \in Nat] ==
            IF i = 0 THEN start ELSE growStep(regions, current, max, i, loop[i - 1])
    IN IF start.diff > 0 THEN loop[Len(regions) * start.diff] ELSE start

shrinkStep_belowZero(regions, current, i, p) ==
    LET r == regions[(i % Len(regions)) + 1]
    IN IF p.diff < 0
       THEN [diff |-> p.diff + 1, diffs |-> [p.diffs EXCEPT ![r] = @ - 1]]
       ELSE p

\* Round robin over the regions with machines, from the second: idx starts at
\* -1 and region -idx % n is taken.
shrinkStep(regions, current, i, p) ==
    LET r == regions[(i % Len(regions)) + 1]
    IN IF p.diff < 0 /\ current[r] + p.diffs[r] > 0
       THEN [diff |-> p.diff + 1, diffs |-> [p.diffs EXCEPT ![r] = @ - 1]]
       ELSE p

shrink(regions, current, start) ==
    LET loop[i \in Nat] ==
            IF i = 0 THEN start ELSE shrinkStep(regions, current, i, loop[i - 1])
    IN IF start.diff < 0 THEN loop[Len(regions) * (-start.diff)] ELSE start

\* Too many machines for the regions, the error ErrMaxPerRegion.
exceedsMax(expected, regions, max) == max >= 0 /\ Len(regions) * max < expected

\* Regions above the maximum come down to it first.
capped(regions, current, max) ==
    [r \in { regions[i] : i \in DOMAIN regions } |->
        IF max >= 0 /\ current[r] > max THEN max - current[r] ELSE 0]

\* The regions are without duplicates here.
convergeGroupCounts(expected, current, regions, max) ==
    LET d     == capped(regions, current, max)
        start == [diff |-> expected - planned(regions, current, d), diffs |-> d]
    IN shrink(regions, current, grow(regions, current, max, start)).diffs
=============================================================================
