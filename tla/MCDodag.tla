------------------------------ MODULE MCDodag ------------------------------
(* Small networks around Master 1.  What the Master hears does not change  *)
(* its rank, so its receptions are left out.                               *)
EXTENDS Dodag
Three == 1 .. 3
Four == 1 .. 4
\* 1 - 2 - 3
LineHears == [n \in Three |-> IF n = 1 THEN {} ELSE {m \in Three : m = n - 1 \/ m = n + 1}]
\* 1, 2 and 3 in a triangle, and 4 in range of 2 only.
KiteHears == [n \in Four |-> CASE n = 1 -> {} [] n = 2 -> {1, 3, 4}
                               [] n = 3 -> {1, 2} [] n = 4 -> {2}]
NoLeaf == {}
Leaf3 == {3}
OneCost == {1}
TwoCosts == {0, 2}
=============================================================================
