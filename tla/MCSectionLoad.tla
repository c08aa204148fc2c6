---------------------------- MODULE MCSectionLoad ----------------------------
(* A survey with a gap, one with two traces at one place, and a short one.  *)
EXTENDS SectionLoad, TLC

CONSTANTS v1, v2, v3

MCVersions   == {v1, v2, v3}
At2(i, x)    == [inline |-> i, crossline |-> x]
MCBatchesOf  == [v \in Versions |-> IF v = v3 THEN 1 ELSE 3]
MCHeader     == [v \in Versions |->
                   IF v = v1 THEN <<At2(1, 1), At2(1, 3), At2(2, 2)>>
                   ELSE IF v = v2 THEN <<At2(1, 4), At2(2, 1), At2(2, 1)>>
                   ELSE <<At2(1, 1)>>]
Interchanged == Permutations(Builders)
=============================================================================
