--------------------------- MODULE MCGeometryIndex ---------------------------
(* Two versions with the same number of batches, and a shorter one.         *)
EXTENDS GeometryIndex, TLC

CONSTANTS v1, v2, v3

SameSize    == {v1, v2}
AllVersions == {v1, v2, v3}
MCBatchesOf == [v \in Versions |-> IF v = v3 THEN 1 ELSE 2]
Interchanged == Permutations(Builders) \cup Permutations({v1, v2})
=============================================================================
