---------------------------- MODULE MCMainWindow ----------------------------
(* Two jobs and the status filters that tell an ended job from a live one.  *)
EXTENDS MainWindow, TLC

MCFilters    == {"ALL", "CANCELLED"}
WithoutLog   == {"job", "import", "history"}
AllKinds     == WithoutLog \cup {"log"}
Interchanged == Permutations(Ids)
=============================================================================
