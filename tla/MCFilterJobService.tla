-------------------------- MODULE MCFilterJobService --------------------------
(***************************************************************************)
(* Instances of FilterJobService for TLC.                                  *)
(***************************************************************************)
EXTENDS FilterJobService, TLC

\* Threads are interchangeable.  Sound for invariants and action properties;
\* the liveness run does not use it.
ThreadSymmetry == Permutations(Workers) \cup Permutations(Cancellers)
=============================================================================
