---------------------------- MODULE MCViewerScreen ----------------------------
(* Two lines each way; an axis of four positions with a gap, in batches of two. *)
EXTENDS ViewerScreen
=============================================================================
