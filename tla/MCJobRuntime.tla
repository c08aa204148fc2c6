----------------------------- MODULE MCJobRuntime -----------------------------
(* A chunk of eight in three ranges of two sizes, and a rest of two.        *)
EXTENDS JobRuntime

MCChunkSizes == 1 .. ChunkSize
MCEvents     == {"RUN_STARTED", "CANCEL_REQUESTED", "JOB_CANCELLED", "JOB_FAILED",
                 "JOB_COMPLETED"}
=============================================================================
