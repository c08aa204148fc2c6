--------------------------------- MODULE Job ---------------------------------
(***************************************************************************)
(* The domain entity domain/job.py: Job.  A job is a record, and each of   *)
(* its methods is a guard (the condition under which the method does not   *)
(* raise) and an operator that returns the job the method leaves behind.   *)
(*                                                                         *)
(* progress is not kept: for a RUNNING job it is always 100 * processed /  *)
(* TraceCount, so the test "progress cannot regress" of advance_progress   *)
(* is the test that processed does not regress.  Timestamps, the error     *)
(* message and the filter's parameters are not told apart by any property. *)
(***************************************************************************)
EXTENDS Naturals

CONSTANT TraceCount   \* dataset.n_traces: the physical traces of the SEG-Y

ASSUME TraceCountAssumption == TraceCount \in Nat \ {0}

Terminal  == {"COMPLETED", "FAILED", "CANCELLED"}
JobStatus == {"CREATED", "RUNNING"} \cup Terminal

\* "ABSENT" stands for "no such row": the state of the jobs table before
\* create_filter_job() has inserted the job.
Jobs == [status    : JobStatus \cup {"ABSENT"},
         processed : 0 .. TraceCount,
         resumes   : Nat,
         path      : BOOLEAN]           \* output_path is not None

NoJob  == [status |-> "ABSENT", processed |-> 0, resumes |-> 0, path |-> FALSE]
NewJob == [NoJob EXCEPT !.status = "CREATED"]

-----------------------------------------------------------------------------
CanStart(job)    == job.status = "CREATED"
Started(job)     == [job EXCEPT !.status = "RUNNING"]

CanResume(job)   == job.status = "CANCELLED"
Resumed(job)     == [Started(job) EXCEPT !.resumes = @ + 1]

\* complete(), fail() and cancel() all leave RUNNING and nothing else.
CanEnd(job)      == job.status = "RUNNING"
Completed(job)   == [job EXCEPT !.status = "COMPLETED"]
Failed(job)      == [job EXCEPT !.status = "FAILED"]
BadCancelled(job) == [job EXCEPT !.status = "CANCELED"]   \* faulty: misspelt
Cancelled(job)   == [job EXCEPT !.status = "CANCELLED"]

CanRecordCheckpoint(job, k) ==
    job.status = "RUNNING" /\ job.processed <= k /\ k <= TraceCount
Checkpointed(job, k) == [job EXCEPT !.processed = k]
=============================================================================
