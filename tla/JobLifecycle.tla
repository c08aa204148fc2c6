----------------------------- MODULE JobLifecycle -----------------------------
(***************************************************************************)
(* What a filter job promises to whoever looks at its row and its output,  *)
(* and nothing about threads, locks, tokens or open files:                 *)
(*                                                                         *)
(*   - the life of the job: CREATED, RUNNING, then COMPLETED, FAILED or    *)
(*     CANCELLED; only a CANCELLED job runs again, and each time it does   *)
(*     is counted;                                                         *)
(*   - the output changes only while the job is RUNNING: what a finished   *)
(*     or cancelled job left is what a reader, or a resume, finds;         *)
(*   - a trace is confirmed only once it is in the output;                 *)
(*   - the job is COMPLETED only if the output is whole.                   *)
(*                                                                         *)
(* The status graph is domain/job.py's; FilterJobService is shown to       *)
(* implement it.                                                           *)
(***************************************************************************)
EXTENDS Job

VARIABLES
    record,    \* the job's row
    readable,  \* can the output be opened?
    stored,    \* the leading traces a readable output holds
    whole      \* does the output say that it is complete?

output == <<readable, stored, whole>>

LifecycleInit ==
    /\ record = NoJob
    /\ readable = FALSE /\ stored = 0 /\ whole = FALSE

\* The output and the row never contradict each other.
Consistent == readable => record.processed <= stored

Begin ==
    \/ record.status = "ABSENT" /\ record' = NewJob
    \/ CanStart(record) /\ record' = Started(record)

\* The output path, and the prefix that is confirmed, while RUNNING.
Advance ==
    /\ record.status = "RUNNING"
    /\ \E k \in record.processed .. TraceCount :
          /\ readable /\ k <= stored
          /\ record' = [record EXCEPT !.processed = k, !.path = TRUE]

Locate ==
    /\ record.status = "RUNNING" /\ record.processed = 0
    /\ record' = [record EXCEPT !.path = TRUE]

\* The last update of an execution may carry a prefix that an earlier one
\* failed to record, and always carries the path.
End ==
    /\ record.status = "RUNNING"
    /\ \E s \in {"FAILED", "CANCELLED"}, k \in record.processed .. TraceCount,
          p \in BOOLEAN :
          /\ record.path => p
          /\ k > record.processed => readable /\ k <= stored
          /\ record' = [record EXCEPT !.status = s, !.processed = k, !.path = p]

Finish ==
    /\ record.status = "RUNNING"
    /\ readable /\ whole /\ stored = TraceCount
    /\ record' = [record EXCEPT !.status = "COMPLETED", !.processed = TraceCount]

\* A resume goes on from the traces stored; if the row cannot say RUNNING, the
\* job FAILED before it stored another one.
Again ==
    /\ CanResume(record) /\ readable /\ record.path
    /\ \E s \in {"RUNNING", "FAILED"} :
          record' = [Resumed(record) EXCEPT !.status = s, !.processed = stored]

\* The output grows, becomes whole or unreadable, or has its completeness
\* taken back by a finalize() that failed: only under a RUNNING job.
Store ==
    /\ record.status = "RUNNING"
    /\ readable' \in BOOLEAN /\ stored' \in 0 .. TraceCount /\ whole' \in BOOLEAN
    /\ readable /\ readable' => stored' >= stored
    /\ readable' => record.processed <= stored'
    /\ whole' => readable' /\ stored' = TraceCount
    /\ UNCHANGED record

LifecycleNext ==
    \/ UNCHANGED output /\ (Begin \/ Advance \/ Locate \/ End \/ Finish \/ Again)
    \/ Store

LifecycleSpec == LifecycleInit /\ [][LifecycleNext]_<<record, output>>
=============================================================================
