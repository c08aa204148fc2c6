------------------------------ MODULE JobRuntime ------------------------------
(***************************************************************************)
(* One execution of _execute_filter_job() with a pool of processes         *)
(* (application/filter_jobs.py:600-839), below the steps of FilterJobService: *)
(* its chunks go through ParallelFilter, and its log lines through         *)
(* ExecutionLog.  cancel_job(), on the GUI thread, only signals the token  *)
(* and sets a flag; the CANCEL_REQUESTED line is the worker's (222-226,    *)
(* 533-537).                                                               *)
(*                                                                         *)
(* FilterJobService takes a chunk and a log line for one step each;        *)
(* ImplementsAtomicRuntime is why it may.  The row, the writer's flushes   *)
(* and the kills are there and not here.                                   *)
(***************************************************************************)
EXTENDS ParallelFilter, ExecutionLog

CONSTANTS
    TraceCount,   \* physical traces of the dataset
    ChunkSize     \* traces per chunk

ASSUME CountsAssumption == TraceCount \in Nat \ {0} /\ ChunkSize \in Nat \ {0}
ASSUME NamesAssumption  == Events = {"RUN_STARTED", "CANCEL_REQUESTED", "JOB_CANCELLED",
                                     "JOB_FAILED", "JOB_COMPLETED"}
ASSUME ChunksAssumption == ChunkSizes = 1 .. ChunkSize

VARIABLES
    pc,        \* step of the execution
    rows,      \* traces written to the output
    token,     \* has the CancelToken been signalled?
    pending,   \* cancel_request_pending
    outcome    \* the event that will close the log, once decided

runVars == <<pc, rows, token, pending, outcome>>
vars == <<filterVars, logVars, runVars>>

Init ==
    /\ FilterInit /\ LogInit
    /\ pc = "start" /\ rows = <<>>
    /\ token = FALSE /\ pending = FALSE
    /\ outcome = NoEvent

Min2(a, b) == IF a <= b THEN a ELSE b

NextSize == Min2(ChunkSize, TraceCount - Len(rows))   \* stop - start

Decide(event, to) == outcome' = event /\ pc' = to

-----------------------------------------------------------------------------
(* The execution.                                                          *)

Start ==
    /\ pc = "start" /\ pc' = "open"
    /\ BeginLog("RUN_STARTED")
    /\ UNCHANGED <<filterVars, rows, token, pending, outcome>>

\* One pool per execution.
Open ==
    /\ pc = "open" /\ ~Logging
    /\ OpenPool
    /\ pc' = "loop"
    /\ UNCHANGED <<logVars, rows, token, pending, outcome>>

BeginChunk ==
    /\ pc = "loop" /\ Len(rows) < TraceCount /\ ~token
    /\ BeginCall(NextSize)
    /\ pc' = "filter"
    /\ UNCHANGED <<logVars, rows, token, pending, outcome>>

\* The test before a chunk, and the point of no return after the last one.
Observe ==
    /\ pc = "loop"
    /\ \/ token /\ Decide("JOB_CANCELLED", "flush")
       \/ ~token /\ Len(rows) = TraceCount /\ Decide("JOB_COMPLETED", "outcome")
    /\ UNCHANGED <<filterVars, logVars, rows, token, pending>>

\* write_chunk(start, filtered).
WriteChunk ==
    /\ pc = "filter" /\ call = "returned"
    /\ rows' = rows \o [k \in 1 .. size |-> Len(rows) + result[k]]
    /\ pc' = "loop"
    /\ UNCHANGED <<filterVars, logVars, token, pending, outcome>>

\* The call raised, or the reader or the writer does.
Fail ==
    /\ pc = "filter" /\ call \in {"raised", "returned"}
    /\ Decide("JOB_FAILED", "flush")
    /\ UNCHANGED <<filterVars, logVars, rows, token, pending>>

\* _flush_cancel_request_log(): the worker takes the flag, and logs.
FlushCancel ==
    /\ pc = "flush" /\ pc' = "outcome" /\ ~Logging
    /\ pending' = FALSE
    /\ IF pending THEN BeginLog("CANCEL_REQUESTED") ELSE UNCHANGED logVars
    /\ UNCHANGED <<filterVars, rows, token, outcome>>

LogOutcome ==
    /\ pc = "outcome" /\ ~Logging
    /\ BeginLog(outcome)
    /\ pc' = "close"
    /\ UNCHANGED <<filterVars, rows, token, pending, outcome>>

Close ==
    /\ pc = "close" /\ ~Logging
    /\ BeginShutdown
    /\ pc' = "release"
    /\ UNCHANGED <<logVars, rows, token, pending, outcome>>

Release ==
    /\ pc = "release"
    /\ EndShutdown
    /\ pc' = "over"
    /\ UNCHANGED <<logVars, rows, token, pending, outcome>>

Calls == CallStep /\ UNCHANGED <<logVars, runVars>>

Logs == LogStep /\ UNCHANGED <<filterVars, runVars>>

WorkerStep == Start \/ Open \/ BeginChunk \/ Observe \/ WriteChunk \/ Fail \/ FlushCancel
              \/ LogOutcome \/ Close \/ Release \/ Calls \/ Logs

-----------------------------------------------------------------------------
(* cancel_job(), and the processes.                                        *)

\* Under the lock, and as often as the user asks: the token is signalled unless
\* the execution has committed.  Nothing is logged here.
Cancel ==
    /\ outcome # "JOB_COMPLETED" /\ pc \notin {"start", "over"}
    /\ token' = TRUE /\ pending' = TRUE
    /\ UNCHANGED <<filterVars, logVars, pc, rows, outcome>>

Pool == PoolStep /\ UNCHANGED <<logVars, runVars>>

Dies == ProcessDies /\ UNCHANGED <<logVars, runVars>>

\* All is over: nothing more is to happen.
Done == pc = "over" /\ UNCHANGED vars

Next == WorkerStep \/ Cancel \/ Pool \/ Dies \/ Done

\* The worker runs, no call to log() being obliged to fail, and a task that was
\* submitted is taken by a process and ends.
Fairness == WF_vars(WorkerStep /\ UNCHANGED faults) /\ WF_vars(Pool)

Spec == Init /\ [][Next]_vars

FairSpec == Spec /\ Fairness

-----------------------------------------------------------------------------
(* Properties.                                                             *)

TypeOK ==
    /\ FilterTypeOK /\ LogTypeOK
    /\ pc \in {"start", "open", "loop", "filter", "flush", "outcome", "close", "release",
               "over"}
    /\ rows \in Seq(Nat)
    /\ token \in BOOLEAN /\ pending \in BOOLEAN
    /\ outcome \in Events \cup {NoEvent}

\* No process of the pool filters for an execution that is over: "neither
\* resource crosses", "shutdown(wait=True, cancel_futures=True)"
\* (filter_jobs.py:826), also after a failure that left tasks behind.
NoTaskOutlivesTheExecution ==
    pc = "over" => pool = "down" /\ \A k \in 1 .. Len(futures) : ~Unended(k)

Atomic == INSTANCE AtomicRuntime

\* With a pool whose tasks end in any order, raise, or die, and a log whose calls
\* may fail anywhere, every chunk is appended to the output whole and in order or
\* not at all, and every event becomes one line or none: no failed call leaves a
\* handler behind that would write a later line twice.
ImplementsAtomicRuntime == Atomic!Spec

\* An execution ends, whatever raises or dies: result() is not waited for in vain
\* and no call to log() that fails keeps the lock from the next.
ExecutionReturns == <>(pc = "over")
=============================================================================
