--------------------------- MODULE FilterJobService ---------------------------
(***************************************************************************)
(* application/filter_jobs.py: FilterJobService, for one job.              *)
(*                                                                         *)
(* Worker threads execute run_filter_job() and resume_filter_job(), which  *)
(* share _execute_filter_job(); canceller threads (the GUI's) execute      *)
(* cancel_job(); the process may be killed at any step and started again.  *)
(* The shared state is the job's SQLite row, its HDF5 output, the entry of *)
(* _cancel_tokens for the job and its lock, and the job's execution log.   *)
(*                                                                         *)
(* A worker action ends where another thread, or a crash, could see the    *)
(* difference: at each repository call, each HDF5 call that may flush, each *)
(* critical section of _cancel_tokens_lock and each log line.              *)
(*                                                                         *)
(* A definition whose name begins with Bad is no part of the model: it is  *)
(* a plausible bug in the definition that follows it, kept to show that a  *)
(* property notices it.                                                    *)
(***************************************************************************)
EXTENDS Hdf5Output, Sequences, FiniteSets

CONSTANTS
    Workers,     \* threads that call run_filter_job() or resume_filter_job()
    Cancellers,  \* threads that call cancel_job()
    NoWorker,    \* not a worker: "no registration"
    NoCanceller, \* not a canceller: "the lock is free"
    ChunkSize,   \* FilterJobService.__init__(chunk_size)
    MaxResumes,  \* bound on resume_count
    MaxCrashes,  \* bound on the kills of the process
    MaxDbFaults, \* bound on the repository calls that raise
    MaxLogFaults \* bound on the log lines that cannot be written

ASSUME ChunkSizeAssumption == ChunkSize \in Nat \ {0}
ASSUME ThreadsAssumption   == NoWorker \notin Workers /\ NoCanceller \notin Cancellers
ASSUME BoundsAssumption    ==
    /\ MaxResumes \in Nat /\ MaxCrashes \in Nat
    /\ MaxDbFaults \in Nat /\ MaxLogFaults \in Nat

VARIABLES
    row,        \* the job's row of the jobs table
    diskState,  \* what job-<id>.h5 is on disk, were the process to die now
    disk,       \* its image, when it is sound
    writerOpen, \* does the execution hold the HDF5 file open?
    writer,     \* the image as the open h5py.File shows it
    owner,      \* the worker whose _RunRegistration is in _cancel_tokens
    committed,  \* _RunRegistration.committed
    pending,    \* _RunRegistration.cancel_request_pending
    lock,       \* the canceller inside _cancel_tokens_lock
    token,      \* token[w]: is the CancelToken of w's call cancelled?
    pc,         \* pc[w]: the next step of w's call, "idle" between calls
    mode,       \* mode[w]: "run" or "resume"
    job,        \* job[w]: the Job object that w's call works on
    start,      \* start[w]: the first trace of w's next chunk
    cpc,        \* cpc[c]: the next step of c's cancel_job() call
    log,        \* the events logged, each with whether its line was written
    up,         \* is the process running?
    crashes,    \* how often it was killed
    dbFaults    \* how many repository calls raised

fileVars   == <<diskState, disk, writerOpen, writer>>
regVars    == <<owner, committed, pending, lock>>
workerVars == <<token, pc, mode, job, start>>
envVars    == <<up, crashes, dbFaults>>
vars == <<row, fileVars, regVars, workerVars, cpc, log, envVars>>

Events == {"JOB_CREATED", "RUN_STARTED", "RESUME_STARTED", "CANCEL_REQUESTED",
           "JOB_CANCELLED", "JOB_COMPLETED", "JOB_FAILED", "JOB_INTERRUPTED"}

WorkerSteps == {"idle", "load", "start", "open", "create", "recordPath",
                "openResume", "persistResume", "loop", "write", "checkpoint",
                "record", "commit", "finalize", "mark", "complete",
                "flushCancel", "logOutcome", "close", "persist", "release"}

CancellerSteps == {"idle", "decide", "accept"}

Executing(w) == pc[w] # "idle"

Init ==
    /\ row = NoJob
    /\ diskState = "absent" /\ disk = EmptyImage
    /\ writerOpen = FALSE   /\ writer = EmptyImage
    /\ owner = NoWorker /\ committed = FALSE /\ pending = FALSE
    /\ lock = NoCanceller
    /\ token = [w \in Workers |-> FALSE]
    /\ pc    = [w \in Workers |-> "idle"]
    /\ mode  = [w \in Workers |-> "run"]
    /\ job   = [w \in Workers |-> NoJob]
    /\ start = [w \in Workers |-> 0]
    /\ cpc   = [c \in Cancellers |-> "idle"]
    /\ log = <<>>
    /\ up = TRUE
    /\ crashes = 0
    /\ dbFaults = 0

-----------------------------------------------------------------------------
(* Building blocks of the worker's steps.                                  *)

Entries == [event : Events, written : BOOLEAN]
Lost    == {i \in DOMAIN log : ~log[i].written}

\* _log() (lines 340-353): an exception of the logger is swallowed, and nothing
\* but the line is missing.  The execution log is the written entries, in order.
Log(event) ==
    \E written \in BOOLEAN :
        /\ written \/ Cardinality(Lost) < MaxLogFaults
        /\ log' = Append(log, [event |-> event, written |-> written])

Goto(w, step) == pc' = [pc EXCEPT ![w] = step]

BadLockFree == TRUE   \* the worker does not take the lock

\* with self._cancel_tokens_lock: a step of a worker needs the lock free.
LockFree == lock = NoCanceller

\* Whatever HDF5 has put on disk of the writer's unflushed changes when a
\* flush or close raises, or the process dies.  EXTERNAL (libhdf5): the last
\* image, the current one, or a file that does not open.
Dirty == diskState # "sound" \/ disk # writer
FlushInterrupted(img) ==
    \/ UNCHANGED <<diskState, disk>>
    \/ Dirty /\ diskState' = "sound" /\ disk' = img
    \/ Dirty /\ diskState' = "torn"  /\ disk' = EmptyImage

\* A repository call: update(job) writes every column of the row in one
\* transaction, or raises and leaves the row alone.
DbWorks     == UNCHANGED dbFaults
DbFails     == dbFaults < MaxDbFaults /\ dbFaults' = dbFaults + 1
Update(w)   == row' = job[w] /\ DbWorks
UpdateFails == UNCHANGED row /\ DbFails

BadFlushed == UNCHANGED <<diskState, disk>>   \* flush() forgotten

Flushed == diskState' = "sound" /\ disk' = writer

\* The error is handled outside the try: the job is not failed.
BadRaise(w, jb) == job' = [job EXCEPT ![w] = jb] /\ Goto(w, "close")

\* except Exception as exc (lines 795-806), for a call that raises while the
\* Job object is jb: a RUNNING job fails; any other (a resume refused before
\* job.resume()) is left as it is and the exception goes on to the caller.
Raise(w, jb) ==
    IF CanEnd(jb)
    THEN job' = [job EXCEPT ![w] = Failed(jb)] /\ Goto(w, "flushCancel")
    ELSE job' = [job EXCEPT ![w] = jb]         /\ Goto(w, "close")

-----------------------------------------------------------------------------
(* create_filter_job(): by the GUI thread; the dataset and the parameters   *)
(* have passed their validation.                                           *)
CreateFilterJob ==
    /\ up /\ row.status = "ABSENT"
    /\ row' = NewJob
    /\ Log("JOB_CREATED")
    /\ UNCHANGED <<fileVars, regVars, workerVars, cpc, envVars>>

(* _execute_filter_job(), one action per step, in the order of the code.   *)

BadNotRegistered == TRUE   \* a second registration overwrites the first

\* Line 593: job_id not in self._cancel_tokens.
NotRegistered == owner = NoWorker

\* Lines 592-598.  A second call for a registered job raises
\* JobAlreadyRunningError here and changes nothing, so it has no step.
Register(w, m) ==
    /\ up /\ pc[w] = "idle"
    /\ LockFree /\ NotRegistered
    /\ m = "resume" => row.resumes < MaxResumes
    /\ owner' = w /\ committed' = FALSE /\ pending' = FALSE
    /\ token' = [token EXCEPT ![w] = FALSE]
    /\ mode'  = [mode EXCEPT ![w] = m]
    /\ Goto(w, "load")
    /\ UNCHANGED <<row, fileVars, lock, job, start, cpc, log, envVars>>

\* Lines 601-612: get_job_status(), and the status the call requires.
BadLoadAdmits(m, r) == CanResume(r) \/ (m = "run" /\ CanStart(r))   \* run again

LoadAdmits(m, r) == IF m = "resume" THEN CanResume(r) ELSE CanStart(r)

Load(w) ==
    /\ pc[w] = "load"
    /\ \/ /\ LoadAdmits(mode[w], row)
          /\ job' = [job EXCEPT ![w] = IF mode[w] = "run" THEN Started(row) ELSE row]
          /\ Goto(w, IF mode[w] = "run" THEN "start" ELSE "open")
          /\ DbWorks
       \/ /\ (~LoadAdmits(mode[w], row) /\ DbWorks) \/ DbFails
          /\ Goto(w, "release")
          /\ UNCHANGED job
    /\ UNCHANGED <<row, fileVars, regVars, token, mode, start, cpc, log, up, crashes>>

\* Lines 613-621.  Outside the inner try: an exception only deregisters.
StartRun(w) ==
    /\ pc[w] = "start"
    /\ \/ Update(w) /\ Log("RUN_STARTED") /\ Goto(w, "open")
       \/ UpdateFails /\ Goto(w, "release") /\ UNCHANGED log
    /\ UNCHANGED <<fileVars, regVars, token, mode, job, start, cpc, up, crashes>>

\* Lines 633-667: fingerprint, reader, trace count, sample count and interval.
\* Any of them may raise: the SEG-Y belongs to the user.
OpenSource(w) ==
    /\ pc[w] = "open"
    /\ \/ /\ Goto(w, IF mode[w] = "run" THEN "create" ELSE "openResume")
          /\ UNCHANGED job
       \/ Raise(w, job[w])
    /\ UNCHANGED <<row, fileVars, regVars, token, mode, start, cpc, log, envVars>>

\* Lines 704-705.  h5py.File(mode = "w") truncates the path at once; the new
\* image reaches the disk with the first flush.
CreateWriter(w) ==
    /\ pc[w] = "create"
    /\ \/ /\ diskState' = "torn" /\ disk' = EmptyImage
          /\ writerOpen' = TRUE  /\ writer' = EmptyImage
          /\ job' = [job EXCEPT ![w].path = TRUE]
          /\ start' = [start EXCEPT ![w] = 0]
          /\ Goto(w, "recordPath")
       \/ /\ \/ UNCHANGED <<diskState, disk>>
             \/ diskState' = "torn" /\ disk' = EmptyImage
          /\ Raise(w, job[w])
          /\ UNCHANGED <<writerOpen, writer, start>>
    /\ UNCHANGED <<row, regVars, token, mode, cpc, log, envVars>>

\* Line 706.
RecordPath(w) ==
    /\ pc[w] = "recordPath"
    /\ \/ Update(w) /\ Goto(w, "loop") /\ UNCHANGED job
       \/ UpdateFails /\ Raise(w, job[w])
    /\ UNCHANGED <<fileVars, regVars, token, mode, start, cpc, log, up, crashes>>

\* Lines 668-692: open_for_resume() and the comparison with the row; then the
\* Job is RUNNING again, in memory, from the physical prefix.
ResumeAdmits(jb) ==
    /\ jb.path
    /\ diskState = "sound"
    /\ OpensForResume(disk)
    /\ jb.processed <= disk.attr

OpenResume(w) ==
    /\ pc[w] = "openResume"
    /\ \/ /\ ResumeAdmits(job[w])
          /\ writerOpen' = TRUE /\ writer' = disk
          /\ start' = [start EXCEPT ![w] = disk.attr]
          /\ job' = [job EXCEPT ![w] = Checkpointed(Resumed(job[w]), disk.attr)]
          /\ Goto(w, "persistResume")
       \/ /\ Raise(w, job[w])
          /\ UNCHANGED <<writerOpen, writer, start>>
    /\ UNCHANGED <<row, diskState, disk, regVars, token, mode, cpc, log, envVars>>

\* Lines 693-700.
PersistResume(w) ==
    /\ pc[w] = "persistResume"
    /\ \/ Update(w) /\ Log("RESUME_STARTED") /\ Goto(w, "loop") /\ UNCHANGED job
       \/ UpdateFails /\ Raise(w, job[w]) /\ UNCHANGED log
    /\ UNCHANGED <<fileVars, regVars, token, mode, start, cpc, up, crashes>>

\* Lines 724-728: the head of the chunk loop.  The token is read without the
\* lock.  The process pool or the progress callback may raise instead.
Loop(w) ==
    /\ pc[w] = "loop"
    /\ \/ start[w] < TraceCount /\ token[w] /\ CanEnd(job[w])
          /\ job' = [job EXCEPT ![w] = Cancelled(job[w])] /\ Goto(w, "flushCancel")
       \/ start[w] < TraceCount /\ ~token[w] /\ Goto(w, "write") /\ UNCHANGED job
       \/ start[w] >= TraceCount /\ Goto(w, "commit") /\ UNCHANGED job
       \/ Raise(w, job[w])
    /\ UNCHANGED <<row, fileVars, regVars, token, mode, start, cpc, log, envVars>>

\* Line 730.
Stop(w) == IF start[w] + ChunkSize < TraceCount THEN start[w] + ChunkSize
                                                ELSE TraceCount

\* Lines 731-749: read, filter and write one chunk.
WriteChunk(w) ==
    /\ pc[w] = "write"
    /\ \/ /\ AcceptsChunk(writer, start[w], Stop(w))
          /\ writer' = Written(writer, Stop(w))
          /\ Goto(w, "checkpoint") /\ UNCHANGED job
       \/ /\ \/ UNCHANGED writer
             \/ /\ AcceptsChunk(writer, start[w], Stop(w))
                /\ writer' \in PartialWrites(writer, Stop(w))
          /\ Raise(w, job[w])
    /\ UNCHANGED <<row, diskState, disk, writerOpen, regVars, token, mode, start,
                   cpc, log, envVars>>

\* Lines 753-754: flush the prefix and its marker, and only then move the Job.
Checkpoint(w) ==
    /\ pc[w] = "checkpoint"
    /\ \/ /\ CanRecordCheckpoint(job[w], Stop(w))
          /\ Flushed
          /\ job' = [job EXCEPT ![w] = Checkpointed(job[w], Stop(w))]
          /\ Goto(w, "record")
       \/ FlushInterrupted(writer) /\ Raise(w, job[w])
    /\ UNCHANGED <<row, writerOpen, writer, regVars, token, mode, start, cpc, log,
                   envVars>>

\* Line 755, and the loop's next start.
Record(w) ==
    /\ pc[w] = "record"
    /\ \/ /\ Update(w)
          /\ start' = [start EXCEPT ![w] = Stop(w)]
          /\ Goto(w, "loop") /\ UNCHANGED job
       \/ UpdateFails /\ Raise(w, job[w]) /\ UNCHANGED start
    /\ UNCHANGED <<fileVars, regVars, token, mode, cpc, log, up, crashes>>

\* Lines 774-782: the point of no return, under the lock.
Commit(w) ==
    /\ pc[w] = "commit" /\ LockFree
    /\ \/ /\ token[w] /\ CanEnd(job[w])
          /\ job' = [job EXCEPT ![w] = Cancelled(job[w])]
          /\ Goto(w, "flushCancel") /\ UNCHANGED committed
       \/ /\ ~token[w]
          /\ committed' = TRUE
          /\ Goto(w, "finalize") /\ UNCHANGED job
    /\ UNCHANGED <<row, fileVars, owner, pending, lock, token, mode, start, cpc, log,
                   envVars>>

\* Lines 784-785, first half of finalize(): flush the data, set the marker.
Finalize(w) ==
    /\ pc[w] = "finalize"
    /\ \/ writer.complete /\ Goto(w, "complete") /\ UNCHANGED <<fileVars, job>>
       \/ /\ AcceptsFinalize(writer)
          /\ Flushed
          /\ writer' = Marked(writer)
          /\ Goto(w, "mark") /\ UNCHANGED <<writerOpen, job>>
       \/ /\ ~writer.complete
          /\ FlushInterrupted(writer)
          /\ Raise(w, job[w]) /\ UNCHANGED <<writerOpen, writer>>
    /\ UNCHANGED <<row, regVars, token, mode, start, cpc, log, envVars>>

\* The second flush's exception is swallowed.
BadMark(w) ==
    /\ pc[w] = "mark" /\ FlushInterrupted(writer) /\ Goto(w, "complete")
    /\ UNCHANGED <<row, writerOpen, writer, regVars, token, mode, job, start, cpc,
                   log, envVars>>

\* Second half of finalize(): flush the marker, or take it back.
Mark(w) ==
    /\ pc[w] = "mark"
    /\ \/ Flushed /\ Goto(w, "complete") /\ UNCHANGED <<writer, job>>
       \/ /\ FlushInterrupted(writer)
          /\ writer' = Reverted(writer)
          /\ Raise(w, job[w])
    /\ UNCHANGED <<row, writerOpen, regVars, token, mode, start, cpc, log, envVars>>

\* Lines 786-794.
Complete(w) ==
    /\ pc[w] = "complete" /\ CanEnd(job[w])
    /\ job' = [job EXCEPT ![w] = Completed(job[w])]
    /\ Log("JOB_COMPLETED")
    /\ Goto(w, "close")
    /\ UNCHANGED <<row, fileVars, regVars, token, mode, start, cpc, envVars>>

\* _flush_cancel_request_log(): consume the pending flag under the lock.
FlushCancel(w) ==
    /\ pc[w] = "flushCancel" /\ LockFree
    /\ pending' = FALSE
    /\ IF pending THEN Log("CANCEL_REQUESTED") ELSE UNCHANGED log
    /\ Goto(w, "logOutcome")
    /\ UNCHANGED <<row, fileVars, owner, committed, lock, token, mode, job, start, cpc,
                   envVars>>

\* The last line of _log_cancelled(), and the JOB_FAILED line of the handler.
LogOutcome(w) ==
    /\ pc[w] = "logOutcome"
    /\ Log(IF job[w].status = "CANCELLED" THEN "JOB_CANCELLED" ELSE "JOB_FAILED")
    /\ Goto(w, "close")
    /\ UNCHANGED <<row, fileVars, regVars, token, mode, job, start, cpc, envVars>>

\* Lines 824-838: release the pool, the reader and the writer.  An exception of
\* close() is swallowed, with whatever it left on disk.
Close(w) ==
    /\ pc[w] = "close"
    /\ IF writerOpen THEN FlushInterrupted(writer) ELSE UNCHANGED <<diskState, disk>>
    /\ writerOpen' = FALSE /\ writer' = EmptyImage
    /\ Goto(w, "persist")
    /\ UNCHANGED <<row, regVars, token, mode, job, start, cpc, log, envVars>>

\* Line 839.
Persist(w) ==
    /\ pc[w] = "persist"
    /\ Update(w) \/ UpdateFails
    /\ Goto(w, "release")
    /\ UNCHANGED <<fileVars, regVars, token, mode, job, start, cpc, log, up, crashes>>

\* Lines 849-850.  The call's local state goes with it.
Release(w) ==
    /\ pc[w] = "release" /\ LockFree
    /\ owner' = NoWorker /\ committed' = FALSE /\ pending' = FALSE
    /\ token' = [token EXCEPT ![w] = FALSE]
    /\ mode'  = [mode EXCEPT ![w] = "run"]
    /\ job'   = [job EXCEPT ![w] = NoJob]
    /\ start' = [start EXCEPT ![w] = 0]
    /\ Goto(w, "idle")
    /\ UNCHANGED <<row, fileVars, lock, cpc, log, envVars>>

-----------------------------------------------------------------------------
(* cancel_job().                                                           *)

\* Lines 486-488: the row is read before the lock is taken.  A job that is
\* not RUNNING raises InvalidTransitionError and changes nothing.
CancelRead(c) ==
    /\ up /\ cpc[c] = "idle" /\ row.status = "RUNNING"
    /\ cpc' = [cpc EXCEPT ![c] = "decide"]
    /\ UNCHANGED <<row, fileVars, regVars, workerVars, log, envVars>>

BadWindowOpen == owner # NoWorker   \* the point of no return is ignored

\* Lines 491-505: is there an execution that will still look at its token?
WindowOpen == owner # NoWorker /\ ~committed

\* Lines 490-533: refuse (NoActiveExecutionError, CancellationWindowClosedError)
\* or signal the token of the registration found.
CancelDecide(c) ==
    /\ cpc[c] = "decide" /\ LockFree
    /\ \/ /\ ~WindowOpen
          /\ cpc' = [cpc EXCEPT ![c] = "idle"]
          /\ UNCHANGED <<token, lock>>
       \/ /\ WindowOpen
          /\ lock' = c
          /\ token' = [token EXCEPT ![owner] = TRUE]
          /\ cpc' = [cpc EXCEPT ![c] = "accept"]
    /\ UNCHANGED <<row, fileVars, owner, committed, pending, pc, mode, job, start, log,
                   envVars>>

\* The lock is not released.
BadCancelAccept(c) ==
    /\ cpc[c] = "accept" /\ pending' = TRUE /\ cpc' = [cpc EXCEPT ![c] = "idle"]
    /\ UNCHANGED <<row, fileVars, owner, committed, lock, workerVars, log, envVars>>

\* Lines 537-539, still under the lock.
CancelAccept(c) ==
    /\ cpc[c] = "accept" /\ lock = c
    /\ pending' = TRUE
    /\ lock' = NoCanceller
    /\ cpc' = [cpc EXCEPT ![c] = "idle"]
    /\ UNCHANGED <<row, fileVars, owner, committed, workerVars, log, envVars>>

-----------------------------------------------------------------------------
(* The process.                                                            *)

\* Kill, power loss, OOM: everything in memory is gone.
Crash ==
    /\ up /\ crashes < MaxCrashes
    /\ up' = FALSE /\ crashes' = crashes + 1
    /\ IF writerOpen THEN FlushInterrupted(writer) ELSE UNCHANGED <<diskState, disk>>
    /\ writerOpen' = FALSE /\ writer' = EmptyImage
    /\ owner' = NoWorker /\ committed' = FALSE /\ pending' = FALSE
    /\ lock' = NoCanceller
    /\ token' = [w \in Workers |-> FALSE]
    /\ pc'    = [w \in Workers |-> "idle"]
    /\ mode'  = [w \in Workers |-> "run"]
    /\ job'   = [w \in Workers |-> NoJob]
    /\ start' = [w \in Workers |-> 0]
    /\ cpc'   = [c \in Cancellers |-> "idle"]
    /\ UNCHANGED <<row, log, dbFaults>>

BadRecovered(r) == [Cancelled(r) EXCEPT !.processed = 0]   \* from scratch

\* Line 451: processed_traces and the HDF5 checkpoint stay as persisted.
Recovered(r) == Cancelled(r)

\* main(), up to the window: recover_interrupted_jobs() makes a job that was
\* left RUNNING, with no registration, CANCELLED.
Restart ==
    /\ ~up
    /\ up' = TRUE
    /\ IF row.status = "RUNNING" /\ owner = NoWorker
       THEN row' = Recovered(row) /\ Log("JOB_INTERRUPTED")
       ELSE UNCHANGED <<row, log>>
    /\ UNCHANGED <<fileVars, regVars, workerVars, cpc, crashes, dbFaults>>

-----------------------------------------------------------------------------
\* What a call does once it is registered.
WorkerStep(w) ==
    \/ Load(w) \/ StartRun(w) \/ OpenSource(w)
    \/ CreateWriter(w) \/ RecordPath(w) \/ OpenResume(w) \/ PersistResume(w)
    \/ Loop(w) \/ WriteChunk(w) \/ Checkpoint(w) \/ Record(w)
    \/ Commit(w) \/ Finalize(w) \/ Mark(w) \/ Complete(w)
    \/ FlushCancel(w) \/ LogOutcome(w) \/ Close(w) \/ Persist(w) \/ Release(w)

CancellerStep(c) == CancelDecide(c) \/ CancelAccept(c)

Next ==
    \/ CreateFilterJob
    \/ \E w \in Workers : WorkerStep(w) \/ \E m \in {"run", "resume"} : Register(w, m)
    \/ \E c \in Cancellers : CancelRead(c) \/ CancellerStep(c)
    \/ Crash \/ Restart

Spec == Init /\ [][Next]_vars

\* A call that has begun keeps running: the QThread of a worker and the GUI
\* thread are scheduled by the operating system, and the chunk loop waits for
\* nobody.  No call is ever obliged to begin, and no killed process to restart.
\* The lock is held for a few memory operations only, so a worker that waits
\* for it gets it sooner or later even if the user cancels again and again: SF.
Fairness == /\ \A w \in Workers : SF_vars(WorkerStep(w))
            /\ \A c \in Cancellers : WF_vars(CancellerStep(c))
FairSpec == Spec /\ Fairness

-----------------------------------------------------------------------------
(* What must hold.                                                         *)

\* Every variable has a value of its type.
TypeOK ==
    /\ row \in Jobs
    /\ diskState \in FileStates /\ disk \in Images
    /\ writerOpen \in BOOLEAN   /\ writer \in Images
    /\ owner \in Workers \cup {NoWorker}
    /\ committed \in BOOLEAN /\ pending \in BOOLEAN
    /\ lock \in Cancellers \cup {NoCanceller}
    /\ token \in [Workers -> BOOLEAN]
    /\ pc    \in [Workers -> WorkerSteps]
    /\ mode  \in [Workers -> {"run", "resume"}]
    /\ job   \in [Workers -> Jobs]
    /\ start \in [Workers -> 0 .. TraceCount]
    /\ cpc   \in [Cancellers -> CancellerSteps]
    /\ log   \in Seq(Entries)
    /\ up \in BOOLEAN
    /\ crashes \in 0 .. MaxCrashes /\ dbFaults \in 0 .. MaxDbFaults

\* At most one call is past its registration, and _cancel_tokens names it: two
\* executions never hold the same Job row and HDF5 file (lines 581-598).
SingleExecution ==
    \A w \in Workers : Executing(w) <=> owner = w

\* A cancel_job() that returned success is never followed by COMPLETED: the
\* execution it signalled has neither passed the point of no return nor
\* completed its Job, however the two threads interleave (lines 517-532, 758-777).
AcceptedCancelNeverCompletes ==
    \A w \in Workers : token[w] => ~committed /\ job[w].status # "COMPLETED"

\* SQLite never confirms a trace that the readable HDF5 prefix does not hold,
\* whatever failed and whenever the process died ("flush ... before SQLite can
\* advance", hdf5_writer.py:166), and no trace is confirmed without a file.
CheckpointNeverAhead ==
    /\ diskState = "sound"  => row.processed <= disk.attr
    /\ diskState = "absent" => row.processed = 0

\* The prefix marker never covers rows that do not hold filtered amplitudes,
\* and complete is never set on a partial file, on disk or in the open writer.
MarkersHonest ==
    /\ diskState = "sound" => MarkerHonest(disk)
    /\ writerOpen => MarkerHonest(writer)

\* A COMPLETED row means a readable, complete output with every trace: marker
\* and row live in two stores with no common transaction.
CompletedIsWhole ==
    row.status = "COMPLETED" =>
        diskState = "sound" /\ disk.complete /\ disk.attr = TraceCount

\* JOB_COMPLETED is logged "strictly after finalize(): the output is complete
\* on disk" (line 787), and no later crash or resume takes that back.
LoggedCompletionIsOnDisk ==
    (\E i \in 1 .. Len(log) : log[i].event = "JOB_COMPLETED") =>
        diskState = "sound" /\ disk.complete

\* The log explains every cancellation, up to the lines that could not be
\* written: JOB_CANCELLED stands directly behind the CANCEL_REQUESTED that caused
\* it, or in its place if just that write failed, and what is logged after a
\* CANCEL_REQUESTED is the execution's JOB_CANCELLED or JOB_FAILED (lines 217-221:
\* "the CANCEL_REQUESTED -> JOB_CANCELLED/JOB_FAILED order") or, if the process
\* died between the two, the recovery of the RUNNING row or the next resume of a
\* row that had not yet left CANCELLED.  It is never JOB_COMPLETED.
CancellationIsExplained ==
    /\ \A i \in 1 .. Len(log) :
          log[i].event = "JOB_CANCELLED" => i > 1 /\ log[i - 1].event = "CANCEL_REQUESTED"
    /\ \A i \in 1 .. Len(log) - 1 :
          log[i].event = "CANCEL_REQUESTED" =>
              log[i + 1].event \in
                  {"JOB_CANCELLED", "JOB_FAILED", "JOB_INTERRUPTED", "RESUME_STARTED"}

\* While the process runs, a RUNNING row has an execution that will end it:
\* "once the job is RUNNING, any failure ... must still resolve to a terminal
\* job state" (lines 628-632).
NoOrphanRunning ==
    up /\ row.status = "RUNNING" => owner # NoWorker

\* An interrupted job whose checkpoint resume_filter_job() would accept is one
\* that the Resume button offers (main_window.py:905-918): "jobs it left RUNNING
\* become CANCELLED so their HDF5 checkpoint is reachable through Resume"
\* (__main__.py:100-102).
ResumeOffered ==
    /\ row.status = "CANCELLED"
    /\ row.path /\ diskState # "absent"
    /\ row.processed < TraceCount

InterruptedIsReachable ==
    /\ up /\ owner = NoWorker
    /\ Len(log) > 0 /\ log[Len(log)].event = "JOB_INTERRUPTED"
    /\ row.processed > 0 /\ ResumeAdmits(row)
    => ResumeOffered

\* cancel_job() accepts a request only for a job that is RUNNING: one that no
\* worker will look at again is "rejected explicitly instead of silently
\* accepted and then ignored" (lines 487-499).
AcceptedOnlyWhileRunning ==
    \A c \in Cancellers : cpc[c] = "accept" => row.status = "RUNNING"

\* No step loses confirmed work: the row's prefix and resume count never go
\* back, and neither does a readable file's prefix, in the same run, in a
\* resume or across a crash (mode "w" is never used on a file with a prefix).
WorkIsNeverLost ==
    [][/\ row'.processed >= row.processed
       /\ row'.resumes >= row.resumes
       /\ diskState = "sound" /\ diskState' = "sound" => disk'.attr >= disk.attr
      ]_vars

\* Once an execution has begun it ends: no interleaving with cancel_job()
\* leaves it waiting, and the chunk loop terminates.
ExecutionEnds ==
    \A w \in Workers : Executing(w) ~> ~Executing(w)

\* A cancellation accepted while the row is RUNNING takes effect: the job
\* becomes CANCELLED, or FAILED if something raises first, unless the process
\* is killed before.
CancelTakesEffect ==
    \A w \in Workers :
        token[w] /\ row.status = "RUNNING" ~>
            row.status \in {"CANCELLED", "FAILED"} \/ ~up

-----------------------------------------------------------------------------
\* The row and the file, seen as the promise of JobLifecycle.
Lifecycle == INSTANCE JobLifecycle WITH
    record   <- row,
    readable <- diskState = "sound",
    stored   <- disk.attr,
    whole    <- disk.complete

\* Every step of the service, its threads and its crashes is a step of the
\* abstract job or leaves row and file as they are.
ImplementsLifecycle == Lifecycle!LifecycleSpec

-----------------------------------------------------------------------------
(* The inductive invariant: what each step relies on, beyond the types.    *)

\* Registration is exclusive, and a process that is down runs nothing.
Registered == SingleExecution /\ (~up => owner = NoWorker)

\* The point of no return separates cancelling from completing: a token is
\* only ever set on the registered execution before it commits, and nothing
\* completes before it has committed.
CommitOrder ==
    \A w \in Workers :
        /\ token[w] => owner = w /\ ~committed
        /\ job[w].status = "COMPLETED" => owner = w /\ committed
        /\ pc[w] \in {"finalize", "mark", "complete"} => committed

\* Steps at which the call holds a Job object it may still write to the row,
\* a freshly started one among them, and steps at which the file is open.
HoldsJob(w) == pc[w] \notin {"idle", "load", "release"}
Fresh(w)    == \/ pc[w] \in {"start", "create", "recordPath"}
               \/ pc[w] = "open" /\ mode[w] = "run"
Writing(w)  == pc[w] \in {"recordPath", "persistResume", "loop", "write", "checkpoint",
                          "record", "commit", "finalize", "mark", "complete"}
MayBeOpen(w) == Writing(w) \/ pc[w] \in {"flushCancel", "logOutcome", "close"}

\* The file is open exactly while an execution is between opening and closing.
WriterHeld ==
    /\ \A w \in Workers : Writing(w) => writerOpen
    /\ writerOpen => \E w \in Workers : MayBeOpen(w)
    /\ writerOpen => diskState # "absent"

\* processed traces k are in the file, however much of it has been flushed.
Stored(k) ==
    /\ diskState = "sound"  => k <= disk.attr
    /\ diskState = "absent" => k = 0
    /\ writerOpen => k <= writer.attr

RowPrefix ==
    /\ Stored(row.processed)
    /\ row.status = "ABSENT"  => row = NoJob
    /\ row.status = "CREATED" => row.processed = 0

FilePrefix == writerOpen /\ diskState = "sound" => disk.attr <= writer.attr

JobPrefix(w) ==
    /\ HoldsJob(w) =>
          /\ Stored(job[w].processed)
          /\ job[w].status \in {"RUNNING"} \cup Terminal
          /\ row.processed <= job[w].processed
          /\ row.resumes <= job[w].resumes
    /\ Fresh(w) => job[w].processed = 0
    /\ pc[w] = "checkpoint" => writer.attr = Stop(w)

PrefixOrder == RowPrefix /\ FilePrefix /\ \A w \in Workers : JobPrefix(w)

\* A complete marker is on disk, in full, from the moment finalize() returns.
WholeOnDisk == diskState = "sound" /\ disk.complete /\ disk.attr = TraceCount
FinalOrder ==
    /\ writerOpen /\ writer.complete =>
          /\ writer.attr = TraceCount
          /\ (\E w \in Workers : pc[w] = "mark") \/ (WholeOnDisk /\ disk = writer)
    /\ row.status = "COMPLETED" =>
          WholeOnDisk /\ ~writerOpen /\ \A w \in Workers : ~HoldsJob(w)
    /\ \A w \in Workers :
          /\ pc[w] \in {"mark", "complete"} => writer.complete
          /\ job[w].status = "COMPLETED" =>
                /\ pc[w] \in {"close", "persist", "release"}
                /\ WholeOnDisk
                /\ writerOpen => disk = writer

\* Until something raises, the open file holds exactly the rows it promises.
HonestOrder ==
    MarkersHonest /\ \A w \in Workers : Writing(w) => writer.rows = writer.attr

\* A call past its first update works on a job that is not CREATED again.
Begun == row.status \notin {"ABSENT", "CREATED"}
RowBegun == \A w \in Workers : HoldsJob(w) /\ pc[w] # "start" => Begun

\* Once the log says that the output is complete nothing opens it for writing
\* anew, and whoever opens it for a resume finds nothing left to write.
Logged == \E i \in 1 .. Len(log) : log[i].event = "JOB_COMPLETED"
LogOrder ==
    Logged =>
        /\ WholeOnDisk /\ Begun
        /\ writerOpen => disk = writer
        /\ \A w \in Workers : ~Fresh(w) /\ pc[w] # "mark"

IInv == /\ TypeOK /\ Registered /\ CommitOrder /\ WriterHeld
        /\ PrefixOrder /\ FinalOrder /\ HonestOrder /\ RowBegun /\ LogOrder
=============================================================================
