---------------------------- MODULE LifecycleProofs ----------------------------
(***************************************************************************)
(* The service implements JobLifecycle, its log explains every             *)
(* cancellation, and only a failing repository call can orphan a RUNNING   *)
(* row.                                                                    *)
(***************************************************************************)
EXTENDS CompletionProofs

-----------------------------------------------------------------------------
(* The inductive invariant: the row, as each step of an execution knows it. *)

\* Nothing waits to be flushed, and the file is readable.
Clean == diskState = "sound" /\ (writerOpen => disk = writer)

\* The Job that a resume continues.
Continued == Checkpointed(Resumed(row), disk.attr)

Driving(w) == pc[w] \in {"loop", "write", "checkpoint", "commit", "finalize", "mark",
                         "complete"}
Ending(w)  == pc[w] \in {"flushCancel", "logOutcome", "close", "persist"}

\* What a call that ends will write over a RUNNING row ...
EndsRun(w) ==
    \/ /\ job[w].status \in {"FAILED", "CANCELLED"}
       /\ job[w].resumes = row.resumes /\ (row.path => job[w].path)
       /\ job[w].processed # row.processed => Clean
    \/ /\ pc[w] \in {"close", "persist"}
       /\ job[w] = Completed(row) /\ row.processed = TraceCount

\* ... and over a CANCELLED one: the same row if the resume was refused, or the
\* failure of the resume that could not be recorded.
EndsResume(w) ==
    \/ pc[w] \in {"close", "persist"} /\ job[w] = row /\ ~writerOpen
    \/ row.path /\ Clean /\ job[w] = Failed(Continued)

Follows(w) ==
    /\ pc[w] = "start" => CanStart(row) /\ job[w] = Started(row) /\ mode[w] = "run"
    /\ (pc[w] = "open" /\ mode[w] = "run") \/ pc[w] = "create" =>
         CanEnd(row) /\ job[w] = row
    /\ pc[w] = "recordPath" =>
         CanEnd(row) /\ job[w] = [row EXCEPT !.path = TRUE] /\ start[w] = 0
    /\ (pc[w] = "open" /\ mode[w] = "resume") \/ pc[w] = "openResume" =>
         CanResume(row) /\ job[w] = row
    /\ pc[w] = "persistResume" =>
         CanResume(row) /\ row.path /\ Clean /\ job[w] = Continued /\ start[w] = disk.attr
    /\ Driving(w) => CanEnd(row) /\ row.path /\ job[w] = row
    /\ pc[w] \in {"loop", "write", "checkpoint"} => row.processed = start[w]
    /\ pc[w] \in {"commit", "finalize", "mark", "complete"} => row.processed = TraceCount
    /\ pc[w] = "record" =>
         CanEnd(row) /\ row.path /\ Clean /\ job[w] = Checkpointed(row, Stop(w))
    /\ Ending(w) => (CanEnd(row) /\ EndsRun(w)) \/ (CanResume(row) /\ EndsResume(w))

RowFollows == \A w \in Workers : Follows(w)

\* A file that cannot be read promises nothing.
Unreadable == diskState # "sound" => disk = EmptyImage

\* A RUNNING row has an execution that still holds its Job, unless an update has
\* failed.
Driven ==
    up /\ row.status = "RUNNING" => dbFaults > 0 \/ \E w \in Workers : HoldsJob(w)

-----------------------------------------------------------------------------
(* What the log, the token and the pending flag say of each other.         *)

Last == IF log = <<>> THEN "none" ELSE log[Len(log)].event

\* Since a crash behind the line CANCEL_REQUESTED nobody has asked to cancel.
Unasked ==
    /\ ~pending /\ \A c \in Cancellers : cpc[c] = "idle"
    /\ up => row.status # "RUNNING"

LastOrder ==
    /\ ~Begun => Last # "CANCEL_REQUESTED"
    /\ Last = "CANCEL_REQUESTED" => (\E w \in Workers : pc[w] = "logOutcome") \/ Unasked

LockOrder == lock # NoCanceller => cpc[lock] = "accept"

\* A signalled execution finds the pending flag set when it flushes it, and
\* logs its own cancellation on top of what it flushed.
AskOrder(w) ==
    /\ token[w] /\ LockFree =>
          pending \/ pc[w] \in {"logOutcome", "close", "persist", "release"}
    /\ pc[w] = "flushCancel" /\ job[w].status = "CANCELLED" => token[w]
    /\ pc[w] = "logOutcome" /\ job[w].status = "CANCELLED" => Last = "CANCEL_REQUESTED"

CancelOrder ==
    /\ CancellationIsExplained /\ LastOrder /\ LockOrder
    /\ \A w \in Workers : AskOrder(w)

-----------------------------------------------------------------------------
(* The row, step by step.                                                  *)

\* The methods of Job leave the output path alone.
LEMMA JobPaths ==
    ASSUME NEW jb \in Jobs
    PROVE  /\ Started(jb).path = jb.path /\ Failed(jb).path = jb.path
           /\ Completed(jb).path = jb.path /\ Cancelled(jb).path = jb.path
           /\ [jb EXCEPT !.path = TRUE].path = TRUE
           /\ \A k \in 0 .. TraceCount : Checkpointed(jb, k).path = jb.path
BY DEF Jobs, Started, Failed, Completed, Cancelled, Checkpointed

LEMMA ContinuedPath ==
    ASSUME NEW jb \in Jobs, NEW k \in 0 .. TraceCount
    PROVE  Checkpointed(Resumed(jb), k).path = jb.path
<1> DEFINE r == Resumed(jb)
<1>1. r \in Jobs /\ r.path = jb.path
    BY JobTypes DEF Resumed, Started, Jobs
<1> HIDE DEF r
<1>2. Checkpointed(r, k).path = r.path
    BY <1>1, JobPaths
<1> QED
    BY <1>1, <1>2 DEF r

LEMMA FollowsFromPart ==
    ASSUME TypeOK, Registered, NEW w \in Workers, WorkerStep(w), Follows(w)'
    PROVE  RowFollows'
<1>1. \A u \in Workers \ {w} : pc'[u] = "idle"
    BY OthersIdle
<1>2. \A u \in Workers \ {w} : Follows(u)'
    BY <1>1 DEF Follows, Driving, Ending
<1> QED
    BY <1>2 DEF RowFollows

\* The except clause, for a Job that differs from the RUNNING row by what an
\* update has failed to record ...
LEMMA RaiseEndsRun ==
    ASSUME TypeOK, NEW w \in Workers, NEW jb \in Jobs, Raise(w, jb), row' = row,
           CanEnd(row), CanEnd(jb), jb.resumes = row.resumes, row.path => jb.path,
           jb.processed # row.processed => Clean'
    PROVE  Follows(w)'
<1>1. /\ job'[w].status = "FAILED" /\ pc'[w] = "flushCancel"
      /\ job'[w].processed = jb.processed /\ job'[w].resumes = jb.resumes
    BY RaiseFacts DEF CanEnd
<1>2. job'[w].path = jb.path
    BY JobPaths DEF Raise, TypeOK, CanEnd
<1> QED
    BY <1>1, <1>2 DEF Follows, Driving, Ending, EndsRun, CanEnd

\* ... for a resume that is refused ...
LEMMA RaiseRefuses ==
    ASSUME TypeOK, NEW w \in Workers, Raise(w, job[w]), row' = row, job[w] = row,
           CanResume(row), ~writerOpen'
    PROVE  Follows(w)'
<1>1. job'[w] = row /\ pc'[w] = "close"
    BY DEF TypeOK, Raise, CanEnd, CanResume, Goto
<1> QED
    BY <1>1 DEF Follows, Driving, Ending, EndsResume, CanResume

\* ... and for one that could not be recorded.
LEMMA RaiseEndsResume ==
    ASSUME TypeOK, NEW w \in Workers, Raise(w, job[w]),
           UNCHANGED <<row, diskState, disk, writerOpen, writer>>,
           CanResume(row), row.path, Clean, job[w] = Continued, CanEnd(job[w])
    PROVE  Follows(w)'
<1>1. job'[w] = Failed(job[w]) /\ pc'[w] = "flushCancel"
    BY DEF TypeOK, Raise, CanEnd, Goto
<1>2. Clean' /\ Continued' = Continued
    BY DEF Clean, Continued
<1> QED
    BY <1>1, <1>2 DEF Follows, Driving, Ending, EndsResume, CanResume

\* A call that has not opened the file yet finds it closed.
LEMMA OpenNotYet ==
    ASSUME TypeOK, Registered, WriterHeld, NEW w \in Workers,
           pc[w] \in {"open", "openResume"}
    PROVE  ~writerOpen
BY Alone DEF WriterHeld, MayBeOpen, Writing

LEMMA FollowsWorkerStep ==
    ASSUME TypeOK, Registered, WriterHeld, PrefixOrder, RowFollows,
           NEW w \in Workers, WorkerStep(w)
    PROVE  RowFollows'
<1> SUFFICES Follows(w)'
    BY FollowsFromPart
<1> USE DEF fileVars
<1>0. /\ Follows(w) /\ JobPrefix(w) /\ job[w] \in Jobs /\ row \in Jobs
      /\ pc \in [Workers -> WorkerSteps] /\ mode \in [Workers -> {"run", "resume"}]
      /\ job \in [Workers -> Jobs] /\ start \in [Workers -> 0 .. TraceCount]
      /\ disk.attr \in 0 .. TraceCount /\ Stop(w) \in 0 .. TraceCount
      /\ Writing(w) => writerOpen
      /\ pc[w] \in {"open", "openResume"} => ~writerOpen
    BY StopType, OpenNotYet DEF RowFollows, PrefixOrder, TypeOK, WriterHeld, Images
<1> USE DEF CanEnd, CanResume, CanStart
<1>1. CASE Load(w)
  <2>1. CASE pc'[w] = "release"
    BY <2>1 DEF Follows, Driving, Ending
  <2>2. CASE pc'[w] = "start"
    <3>1. /\ mode[w] = "run" /\ mode' = mode /\ job'[w] = Started(row)
          /\ row.status = "CREATED" /\ row' = row
      BY <1>0, <1>1, <2>2 DEF Load, LoadAdmits, Goto
    <3> QED
      BY <2>2, <3>1 DEF Follows, Driving, Ending
  <2>3. CASE pc'[w] = "open"
    <3>1. /\ mode[w] = "resume" /\ mode' = mode /\ job'[w] = row /\ row.status = "CANCELLED"
          /\ row' = row
      BY <1>0, <1>1, <2>3 DEF Load, LoadAdmits, Goto
    <3> QED
      BY <2>3, <3>1 DEF Follows, Driving, Ending
  <2> QED
    BY <1>0, <1>1, <2>1, <2>2, <2>3 DEF Load, Goto
<1>2. CASE StartRun(w)
  <2>1. CASE pc'[w] = "release"
    BY <2>1 DEF Follows, Driving, Ending
  <2>2. CASE pc'[w] = "open"
    <3>1. row' = job[w] /\ job' = job /\ mode' = mode /\ job[w] = Started(row)
      BY <1>0, <1>2, <2>2 DEF StartRun, Goto, Update, Follows
    <3>2. row'.status = "RUNNING"
      BY <1>0, <3>1, JobFields
    <3>3. mode[w] = "run"
      BY <1>2, <1>0 DEF StartRun, Follows
    <3> QED
      BY <2>2, <3>1, <3>2, <3>3 DEF Follows, Driving, Ending
  <2> QED
    BY <1>0, <1>2, <2>1, <2>2 DEF StartRun, Goto
<1>3. CASE OpenSource(w)
  <2>1. row' = row /\ (CanEnd(row) \/ CanResume(row)) /\ job[w] = row
        /\ (mode[w] = "run" <=> CanEnd(row))
    BY <1>0, <1>3 DEF OpenSource, Follows
  <2>2. CASE Raise(w, job[w])
    <3>1. ~writerOpen'
      BY <1>0, <1>3 DEF OpenSource
    <3> QED
      BY <1>0, <2>1, <2>2, <3>1, RaiseEndsRun, RaiseRefuses
  <2>3. CASE ~Raise(w, job[w])
    <3>1. /\ job' = job /\ mode' = mode
          /\ pc'[w] = IF mode[w] = "run" THEN "create" ELSE "openResume"
      BY <1>0, <1>3, <2>3 DEF OpenSource, Goto
    <3> QED
      BY <2>1, <3>1 DEF Follows, Driving, Ending
  <2> QED
    BY <2>2, <2>3
<1>4. CASE CreateWriter(w)
  <2>1. row' = row /\ CanEnd(row) /\ job[w] = row
    BY <1>0, <1>4 DEF CreateWriter, Follows
  <2>2. CASE Raise(w, job[w])
    BY <1>0, <2>1, <2>2, RaiseEndsRun
  <2>3. CASE ~Raise(w, job[w])
    <3>1. /\ job'[w] = [row EXCEPT !.path = TRUE] /\ start'[w] = 0
          /\ pc'[w] = "recordPath"
      BY <1>0, <1>4, <2>1, <2>3 DEF CreateWriter, Goto
    <3> QED
      BY <2>1, <3>1 DEF Follows, Driving, Ending
  <2> QED
    BY <2>2, <2>3
<1>5. CASE RecordPath(w)
  <2>1. /\ CanEnd(row) /\ job[w] = [row EXCEPT !.path = TRUE] /\ start[w] = 0
        /\ start' = start /\ job[w].processed = 0
    BY <1>0, <1>5 DEF RecordPath, Follows, JobPrefix, Fresh
  <2>2. /\ job[w].status = row.status /\ job[w].path = TRUE
        /\ job[w].processed = row.processed /\ job[w].resumes = row.resumes
    BY <1>0, <2>1, JobFields, JobPaths
  <2>3. CASE Raise(w, job[w])
    <3>1. row' = row
      BY <1>5, <1>0, <2>3 DEF RecordPath, Raise, Goto, UpdateFails
    <3> QED
      BY <1>0, <2>1, <2>2, <2>3, <3>1, RaiseEndsRun
  <2>4. CASE ~Raise(w, job[w])
    <3>1. row' = job[w] /\ job' = job /\ pc'[w] = "loop"
      BY <1>0, <1>5, <2>4 DEF RecordPath, Goto, Update
    <3> QED
      BY <2>1, <2>2, <3>1 DEF Follows, Driving, Ending
  <2> QED
    BY <2>3, <2>4
<1>6. CASE OpenResume(w)
  <2>1. row' = row /\ CanResume(row) /\ job[w] = row /\ UNCHANGED <<diskState, disk>>
    BY <1>0, <1>6 DEF OpenResume, Follows
  <2>2. CASE Raise(w, job[w])
    <3>1. ~writerOpen'
      BY <1>0, <1>6, <2>2, <2>1 DEF OpenResume, Raise, Goto
    <3> QED
      BY <1>0, <2>1, <2>2, <3>1, RaiseRefuses
  <2>3. CASE ~Raise(w, job[w])
    <3>1. /\ ResumeAdmits(job[w]) /\ writer' = disk /\ start'[w] = disk.attr
          /\ job'[w] = Checkpointed(Resumed(row), disk.attr) /\ pc'[w] = "persistResume"
      BY <1>0, <1>6, <2>1, <2>3 DEF OpenResume, Goto
    <3>2. Clean' /\ row.path /\ job'[w] = Continued'
      BY <2>1, <3>1 DEF ResumeAdmits, Clean, Continued
    <3> QED
      BY <2>1, <3>1, <3>2 DEF Follows, Driving, Ending
  <2> QED
    BY <2>2, <2>3
<1>7. CASE PersistResume(w)
  <2>1. /\ CanResume(row) /\ row.path /\ Clean /\ job[w] = Continued
        /\ start[w] = disk.attr /\ start' = start
        /\ UNCHANGED <<diskState, disk, writerOpen, writer>>
    BY <1>0, <1>7 DEF PersistResume, Follows
  <2>2. /\ job[w].status = "RUNNING" /\ job[w].processed = disk.attr /\ job[w].path
    BY <1>0, <2>1, ContinuedFields, ContinuedPath DEF Continued
  <2>3. CASE Raise(w, job[w])
    <3>1. row' = row
      BY <1>7, <1>0, <2>3 DEF PersistResume, Raise, Goto, UpdateFails
    <3> QED
      BY <1>0, <2>1, <2>2, <2>3, <3>1, RaiseEndsResume
  <2>4. CASE ~Raise(w, job[w])
    <3>1. row' = job[w] /\ job' = job /\ pc'[w] = "loop"
      BY <1>0, <1>7, <2>4 DEF PersistResume, Goto, Update
    <3> QED
      BY <2>1, <2>2, <3>1 DEF Follows, Driving, Ending
  <2> QED
    BY <2>3, <2>4
<1>8. ASSUME Driving(w), Raise(w, job[w]), row' = row PROVE Follows(w)'
  <2>1. CanEnd(row) /\ job[w] = row
    BY <1>0, <1>8 DEF Follows
  <2> QED
    BY <1>0, <1>8, <2>1, RaiseEndsRun
<1>9. CASE Loop(w)
  <2>1. /\ row' = row /\ Driving(w) /\ CanEnd(row) /\ row.path /\ job[w] = row
        /\ row.processed = start[w] /\ start' = start
    BY <1>0, <1>9 DEF Loop, Follows, Driving
  <2>2. CASE Raise(w, job[w])
    BY <1>8, <2>1, <2>2
  <2>3. CASE job'[w] = Cancelled(row) /\ pc'[w] = "flushCancel"
    BY <1>0, <2>1, <2>3, JobFields, JobPaths DEF Follows, Driving, Ending, EndsRun
  <2>4. CASE job' = job /\ pc'[w] = "write"
    BY <2>1, <2>4 DEF Follows, Driving, Ending
  <2>5. CASE job' = job /\ pc'[w] = "commit" /\ start[w] >= TraceCount
    <3>1. row.processed = TraceCount
      BY <1>0, <2>1, <2>5, TraceCountAssumption
    <3> QED
      BY <2>1, <2>5, <3>1 DEF Follows, Driving, Ending
  <2> QED
    BY <1>0, <1>9, <2>1, <2>2, <2>3, <2>4, <2>5 DEF Loop, Goto
<1>10. CASE WriteChunk(w)
  <2>1. /\ row' = row /\ Driving(w) /\ CanEnd(row) /\ row.path /\ job[w] = row
        /\ row.processed = start[w] /\ start' = start
    BY <1>0, <1>10 DEF WriteChunk, Follows, Driving
  <2>2. CASE Raise(w, job[w])
    BY <1>8, <2>1, <2>2
  <2>3. CASE ~Raise(w, job[w])
    <3>1. job' = job /\ pc'[w] = "checkpoint"
      BY <1>0, <1>10, <2>3 DEF WriteChunk, Goto
    <3> QED
      BY <2>1, <3>1 DEF Follows, Driving, Ending
  <2> QED
    BY <2>2, <2>3
<1>11. CASE Checkpoint(w)
  <2>1. /\ row' = row /\ Driving(w) /\ CanEnd(row) /\ row.path /\ job[w] = row
        /\ start' = start /\ UNCHANGED <<writer, writerOpen>>
    BY <1>0, <1>11 DEF Checkpoint, Follows, Driving
  <2>2. CASE Raise(w, job[w])
    BY <1>8, <2>1, <2>2
  <2>3. CASE ~Raise(w, job[w])
    <3>1. /\ job'[w] = Checkpointed(row, Stop(w)) /\ pc'[w] = "record" /\ Flushed
      BY <1>0, <1>11, <2>1, <2>3 DEF Checkpoint, Goto
    <3>2. Clean' /\ Stop(w)' = Stop(w)
      BY <2>1, <3>1 DEF Flushed, Clean, Stop
    <3> QED
      BY <2>1, <3>1, <3>2 DEF Follows, Driving, Ending
  <2> QED
    BY <2>2, <2>3
<1>12. CASE Record(w)
  <2>1. /\ CanEnd(row) /\ row.path /\ Clean /\ job[w] = Checkpointed(row, Stop(w))
        /\ UNCHANGED <<diskState, disk, writerOpen, writer>>
    BY <1>0, <1>12 DEF Record, Follows
  <2>2. /\ job[w].status = "RUNNING" /\ job[w].processed = Stop(w) /\ job[w].path
        /\ job[w].resumes = row.resumes /\ Clean'
    BY <1>0, <2>1, JobFields, JobPaths DEF Clean
  <2>3. CASE Raise(w, job[w])
    <3>1. row' = row
      BY <1>12, <1>0, <2>3 DEF Record, Raise, Goto, UpdateFails
    <3> QED
      BY <1>0, <2>1, <2>2, <2>3, <3>1, RaiseEndsRun
  <2>4. CASE ~Raise(w, job[w])
    <3>1. row' = job[w] /\ job' = job /\ pc'[w] = "loop" /\ start'[w] = Stop(w)
      BY <1>0, <1>12, <2>4 DEF Record, Goto, Update
    <3> QED
      BY <2>2, <3>1 DEF Follows, Driving, Ending
  <2> QED
    BY <2>3, <2>4
<1>13. CASE Commit(w)
  <2>1. /\ row' = row /\ CanEnd(row) /\ row.path /\ job[w] = row
        /\ row.processed = TraceCount
    BY <1>0, <1>13 DEF Commit, Follows, Driving
  <2>2. CASE job'[w] = Cancelled(row) /\ pc'[w] = "flushCancel"
    BY <1>0, <2>1, <2>2, JobFields, JobPaths DEF Follows, Driving, Ending, EndsRun
  <2>3. CASE job' = job /\ pc'[w] = "finalize"
    BY <2>1, <2>3 DEF Follows, Driving, Ending
  <2> QED
    BY <1>0, <1>13, <2>1, <2>2, <2>3 DEF Commit, Goto
<1>14. CASE Finalize(w) \/ Mark(w)
  <2>1. /\ row' = row /\ Driving(w) /\ CanEnd(row) /\ row.path /\ job[w] = row
        /\ row.processed = TraceCount
    BY <1>0, <1>14 DEF Finalize, Mark, Follows, Driving
  <2>2. CASE Raise(w, job[w])
    BY <1>8, <2>1, <2>2
  <2>3. CASE ~Raise(w, job[w])
    <3>1. job' = job /\ pc'[w] \in {"mark", "complete"}
      BY <1>0, <1>14, <2>3 DEF Finalize, Mark, Goto
    <3> QED
      BY <2>1, <3>1 DEF Follows, Driving, Ending
  <2> QED
    BY <2>2, <2>3
<1>15. CASE Complete(w)
  <2>1. /\ row' = row /\ CanEnd(row) /\ job[w] = row /\ row.processed = TraceCount
    BY <1>0, <1>15 DEF Complete, Follows, Driving
  <2>2. job'[w] = Completed(row) /\ pc'[w] = "close"
    BY <1>0, <1>15, <2>1 DEF Complete, Goto
  <2> QED
    BY <2>1, <2>2 DEF Follows, Driving, Ending, EndsRun
<1>16. CASE FlushCancel(w) \/ LogOutcome(w) \/ Close(w)
  <2>1. /\ row' = row /\ job' = job /\ Ending(w) /\ pc'[w] \in {"logOutcome", "close", "persist"}
        /\ (pc[w] \in {"close", "persist"} => pc'[w] \in {"close", "persist"})
    BY <1>0, <1>16 DEF FlushCancel, LogOutcome, Close, Goto, Ending
  <2>2. /\ Clean => Clean' /\ disk' = disk
        /\ ~writerOpen => ~writerOpen'
    BY <1>16 DEF FlushCancel, LogOutcome, Close, Clean, FlushInterrupted, Dirty
  <2>3. EndsRun(w) => EndsRun(w)'
    BY <2>1, <2>2 DEF EndsRun
  <2>4. EndsResume(w) => EndsResume(w)'
    BY <2>1, <2>2 DEF EndsResume, Continued
  <2> QED
    BY <1>0, <2>1, <2>3, <2>4 DEF Follows, Driving, Ending
<1>17. CASE Persist(w) \/ Release(w)
  <2>1. pc'[w] \in {"release", "idle"}
    BY <1>0, <1>17 DEF Persist, Release, Goto
  <2> QED
    BY <2>1 DEF Follows, Driving, Ending
<1> QED
    BY <1>1, <1>2, <1>3, <1>4, <1>5, <1>6, <1>7, <1>9, <1>10, <1>11, <1>12, <1>13, <1>14,
       <1>15, <1>16, <1>17 DEF WorkerStep

LEMMA FollowsStep ==
    ASSUME TypeOK, Registered, WriterHeld, PrefixOrder, RowBegun, RowFollows, [Next]_vars
    PROVE  RowFollows'
<1> USE DEF fileVars, workerVars
<1>1. CASE \E w \in Workers : WorkerStep(w)
    BY <1>1, FollowsWorkerStep
<1>2. ASSUME NEW w \in Workers, NEW m \in {"run", "resume"}, Register(w, m)
      PROVE  RowFollows'
  <2>1. pc'[w] = "load" /\ \A u \in Workers \ {w} : pc'[u] = "idle"
    BY <1>2, ThreadsAssumption
    DEF Register, Goto, TypeOK, NotRegistered, Registered, SingleExecution, Executing
  <2> QED
    BY <2>1 DEF RowFollows, Follows, Driving, Ending
<1>3. CASE Crash
  <2>1. \A u \in Workers : pc'[u] = "idle"
    BY <1>3 DEF Crash
  <2> QED
    BY <2>1 DEF RowFollows, Follows, Driving, Ending
<1>4. CASE CreateFilterJob
  <2>1. \A u \in Workers : pc'[u] \in {"idle", "load", "release"}
    BY <1>4 DEF CreateFilterJob, RowBegun, Begun, HoldsJob, RowFollows, Follows, CanStart
  <2> QED
    BY <2>1 DEF RowFollows, Follows, Driving, Ending
<1>5. CASE Restart
  <2>1. \A u \in Workers : pc'[u] = "idle"
    BY <1>5, ThreadsAssumption DEF Restart, Registered, SingleExecution, Executing
  <2> QED
    BY <2>1 DEF RowFollows, Follows, Driving, Ending
<1>6. CASE UNCHANGED <<row, fileVars, pc, mode, job, start>>
  <2> SUFFICES ASSUME NEW u \in Workers PROVE Follows(u)'
    BY DEF RowFollows
  <2>1. /\ Follows(u) /\ pc'[u] = pc[u] /\ mode'[u] = mode[u] /\ job'[u] = job[u]
        /\ start'[u] = start[u] /\ row' = row /\ disk' = disk /\ Stop(u)' = Stop(u)
    BY <1>6 DEF RowFollows, Stop
  <2>2. Clean' = Clean /\ writerOpen' = writerOpen
    BY <1>6 DEF Clean
  <2>3. Continued' = Continued
    BY <1>6 DEF Continued
  <2>4. EndsRun(u)' = EndsRun(u)
    BY <2>1, <2>2 DEF EndsRun
  <2>5. EndsResume(u)' = EndsResume(u)
    BY <2>1, <2>2, <2>3 DEF EndsResume
  <2> HIDE DEF fileVars, workerVars
  <2> QED
    BY <2>1, <2>2, <2>3, <2>4, <2>5 DEF Follows, Driving, Ending
<1>7. \/ \E w \in Workers : WorkerStep(w)
      \/ \E w \in Workers : \E m \in {"run", "resume"} : Register(w, m)
      \/ Crash \/ CreateFilterJob \/ Restart
      \/ UNCHANGED <<row, fileVars, pc, mode, job, start>>
    BY DEF Next, vars, CancelRead, CancellerStep, CancelDecide, CancelAccept
<1> QED
    BY <1>1, <1>2, <1>3, <1>4, <1>5, <1>6, <1>7

LEMMA UnreadableStep ==
    ASSUME Unreadable, [Next]_vars
    PROVE  Unreadable'
<1> USE DEF Unreadable, fileVars, FlushInterrupted, Flushed
<1>1. ASSUME NEW w \in Workers, WorkerStep(w) PROVE Unreadable'
    BY <1>1 DEF WorkerStep, Load, StartRun, OpenSource, CreateWriter, RecordPath, OpenResume,
       PersistResume, Loop, WriteChunk, Checkpoint, Record, Commit, Finalize, Mark,
       Complete, FlushCancel, LogOutcome, Close, Persist, Release
<1> QED
    BY <1>1 DEF Next, vars, CreateFilterJob, Register, CancelRead, CancellerStep,
                CancelDecide, CancelAccept, Crash, Restart

\* The last update of a call never leaves the row RUNNING.
LEMMA PersistEnds ==
    ASSUME TypeOK, NEW w \in Workers, Follows(w), Persist(w)
    PROVE  job[w].status # "RUNNING"
<1>0. row \in Jobs
    BY DEF TypeOK
<1>1. (CanEnd(row) /\ EndsRun(w)) \/ (CanResume(row) /\ EndsResume(w))
    BY DEF Persist, Follows, Ending
<1>2. EndsRun(w) => job[w].status # "RUNNING"
    BY <1>0, JobFields DEF EndsRun
<1>3. CanResume(row) /\ EndsResume(w) => job[w].status # "RUNNING"
  <2>1. Continued \in Jobs
    BY <1>0, ContinuedFields DEF Continued, TypeOK, Images
  <2> QED
    BY <2>1, JobFields DEF EndsResume, CanResume
<1> QED
    BY <1>1, <1>2, <1>3

\* RUNNING rows are written by calls that go on, and left by calls that have
\* written a terminal one, unless an update raises.
LEMMA DrivenStep ==
    ASSUME TypeOK, Registered, RowFollows, RowFollows', Driven, [Next]_vars
    PROVE  Driven'
<1> USE DEF fileVars, regVars, workerVars, envVars
<1>0. dbFaults \in Nat /\ pc \in [Workers -> WorkerSteps] /\ row \in Jobs
    BY DEF TypeOK
<1>1. ASSUME NEW w \in Workers, WorkerStep(w) PROVE Driven'
  <2>0. /\ Follows(w) /\ pc'[w] \in WorkerSteps
        /\ \A u \in Workers \ {w} : ~HoldsJob(u)
    BY <1>1, OthersIdle, NextTypeOK DEF RowFollows, HoldsJob, TypeOK, Next
  <2>1. CASE HoldsJob(w)'
    BY <2>1 DEF Driven
  <2>2. CASE Load(w) /\ ~HoldsJob(w)'
    BY <1>0, <2>0, <2>2 DEF Load, DbWorks, DbFails, Driven, HoldsJob
  <2>3. CASE StartRun(w) /\ ~HoldsJob(w)'
    BY <1>0, <2>3 DEF StartRun, UpdateFails, DbFails, Goto, Driven, HoldsJob
  <2>4. CASE Persist(w)
    <3>1. job[w].status # "RUNNING"
      BY <2>0, <2>4, PersistEnds
    <3> QED
      BY <1>0, <2>4, <3>1 DEF Persist, Update, UpdateFails, DbFails, Driven
  <2>5. CASE Release(w)
    BY <1>0, <2>0, <2>5 DEF Release, Driven, HoldsJob, Goto
  <2>6. HoldsJob(w)' \/ Load(w) \/ StartRun(w) \/ Persist(w) \/ Release(w)
    <3>1. CASE OpenSource(w) \/ CreateWriter(w) \/ RecordPath(w) \/ OpenResume(w)
               \/ PersistResume(w) \/ Loop(w) \/ WriteChunk(w) \/ Checkpoint(w)
               \/ Record(w)
      BY <1>0, <3>1
         DEF OpenSource, CreateWriter, RecordPath, OpenResume, PersistResume, Loop,
             WriteChunk, Checkpoint, Record, Goto, Raise, HoldsJob
    <3>2. CASE Commit(w) \/ Finalize(w) \/ Mark(w) \/ Complete(w) \/ FlushCancel(w)
               \/ LogOutcome(w) \/ Close(w)
      BY <1>0, <3>2
         DEF Commit, Finalize, Mark, Complete, FlushCancel, LogOutcome, Close, Goto, Raise,
             HoldsJob
    <3> QED
      BY <1>1, <3>1, <3>2 DEF WorkerStep
  <2> QED
    BY <2>1, <2>2, <2>3, <2>4, <2>5, <2>6
<1>2. ASSUME NEW w \in Workers, NEW m \in {"run", "resume"}, Register(w, m)
      PROVE  Driven'
  <2>1. \A u \in Workers : ~HoldsJob(u)
    BY <1>2, ThreadsAssumption
       DEF Register, NotRegistered, Registered, SingleExecution, Executing, HoldsJob
  <2> QED
    BY <1>2, <2>1 DEF Register, Driven
<1>3. CASE Crash \/ CreateFilterJob \/ Restart
  <2>1. up' => row'.status # "RUNNING"
    BY <1>3, JobFields, <1>0
       DEF Crash, CreateFilterJob, NewJob, NoJob, Restart, Recovered, Registered
  <2> QED
    BY <2>1 DEF Driven
<1>4. CASE UNCHANGED <<row, pc, up, dbFaults>>
    BY <1>4 DEF Driven, HoldsJob
<1>5. \/ \E w \in Workers : WorkerStep(w)
      \/ \E w \in Workers : \E m \in {"run", "resume"} : Register(w, m)
      \/ Crash \/ CreateFilterJob \/ Restart
      \/ UNCHANGED <<row, pc, up, dbFaults>>
    BY DEF Next, vars, CancelRead, CancellerStep, CancelDecide, CancelAccept
<1> QED
    BY <1>1, <1>2, <1>3, <1>4, <1>5

\* What the theorems below rest on: row, file and executions at every step.
LifecycleInv ==
    /\ TypeOK /\ Registered /\ CommitOrder /\ WriterHeld
    /\ PrefixOrder /\ FinalOrder /\ HonestOrder /\ RowBegun
    /\ RowFollows /\ Unreadable /\ Driven

LEMMA InitLifecycle == Init => LifecycleInv
<1> SUFFICES ASSUME Init PROVE LifecycleInv
    OBVIOUS
<1>1. TypeOK /\ Registered
    BY InitTypeOK, InitRegistered
<1>2. CommitOrder /\ RowBegun /\ RowFollows /\ Unreadable /\ Driven
    BY DEF Init, CommitOrder, RowBegun, HoldsJob, RowFollows, Follows, Driving, Ending,
           Unreadable, Driven, NoJob
<1>3. WriterHeld /\ FinalOrder /\ HonestOrder
    BY DEF Init, WriterHeld, FinalOrder, HonestOrder, MarkersHonest, Writing, MayBeOpen,
           NoJob
<1>4. PrefixOrder
    BY DEF Init, PrefixOrder, RowPrefix, FilePrefix, JobPrefix, Stored, HoldsJob, Fresh,
           NoJob
<1> QED
    BY <1>1, <1>2, <1>3, <1>4 DEF LifecycleInv

LEMMA LifecycleInvStep ==
    ASSUME LifecycleInv, [Next]_vars
    PROVE  LifecycleInv'
<1>1. TypeOK' /\ Registered' /\ CommitOrder' /\ WriterHeld' /\ PrefixOrder'
    BY NextTypeOK, RegisteredStep, CommitOrderStep, WriterHeldStep, PrefixStep
       DEF LifecycleInv
<1>2. FinalOrder' /\ HonestOrder' /\ RowBegun'
    BY FinalStep, HonestStep, RowBegunStep DEF LifecycleInv
<1>3. RowFollows' /\ Unreadable'
    BY FollowsStep, UnreadableStep DEF LifecycleInv
<1>4. Driven'
    BY <1>3, DrivenStep DEF LifecycleInv
<1> QED
    BY <1>1, <1>2, <1>3, <1>4 DEF LifecycleInv

\* At every step of an execution the row is what the execution has made of it:
\* RUNNING until the last update, CANCELLED until a resume is recorded, and
\* different from the Job in memory only by what an update failed to record.
THEOREM LifecycleInvariant == Spec => []LifecycleInv
BY InitLifecycle, LifecycleInvStep, PTL DEF Spec

\* A RUNNING row without an execution needs a repository call that failed: as
\* long as none has, whatever else raises or is killed (lines 628-632).
THEOREM OrphansNeedFaults == Spec => [](dbFaults = 0 => NoOrphanRunning)
<1>1. LifecycleInv => (dbFaults = 0 => NoOrphanRunning)
  <2> SUFFICES ASSUME LifecycleInv, dbFaults = 0, up, row.status = "RUNNING"
               PROVE  owner # NoWorker
    BY DEF NoOrphanRunning
  <2>1. PICK w \in Workers : HoldsJob(w)
    BY DEF LifecycleInv, Driven
  <2>2. owner = w
    BY <2>1, Alone DEF LifecycleInv, HoldsJob
  <2> QED
    BY <2>2, ThreadsAssumption
<1> QED
    BY <1>1, LifecycleInvariant, PTL

-----------------------------------------------------------------------------
(* JobLifecycle, step by step.                                             *)

\* The two modules mean the same by a Job and by its methods.
LEMMA SameJobs ==
    /\ Lifecycle!NoJob = NoJob /\ Lifecycle!NewJob = NewJob
    /\ \A jb : /\ Lifecycle!CanStart(jb) = CanStart(jb)
               /\ Lifecycle!Started(jb) = Started(jb)
               /\ Lifecycle!CanResume(jb) = CanResume(jb)
               /\ Lifecycle!Resumed(jb) = Resumed(jb)
BY DEF Lifecycle!NoJob, NoJob, Lifecycle!NewJob, NewJob, Lifecycle!CanStart, CanStart,
       Lifecycle!Started, Started, Lifecycle!CanResume, CanResume, Lifecycle!Resumed, Resumed

\* The Job of a resume, as Again writes it.
LEMMA AgainJobs ==
    ASSUME NEW jb \in Jobs, NEW k \in 0 .. TraceCount
    PROVE  /\ Checkpointed(Resumed(jb), k)
                 = [Resumed(jb) EXCEPT !.status = "RUNNING", !.processed = k]
           /\ Failed(Checkpointed(Resumed(jb), k))
                 = [Resumed(jb) EXCEPT !.status = "FAILED", !.processed = k]
<1> DEFINE r == Resumed(jb)
<1>1. r \in Jobs /\ r.status = "RUNNING"
    BY JobTypes, ResumedFields DEF Resumed
<1> HIDE DEF r
<1>2. /\ Checkpointed(r, k) = [r EXCEPT !.status = "RUNNING", !.processed = k]
      /\ Failed(Checkpointed(r, k)) = [r EXCEPT !.status = "FAILED", !.processed = k]
    BY <1>1 DEF Checkpointed, Failed, Jobs
<1> QED
    BY <1>2 DEF r

\* A step that writes the row and leaves the file alone.
RowStep ==
    /\ UNCHANGED <<diskState, disk>>
    /\ \/ Lifecycle!Begin \/ Lifecycle!Advance \/ Lifecycle!Locate
       \/ Lifecycle!End \/ Lifecycle!Finish \/ Lifecycle!Again

LEMMA RowStepIsStep ==
    ASSUME RowStep
    PROVE  Lifecycle!LifecycleNext
BY DEF RowStep, Lifecycle!LifecycleNext, Lifecycle!output

\* An execution's last update of a RUNNING row.
LEMMA EndRefines ==
    ASSUME row \in Jobs, row' \in Jobs, CanEnd(row),
           row'.status \in {"FAILED", "CANCELLED"}, row'.resumes = row.resumes,
           row.path => row'.path, row.processed <= row'.processed,
           row'.processed # row.processed =>
              diskState = "sound" /\ row'.processed <= disk.attr
    PROVE  Lifecycle!End
<1> DEFINE s == row'.status
           k == row'.processed
           p == row'.path
<1>1. /\ s \in {"FAILED", "CANCELLED"} /\ k \in row.processed .. TraceCount
      /\ p \in BOOLEAN /\ (row.path => p)
      /\ k > row.processed => diskState = "sound" /\ k <= disk.attr
    BY TraceCountAssumption DEF Jobs
<1>2. row' = [row EXCEPT !.status = s, !.processed = k, !.path = p]
    BY DEF Jobs
<1> HIDE DEF s, k, p
<1> QED
    BY <1>1, <1>2 DEF Lifecycle!End, CanEnd

LEMMA UpdateRefines ==
    ASSUME LifecycleInv, LifecycleInv', NEW w \in Workers, WorkerStep(w), row' # row
    PROVE  RowStep
<1> USE DEF fileVars
<1>0. /\ row \in Jobs /\ row' \in Jobs /\ job[w] \in Jobs /\ disk \in Images
      /\ Stop(w) \in 0 .. TraceCount
      /\ TypeOK /\ Follows(w) /\ JobPrefix(w) /\ RowPrefix
    BY StopType DEF LifecycleInv, TypeOK, RowFollows, PrefixOrder
<1>1. row' = job[w] /\ HoldsJob(w)
    BY RowWrites
<1>2. /\ Stored(job[w].processed) /\ row.processed <= job[w].processed
    BY <1>0, <1>1 DEF JobPrefix
<1>3. CASE StartRun(w)
  <2>1. CanStart(row) /\ row' = Started(row) /\ UNCHANGED <<diskState, disk>>
    BY <1>0, <1>1, <1>3 DEF StartRun, Follows
  <2>2. Lifecycle!Begin
    BY <2>1, SameJobs DEF Lifecycle!Begin
  <2> QED
    BY <2>1, <2>2 DEF RowStep
<1>4. CASE RecordPath(w)
  <2>1. /\ CanEnd(row) /\ row' = [row EXCEPT !.path = TRUE] /\ job[w].processed = 0
        /\ UNCHANGED <<diskState, disk>>
    BY <1>0, <1>1, <1>4 DEF RecordPath, Follows, JobPrefix, Fresh
  <2>2. row.processed = 0
    <3>1. [row EXCEPT !.path = TRUE].processed = row.processed
      BY <1>0, JobFields
    <3> QED
      BY <1>1, <2>1, <3>1
  <2>3. Lifecycle!Locate
    BY <2>1, <2>2 DEF Lifecycle!Locate, CanEnd
  <2> QED
    BY <2>1, <2>3 DEF RowStep
<1>5. ASSUME UNCHANGED <<diskState, disk>>, CanResume(row), row.path, Clean,
             row' \in {Continued, Failed(Continued)}
      PROVE  RowStep
  <2>1. disk.attr \in 0 .. TraceCount
    BY <1>0 DEF Images
  <2>2. row' \in {[Resumed(row) EXCEPT !.status = s, !.processed = disk.attr] :
                       s \in {"RUNNING", "FAILED"}}
    BY <1>0, <1>5, <2>1, AgainJobs DEF Continued
  <2>3. Lifecycle!Again
    BY <1>5, <2>2, SameJobs DEF Lifecycle!Again, Clean
  <2> QED
    BY <1>5, <2>3 DEF RowStep
<1>6. CASE PersistResume(w)
  <2>1. /\ CanResume(row) /\ row.path /\ Clean /\ job[w] = Continued
        /\ UNCHANGED <<diskState, disk>>
    BY <1>0, <1>6 DEF PersistResume, Follows
  <2> QED
    BY <1>1, <1>5, <2>1
<1>7. CASE Record(w)
  <2> DEFINE k == Stop(w)
  <2>1. /\ CanEnd(row) /\ row.path /\ Clean /\ row' = Checkpointed(row, k)
        /\ UNCHANGED <<diskState, disk>>
    BY <1>0, <1>1, <1>7 DEF Record, Follows
  <2>2. row'.processed = k /\ k \in row.processed .. TraceCount /\ k <= disk.attr
    BY <1>0, <1>1, <1>2, <2>1, JobFields, TraceCountAssumption DEF Clean, Stored, Jobs
  <2>3. row' = [row EXCEPT !.processed = k, !.path = TRUE]
    BY <1>0, <2>1 DEF Checkpointed, Jobs
  <2> HIDE DEF k
  <2>4. Lifecycle!Advance
    BY <2>1, <2>2, <2>3 DEF Lifecycle!Advance, CanEnd, Clean
  <2> QED
    BY <2>1, <2>4 DEF RowStep
<1>8. CASE Persist(w)
  <2>1. /\ UNCHANGED <<diskState, disk>>
        /\ (CanEnd(row) /\ EndsRun(w)) \/ (CanResume(row) /\ EndsResume(w))
    BY <1>0, <1>8 DEF Persist, Follows, Ending
  <2>2. CASE CanEnd(row) /\ job[w].status \in {"FAILED", "CANCELLED"}
    <3>1. EndsRun(w)
      BY <2>1, <2>2 DEF CanEnd, CanResume
    <3>2. job[w].status # "COMPLETED" /\ job[w] # Completed(row)
      BY <2>2, <1>0, JobFields
    <3>3. /\ job[w].resumes = row.resumes /\ (row.path => job[w].path)
          /\ job[w].processed # row.processed => Clean
      BY <3>1, <3>2 DEF EndsRun
    <3>4. Lifecycle!End
      BY <1>0, <1>1, <1>2, <2>2, <3>3, EndRefines DEF Clean, Stored
    <3> QED
      BY <2>1, <3>4 DEF RowStep
  <2>3. CASE CanEnd(row) /\ job[w] = Completed(row) /\ row.processed = TraceCount
    <3>1. WholeOnDisk
      BY <1>0, <2>3, JobFields DEF LifecycleInv, FinalOrder
    <3>2. row' = [row EXCEPT !.status = "COMPLETED", !.processed = TraceCount]
      BY <1>0, <1>1, <2>3 DEF Completed, Jobs
    <3>3. Lifecycle!Finish
      BY <2>3, <3>1, <3>2 DEF Lifecycle!Finish, CanEnd, WholeOnDisk
    <3> QED
      BY <2>1, <3>3 DEF RowStep
  <2>4. CASE CanResume(row) /\ EndsResume(w)
    BY <1>1, <1>5, <2>1, <2>4 DEF EndsResume
  <2> QED
    BY <2>1, <2>2, <2>3, <2>4 DEF EndsRun
<1>9. StartRun(w) \/ RecordPath(w) \/ PersistResume(w) \/ Record(w) \/ Persist(w)
    BY DEF WorkerStep, Load, OpenSource, CreateWriter, OpenResume, Loop, WriteChunk, Checkpoint,
           Commit, Finalize, Mark, Complete, FlushCancel, LogOutcome, Close, Release
<1> QED
    BY <1>3, <1>4, <1>6, <1>7, <1>8, <1>9

\* Outside the executions only the start-up and the GUI write the row.
LEMMA OtherRowSteps ==
    ASSUME LifecycleInv, CreateFilterJob \/ Restart, row' # row
    PROVE  RowStep
<1>0. row \in Jobs /\ row.status \in JobStatus \cup {"ABSENT"} /\ RowPrefix
    BY DEF LifecycleInv, TypeOK, Jobs, PrefixOrder
<1>1. CASE CreateFilterJob
    BY <1>1, SameJobs DEF CreateFilterJob, RowStep, Lifecycle!Begin, fileVars
<1>2. CASE Restart
  <2>1. CanEnd(row) /\ row' = Cancelled(row) /\ UNCHANGED <<diskState, disk>>
    BY <1>2 DEF Restart, Recovered, CanEnd, fileVars
  <2>2. row' \in Jobs
    BY <1>0, <2>1, JobTypes
  <2>3. row.processed <= row'.processed
    BY <1>0, <2>1, JobFields, TraceCountAssumption DEF Jobs
  <2>4. Lifecycle!End
    BY <1>0, <2>1, <2>2, <2>3, JobFields, JobPaths, EndRefines
  <2> QED
    BY <2>1, <2>4 DEF RowStep
<1> QED
    BY <1>1, <1>2

\* Under a RUNNING row the file may do what Store allows, and does.
LEMMA StoreRefines ==
    ASSUME LifecycleInv, LifecycleInv', CanEnd(row), row' = row,
           diskState = "sound" /\ diskState' = "sound" => disk'.attr >= disk.attr
    PROVE  Lifecycle!Store
<1>1. /\ disk'.attr \in 0 .. TraceCount /\ disk'.complete \in BOOLEAN
      /\ diskState' = "sound" => row'.processed <= disk'.attr
    BY DEF LifecycleInv, TypeOK, Images, PrefixOrder, RowPrefix, Stored
<1>2. disk'.complete => diskState' = "sound" /\ disk'.attr = TraceCount
    BY DEF LifecycleInv, Unreadable, EmptyImage, HonestOrder, MarkersHonest, MarkerHonest
<1> QED
    BY <1>1, <1>2 DEF Lifecycle!Store, CanEnd

\* Under any other row there is nothing to write: the file is closed or clean.
LEMMA FileRests ==
    ASSUME LifecycleInv, ~CanEnd(row), writerOpen
    PROVE  Clean
<1>0. /\ row \in Jobs /\ RowFollows /\ TypeOK /\ WriterHeld
    BY DEF LifecycleInv, TypeOK
<1>1. PICK w \in Workers : MayBeOpen(w)
    BY <1>0 DEF WriterHeld
<1>2. Follows(w)
    BY <1>0 DEF RowFollows
<1> QED
    BY <1>1, <1>2 DEF Follows, MayBeOpen, Writing, Driving, Ending, EndsResume

\* Worker steps that change the file do so with the file open, or create it.
LEMMA FileWrites ==
    ASSUME NEW w \in Workers, WorkerStep(w), ~UNCHANGED <<diskState, disk>>
    PROVE  /\ row' = row
           /\ \/ pc[w] \in {"create", "checkpoint", "finalize", "mark"}
              \/ writerOpen /\ FlushInterrupted(writer)
BY DEF fileVars, WorkerStep, Load, StartRun, OpenSource, CreateWriter, RecordPath, OpenResume,
       PersistResume, Loop, WriteChunk, Checkpoint, Record, Commit,
       Finalize, Mark, Complete, FlushCancel, LogOutcome, Close,
       Persist, Release

LEMMA FileStepRefines ==
    ASSUME LifecycleInv, LifecycleInv', [Next]_vars, ~UNCHANGED <<diskState, disk>>
    PROVE  Lifecycle!Store
<1> USE DEF fileVars
<1>0. PrefixInv /\ TypeOK /\ RowFollows
    BY DEF LifecycleInv, PrefixInv
<1>1. row' = row /\ (CanEnd(row) \/ (writerOpen /\ FlushInterrupted(writer)))
  <2>1. ASSUME NEW w \in Workers, WorkerStep(w)
        PROVE  row' = row /\ (CanEnd(row) \/ (writerOpen /\ FlushInterrupted(writer)))
    BY <1>0, <2>1, FileWrites DEF RowFollows, Follows, Driving
  <2>2. CASE Crash
    BY <2>2 DEF Crash
  <2>3. Crash \/ \E w \in Workers : WorkerStep(w)
    BY DEF Next, vars, CreateFilterJob, Register, CancelRead, CancellerStep, CancelDecide,
           CancelAccept, Restart
  <2> QED
    BY <2>1, <2>2, <2>3
<1>2. CanEnd(row)
    BY <1>1, FileRests DEF Clean, FlushInterrupted, Dirty
<1>3. diskState = "sound" /\ diskState' = "sound" => disk'.attr >= disk.attr
  <2>1. CASE \E w \in Workers : WorkerStep(w)
    BY <1>0, <2>1, WorkKeptWorkerStep
  <2>2. CASE Crash
    BY <1>0, <2>2, CrashFile, Numbers DEF PrefixInv, PrefixOrder
  <2>3. Crash \/ \E w \in Workers : WorkerStep(w)
    BY DEF Next, vars, CreateFilterJob, Register, CancelRead, CancellerStep, CancelDecide,
           CancelAccept, Restart
  <2> QED
    BY <2>1, <2>2, <2>3
<1> QED
    BY <1>1, <1>2, <1>3, StoreRefines

LEMMA RefinesStep ==
    ASSUME LifecycleInv, LifecycleInv', [Next]_vars
    PROVE  [Lifecycle!LifecycleNext]_<<row, Lifecycle!output>>
<1>1. CASE ~UNCHANGED <<diskState, disk>>
    BY <1>1, FileStepRefines DEF Lifecycle!LifecycleNext
<1>2. CASE row' # row
  <2>1. CASE \E w \in Workers : WorkerStep(w)
    BY <1>2, <2>1, UpdateRefines, RowStepIsStep
  <2>2. CASE CreateFilterJob \/ Restart
    BY <1>2, <2>2, OtherRowSteps, RowStepIsStep
  <2>3. (\E w \in Workers : WorkerStep(w)) \/ CreateFilterJob \/ Restart
    BY <1>2 DEF Next, vars, Register, CancelRead, CancellerStep, CancelDecide, CancelAccept,
                Crash
  <2> QED
    BY <2>1, <2>2, <2>3
<1>3. CASE UNCHANGED <<row, diskState, disk>>
    BY <1>3 DEF Lifecycle!output
<1> QED
    BY <1>1, <1>2, <1>3

\* FilterJobService keeps the promise of JobLifecycle, for every survey, chunk
\* size, number of threads, crash and failure: each step of a worker, of
\* cancel_job() and of the process is one of its steps, or changes neither the
\* row nor the file.
THEOREM ServiceImplementsLifecycle == Spec => ImplementsLifecycle
<1>1. Init => Lifecycle!LifecycleInit
    BY SameJobs DEF Init, Lifecycle!LifecycleInit, EmptyImage
<1>2. LifecycleInv /\ LifecycleInv' /\ [Next]_vars
        => [Lifecycle!LifecycleNext]_<<row, Lifecycle!output>>
    BY RefinesStep
<1>3. Spec => Lifecycle!LifecycleSpec
    BY <1>1, <1>2, LifecycleInvariant, PTL DEF Spec, Lifecycle!LifecycleSpec
<1> QED
    BY <1>3 DEF ImplementsLifecycle

-----------------------------------------------------------------------------
(* The log, line by line.                                                  *)

\* A line that may follow the last one.
LEMMA LogExplains ==
    ASSUME TypeOK, CancellationIsExplained, NEW event \in Events, Log(event),
           event = "JOB_CANCELLED" => Last = "CANCEL_REQUESTED",
           Last = "CANCEL_REQUESTED" =>
              event \in {"JOB_CANCELLED", "JOB_FAILED", "JOB_INTERRUPTED", "RESUME_STARTED"}
    PROVE  CancellationIsExplained'
<1> DEFINE n == Len(log)
<1>1. /\ n \in Nat /\ Len(log') = n + 1
      /\ log'[n + 1].event = event
      /\ \A i \in 1 .. n : log'[i] = log[i]
    BY LogAppends
<1>2. /\ n = 0 => Last = "none"
      /\ n > 0 => Last = log[n].event
    BY DEF Last, TypeOK
<1> HIDE DEF n
<1>3. \A i \in 1 .. n + 1 :
         log'[i].event = "JOB_CANCELLED" => i > 1 /\ log'[i - 1].event = "CANCEL_REQUESTED"
  <2> SUFFICES ASSUME NEW i \in 1 .. n + 1, log'[i].event = "JOB_CANCELLED"
               PROVE  i > 1 /\ log'[i - 1].event = "CANCEL_REQUESTED"
    OBVIOUS
  <2>1. CASE i = n + 1
    BY <1>1, <1>2, <2>1
  <2>2. CASE i # n + 1
    BY <1>1, <2>2 DEF CancellationIsExplained, n
  <2> QED
    BY <2>1, <2>2
<1>4. \A i \in 1 .. n :
         log'[i].event = "CANCEL_REQUESTED" =>
            log'[i + 1].event \in {"JOB_CANCELLED", "JOB_FAILED", "JOB_INTERRUPTED", "RESUME_STARTED"}
  <2> SUFFICES ASSUME NEW i \in 1 .. n, log'[i].event = "CANCEL_REQUESTED"
               PROVE  log'[i + 1].event \in {"JOB_CANCELLED", "JOB_FAILED", "JOB_INTERRUPTED",
                                       "RESUME_STARTED"}
    OBVIOUS
  <2>1. CASE i = n
    BY <1>1, <1>2, <2>1
  <2>2. CASE i # n
    BY <1>1, <2>2 DEF CancellationIsExplained, n
  <2> QED
    BY <2>1, <2>2
<1> QED
    BY <1>1, <1>3, <1>4 DEF CancellationIsExplained

LEMMA LastLogged ==
    ASSUME TypeOK, NEW event \in Events, Log(event)
    PROVE  Last' = event
<1>1. /\ Len(log) \in Nat /\ Len(log') = Len(log) + 1
      /\ log'[Len(log) + 1].event = event /\ Len(<<>>) = 0
    BY LogAppends
<1>2. log' # <<>>
    BY <1>1
<1> QED
    BY <1>1, <1>2 DEF Last

LEMMA SameLog ==
    ASSUME UNCHANGED log
    PROVE  Last' = Last /\ CancellationIsExplained' = CancellationIsExplained
BY DEF Last, CancellationIsExplained

\* What a worker logs, and when.
LEMMA WorkerLogs ==
    ASSUME NEW w \in Workers, WorkerStep(w)
    PROVE  \/ UNCHANGED log
           \/ StartRun(w) /\ Log("RUN_STARTED")
           \/ PersistResume(w) /\ Log("RESUME_STARTED")
           \/ Complete(w) /\ Log("JOB_COMPLETED")
           \/ FlushCancel(w) /\ pending /\ Log("CANCEL_REQUESTED")
           \/ /\ LogOutcome(w)
              /\ Log(IF job[w].status = "CANCELLED" THEN "JOB_CANCELLED" ELSE "JOB_FAILED")
BY DEF WorkerStep, Load, StartRun, OpenSource, CreateWriter, RecordPath, OpenResume,
       PersistResume, Loop, WriteChunk, Checkpoint, Record, Commit,
       Finalize, Mark, Complete, FlushCancel, LogOutcome, Close,
       Persist, Release

\* While w is at a step other than "logOutcome", nobody has just asked.
LEMMA LastOfOthers ==
    ASSUME Registered, LastOrder, NEW w \in Workers, pc[w] \notin {"idle", "logOutcome"},
           Last = "CANCEL_REQUESTED"
    PROVE  Unasked /\ up /\ Begun /\ row.status # "RUNNING"
<1>1. \A u \in Workers : pc[u] # "logOutcome"
    BY Alone
<1>2. up
    BY Alone, ThreadsAssumption DEF Registered
<1> QED
    BY <1>1, <1>2 DEF LastOrder, Unasked

LEMMA ExplainedWorkerStep ==
    ASSUME LifecycleInv, CancelOrder, NEW w \in Workers, WorkerStep(w)
    PROVE  CancellationIsExplained'
<1>0. /\ TypeOK /\ Registered /\ LastOrder /\ CancellationIsExplained
      /\ Follows(w) /\ AskOrder(w)
    BY DEF LifecycleInv, RowFollows, CancelOrder
<1>1. CASE UNCHANGED log
    BY <1>0, <1>1, SameLog
<1>2. CASE StartRun(w) /\ Log("RUN_STARTED")
  <2>1. Last # "CANCEL_REQUESTED"
    BY <1>0, <1>2 DEF StartRun, Follows, CanStart, LastOrder, Begun
  <2> QED
    BY <1>0, <1>2, <2>1, LogExplains, EventNames
<1>3. CASE PersistResume(w) /\ Log("RESUME_STARTED")
    BY <1>0, <1>3, LogExplains, EventNames
<1>4. CASE Complete(w) /\ Log("JOB_COMPLETED")
  <2>1. row.status = "RUNNING" /\ pc[w] = "complete"
    BY <1>0, <1>4 DEF Complete, Follows, Driving, CanEnd
  <2>2. Last # "CANCEL_REQUESTED"
    BY <1>0, <2>1, LastOfOthers
  <2> QED
    BY <1>0, <1>4, <2>2, LogExplains, EventNames
<1>5. CASE FlushCancel(w) /\ pending /\ Log("CANCEL_REQUESTED")
  <2>1. Last # "CANCEL_REQUESTED"
    BY <1>0, <1>5, LastOfOthers DEF FlushCancel, Unasked
  <2> QED
    BY <1>0, <1>5, <2>1, LogExplains, EventNames
<1>6. CASE LogOutcome(w) /\ Log(IF job[w].status = "CANCELLED" THEN "JOB_CANCELLED"
                                                              ELSE "JOB_FAILED")
  <2>1. job[w].status = "CANCELLED" => Last = "CANCEL_REQUESTED"
    BY <1>0, <1>6 DEF LogOutcome, AskOrder
  <2>2. CASE job[w].status = "CANCELLED"
    BY <1>0, <1>6, <2>1, <2>2, LogExplains, EventNames
  <2>3. CASE job[w].status # "CANCELLED"
    BY <1>0, <1>6, <2>3, LogExplains, EventNames
  <2> QED
    BY <2>2, <2>3
<1> QED
    BY <1>1, <1>2, <1>3, <1>4, <1>5, <1>6, WorkerLogs

\* The row does not go back to where it was before the first run.
LEMMA StaysBegun ==
    ASSUME LifecycleInv, [Next]_vars, Begun
    PROVE  Begun'
<1>1. CASE \E w \in Workers : WorkerStep(w)
    BY <1>1, WrittenRowIsBegun DEF LifecycleInv, Begun
<1>2. CASE Restart
    BY <1>2, JobFields DEF Restart, Recovered, LifecycleInv, TypeOK, Begun
<1>3. CASE UNCHANGED row
    BY <1>3 DEF Begun
<1> QED
    BY <1>1, <1>2, <1>3
       DEF Next, vars, CreateFilterJob, Register, CancelRead, CancellerStep, CancelDecide,
           CancelAccept, Crash, Begun

\* Unasked outlives every step that logs nothing.
LEMMA StaysUnasked ==
    ASSUME LifecycleInv, [Next]_vars, Unasked, UNCHANGED log
    PROVE  Unasked'
<1> USE DEF fileVars, regVars, workerVars, envVars
<1>0. /\ TypeOK /\ Registered /\ RowFollows
    BY DEF LifecycleInv
<1>1. ASSUME NEW w \in Workers, WorkerStep(w) PROVE Unasked'
  <2>1. ~pending' /\ cpc' = cpc /\ up' = up
    BY <1>1 DEF Unasked, WorkerStep, Load, StartRun, OpenSource, CreateWriter, RecordPath,
       OpenResume, PersistResume, Loop, WriteChunk, Checkpoint, Record, Commit,
       Finalize, Mark, Complete, FlushCancel, LogOutcome, Close, Persist, Release
  <2>2. up /\ row.status # "RUNNING" /\ Follows(w)
    BY <1>0, <1>1, OthersIdle, Alone, ThreadsAssumption DEF Registered, Unasked, RowFollows
  <2>3. row' = row \/ (row' = job[w] /\ job[w].status # "RUNNING")
    <3>1. CASE Persist(w)
      BY <1>0, <2>2, <3>1, PersistEnds DEF Persist, Update, UpdateFails
    <3>2. CASE row' # row /\ ~Persist(w)
      <4>1. RecordPath(w) \/ Record(w) \/ StartRun(w) \/ PersistResume(w)
        BY <1>1, <3>2 DEF WorkerStep, Load, OpenSource, CreateWriter, OpenResume, Loop,
           WriteChunk, Checkpoint, Commit, Finalize, Mark, Complete, FlushCancel,
           LogOutcome, Close, Release
      <4>2. ~(RecordPath(w) \/ Record(w))
        BY <2>2 DEF RecordPath, Record, Follows, CanEnd
      <4>3. ~(Log("RUN_STARTED") \/ Log("RESUME_STARTED"))
        BY <1>0, LogAppends, EventNames
      <4> QED
        BY <3>2, <4>1, <4>2, <4>3 DEF StartRun, PersistResume, UpdateFails
    <3> QED
      BY <3>1, <3>2
  <2> QED
    BY <2>1, <2>2, <2>3 DEF Unasked
<1>2. ASSUME NEW w \in Workers, NEW m \in {"run", "resume"}, Register(w, m)
      PROVE  Unasked'
    BY <1>2 DEF Register, Unasked
<1>3. ASSUME NEW c \in Cancellers, CancelRead(c) \/ CancellerStep(c)
      PROVE  Unasked'
    BY <1>3 DEF CancelRead, CancellerStep, CancelDecide, CancelAccept, Unasked
<1>4. CASE CreateFilterJob \/ Crash
    BY <1>4 DEF CreateFilterJob, Crash, NewJob, NoJob, Unasked
<1>5. CASE Restart
  <2>1. row'.status # "RUNNING"
    BY <1>0, <1>5, JobFields DEF Restart, Recovered, TypeOK, Registered
  <2> QED
    BY <1>5, <2>1 DEF Restart, Unasked
<1>6. CASE UNCHANGED vars
    BY <1>6 DEF vars, Unasked
<1> QED
    BY <1>1, <1>2, <1>3, <1>4, <1>5, <1>6 DEF Next

\* A step that logs, logs a single event: CANCEL_REQUESTED only in the flush.
LEMMA OneLine ==
    ASSUME [Next]_vars
    PROVE  \/ UNCHANGED log
           \/ \E w \in Workers : FlushCancel(w) /\ Log("CANCEL_REQUESTED")
           \/ \E event \in Events \ {"CANCEL_REQUESTED"} : Log(event)
<1> USE EventNames
<1>1. ASSUME NEW w \in Workers, WorkerStep(w)
      PROVE  \/ UNCHANGED log
             \/ FlushCancel(w) /\ Log("CANCEL_REQUESTED")
             \/ \E event \in Events \ {"CANCEL_REQUESTED"} : Log(event)
  <2>1. CASE LogOutcome(w) /\ Log(IF job[w].status = "CANCELLED" THEN "JOB_CANCELLED"
                                                                ELSE "JOB_FAILED")
    BY <2>1
  <2> QED
    BY <1>1, <2>1, WorkerLogs
<1>2. CASE CreateFilterJob \/ Restart
    BY <1>2 DEF CreateFilterJob, Restart
<1> QED
    BY <1>1, <1>2
       DEF Next, vars, Register, CancelRead, CancellerStep, CancelDecide, CancelAccept, Crash

LEMMA LastOrderStep ==
    ASSUME LifecycleInv, LifecycleInv', LastOrder, [Next]_vars
    PROVE  LastOrder'
<1> USE DEF fileVars, regVars, workerVars, envVars
<1>0. TypeOK /\ Registered /\ RowBegun
    BY DEF LifecycleInv
<1>1. ASSUME NEW event \in Events \ {"CANCEL_REQUESTED"}, Log(event)
      PROVE  LastOrder'
    BY <1>0, <1>1, LastLogged DEF LastOrder
<1>2. ASSUME NEW w \in Workers, FlushCancel(w), Log("CANCEL_REQUESTED")
      PROVE  LastOrder'
  <2>1. pc'[w] = "logOutcome" /\ Begun'
    BY <1>0, <1>2 DEF FlushCancel, Goto, TypeOK, RowBegun, HoldsJob, Begun
  <2> QED
    BY <2>1 DEF LastOrder
<1>3. CASE UNCHANGED log
  <2>1. Last' = Last
    BY <1>3, SameLog
  <2>2. ~Begun' => Last' # "CANCEL_REQUESTED"
    BY <2>1, StaysBegun DEF LastOrder
  <2>3. Unasked => Unasked'
    BY <1>3, StaysUnasked
  <2>4. ASSUME NEW w \in Workers, pc[w] = "logOutcome"
        PROVE  pc'[w] = "logOutcome" \/ Unasked'
    <3>1. ASSUME NEW u \in Workers, WorkerStep(u) PROVE FALSE
      <4>1. u = w
        BY <1>0, <2>4, <3>1, OthersIdle
      <4>2. LogOutcome(w)
        BY <2>4, <3>1, <4>1
           DEF WorkerStep, Load, StartRun, OpenSource, CreateWriter, RecordPath, OpenResume,
           PersistResume, Loop, WriteChunk, Checkpoint, Record, Commit, Finalize, Mark,
           Complete, FlushCancel, LogOutcome, Close, Persist, Release
      <4>3. \A event \in Events : ~Log(event)
        BY <1>0, <1>3, LogAppends
      <4> QED
        BY <4>2, <4>3, EventNames DEF LogOutcome
    <3>2. CASE Crash
      BY <3>2 DEF Crash, Unasked
    <3>3. ASSUME NEW u \in Workers, NEW m \in {"run", "resume"}, Register(u, m)
          PROVE  pc'[w] = "logOutcome"
      BY <1>0, <2>4, <3>3 DEF Register, Goto, TypeOK
    <3>4. CASE UNCHANGED pc
      BY <2>4, <3>4
    <3>5. \/ \E u \in Workers : WorkerStep(u) \/ \E m \in {"run", "resume"} : Register(u, m)
          \/ Crash \/ UNCHANGED pc
      BY DEF Next, vars, CreateFilterJob, Restart, CancelRead, CancellerStep, CancelDecide,
             CancelAccept
    <3> QED
      BY <3>1, <3>2, <3>3, <3>4, <3>5
  <2>5. Last' = "CANCEL_REQUESTED" =>
            (\E w \in Workers : pc'[w] = "logOutcome") \/ Unasked'
    BY <2>1, <2>3, <2>4 DEF LastOrder
  <2> QED
    BY <2>2, <2>5 DEF LastOrder
<1> QED
    BY <1>1, <1>2, <1>3, OneLine

LEMMA LockOrderStep ==
    ASSUME TypeOK, LockOrder, [Next]_vars
    PROVE  LockOrder'
<1> USE DEF regVars, LockOrder
<1>1. CASE UNCHANGED <<lock, cpc>>
    BY <1>1
<1>2. CASE Crash
    BY <1>2 DEF Crash
<1>3. ASSUME NEW c \in Cancellers, CancelRead(c) \/ CancelDecide(c) \/ CancelAccept(c)
      PROVE  LockOrder'
    BY <1>3 DEF TypeOK, CancelRead, CancelDecide, CancelAccept, LockFree
<1>4. ASSUME NEW w \in Workers, WorkerStep(w) PROVE UNCHANGED <<lock, cpc>>
    BY <1>4 DEF WorkerStep, Load, StartRun, OpenSource, CreateWriter, RecordPath, OpenResume,
       PersistResume, Loop, WriteChunk, Checkpoint, Record, Commit, Finalize, Mark,
       Complete, FlushCancel, LogOutcome, Close, Persist, Release
<1> QED
    BY <1>1, <1>2, <1>3, <1>4
       DEF Next, vars, CreateFilterJob, Restart, Register, CancellerStep

\* A worker signals nobody, and forgets a request only when it flushes it.
LEMMA AskWorkerStep ==
    ASSUME LifecycleInv, LifecycleInv', CancelOrder, NEW w \in Workers, WorkerStep(w)
    PROVE  \A u \in Workers : AskOrder(u)'
<1> USE DEF fileVars, regVars
<1>0. /\ TypeOK /\ Registered /\ CommitOrder /\ AskOrder(w) /\ job[w] \in Jobs
      /\ pc \in [Workers -> WorkerSteps] /\ token \in [Workers -> BOOLEAN]
      /\ job \in [Workers -> Jobs] /\ pc[w] # "idle" /\ owner = w
    BY OthersIdle, Alone DEF LifecycleInv, TypeOK, CancelOrder
<1>1. ASSUME NEW u \in Workers \ {w} PROVE AskOrder(u)'
  <2>1. pc'[u] = "idle"
    BY <1>0, OthersIdle
  <2>2. ~token'[u]
    <3>1. ~token[u]
      BY <1>0 DEF CommitOrder
    <3>2. token'[u] = token[u]
      BY <1>0 DEF WorkerStep, Load, StartRun, OpenSource, CreateWriter, RecordPath, OpenResume,
       PersistResume, Loop, WriteChunk, Checkpoint, Record, Commit, Finalize, Mark,
       Complete, FlushCancel, LogOutcome, Close, Persist, Release
    <3> QED
      BY <3>1, <3>2
  <2> QED
    BY <2>1, <2>2 DEF AskOrder
<1>2. CASE FlushCancel(w)
  <2>1. /\ pc'[w] = "logOutcome" /\ job' = job /\ LockFree
        /\ job[w].status = "CANCELLED" => pending
    BY <1>0, <1>2 DEF FlushCancel, Goto, AskOrder
  <2>2. job[w].status = "CANCELLED" => Last' = "CANCEL_REQUESTED"
    BY <1>0, <1>2, <2>1, LastLogged, EventNames DEF FlushCancel
  <2> QED
    BY <1>1, <2>1, <2>2 DEF AskOrder
<1>3. CASE Loop(w) \/ Commit(w)
  <2>1. /\ UNCHANGED <<token, pending, lock>>
        /\ pc'[w] \in {"write", "commit", "finalize", "flushCancel", "close"}
        /\ pc[w] \notin {"logOutcome", "close", "persist", "release"}
    BY <1>0, <1>3 DEF Loop, Commit, Goto, Raise
  <2>2. pc'[w] = "flushCancel" /\ job'[w].status = "CANCELLED" => token[w]
    BY <1>0, <1>3, RaiseFacts DEF Loop, Commit, Goto
  <2> QED
    BY <1>0, <1>1, <2>1, <2>2 DEF AskOrder, LockFree
<1>4. CASE LogOutcome(w) \/ Close(w) \/ Persist(w) \/ Release(w)
  <2>1. \/ pc'[w] \in {"close", "persist", "release"}
        \/ pc'[w] = "idle" /\ ~token'[w]
    BY <1>0, <1>4 DEF LogOutcome, Close, Persist, Release, Goto
  <2> QED
    BY <1>1, <2>1 DEF AskOrder
<1>5. CASE /\ UNCHANGED <<token, pending, lock>>
           /\ pc'[w] # "logOutcome" /\ pc[w] \notin {"logOutcome", "close", "persist", "release"}
           /\ pc'[w] = "flushCancel" => job'[w].status # "CANCELLED"
    BY <1>0, <1>1, <1>5 DEF AskOrder, LockFree
<1>6. CASE Load(w) \/ StartRun(w) \/ OpenSource(w) \/ CreateWriter(w) \/ RecordPath(w)
           \/ OpenResume(w)
  <2>1. UNCHANGED <<token, pending, lock>>
    BY <1>6 DEF Load, StartRun, OpenSource, CreateWriter, RecordPath, OpenResume
  <2>2. /\ pc'[w] # "logOutcome" /\ pc[w] \notin {"logOutcome", "close", "persist", "release"}
        /\ pc'[w] = "flushCancel" => job'[w].status # "CANCELLED"
    BY <1>0, <1>6, RaiseFacts
       DEF Load, StartRun, OpenSource, CreateWriter, RecordPath, OpenResume, Goto
  <2> QED
    BY <1>5, <2>1, <2>2
<1>7. CASE PersistResume(w) \/ WriteChunk(w) \/ Checkpoint(w) \/ Record(w) \/ Finalize(w)
           \/ Mark(w) \/ Complete(w)
  <2>1. UNCHANGED <<token, pending, lock>>
    BY <1>7 DEF PersistResume, WriteChunk, Checkpoint, Record, Finalize, Mark, Complete
  <2>2. /\ pc'[w] # "logOutcome" /\ pc[w] \notin {"logOutcome", "close", "persist", "release"}
        /\ pc'[w] = "flushCancel" => job'[w].status # "CANCELLED"
    BY <1>0, <1>7, RaiseFacts
       DEF PersistResume, WriteChunk, Checkpoint, Record, Finalize, Mark, Complete, Goto
  <2> QED
    BY <1>5, <2>1, <2>2
<1> QED
    BY <1>2, <1>3, <1>4, <1>6, <1>7 DEF WorkerStep

LEMMA AskStep ==
    ASSUME LifecycleInv, LifecycleInv', CancelOrder, [Next]_vars
    PROVE  \A u \in Workers : AskOrder(u)'
<1> USE DEF fileVars, regVars, workerVars, envVars
<1>0. /\ TypeOK /\ Registered /\ CommitOrder /\ RowBegun /\ LockOrder
      /\ \A u \in Workers : AskOrder(u)
      /\ pc \in [Workers -> WorkerSteps] /\ token \in [Workers -> BOOLEAN]
    BY DEF LifecycleInv, TypeOK, CancelOrder
<1>1. ASSUME NEW w \in Workers, WorkerStep(w)
      PROVE  \A u \in Workers : AskOrder(u)'
    BY <1>1, AskWorkerStep
<1>2. ASSUME NEW w \in Workers, NEW m \in {"run", "resume"}, Register(w, m)
      PROVE  \A u \in Workers : AskOrder(u)'
  <2>1. \A u \in Workers : pc'[u] \in {"idle", "load"} /\ ~token'[u]
    BY <1>0, <1>2, ThreadsAssumption
       DEF Register, Goto, NotRegistered, Registered, SingleExecution, Executing, CommitOrder
  <2> QED
    BY <2>1 DEF AskOrder
<1>3. CASE Crash
  <2>1. \A u \in Workers : pc'[u] = "idle" /\ ~token'[u]
    BY <1>3 DEF Crash
  <2> QED
    BY <2>1 DEF AskOrder
<1>4. CASE CreateFilterJob \/ Restart
  <2>1. \A u \in Workers : pc[u] \in {"idle", "load", "start", "release"}
    <3>1. CASE CreateFilterJob
      BY <1>0, <3>1 DEF CreateFilterJob, RowBegun, Begun, HoldsJob
    <3>2. CASE Restart
      BY <1>0, <3>2, ThreadsAssumption DEF Restart, Registered, SingleExecution, Executing
    <3> QED
      BY <1>4, <3>1, <3>2
  <2>2. UNCHANGED <<token, pending, lock, pc, job>>
    BY <1>4 DEF CreateFilterJob, Restart
  <2> QED
    BY <1>0, <2>1, <2>2 DEF AskOrder, LockFree
<1>5. ASSUME NEW c \in Cancellers, CancelRead(c) \/ CancelDecide(c) \/ CancelAccept(c)
      PROVE  \A u \in Workers : AskOrder(u)'
  <2>1. UNCHANGED <<pc, job, log>> /\ Last' = Last
    BY <1>5, SameLog DEF CancelRead, CancelDecide, CancelAccept
  <2>2. \A u \in Workers : token[u] => token'[u]
    BY <1>0, <1>5 DEF CancelRead, CancelDecide, CancelAccept, TypeOK
  <2>3. LockFree' => pending' \/ UNCHANGED <<token, pending, lock>>
    BY <1>5, ThreadsAssumption
       DEF CancelRead, CancelDecide, CancelAccept, LockFree
  <2> QED
    BY <1>0, <2>1, <2>2, <2>3 DEF AskOrder, LockFree
<1>6. CASE UNCHANGED vars
    BY <1>0, <1>6, SameLog DEF vars, AskOrder, LockFree
<1> QED
    BY <1>1, <1>2, <1>3, <1>4, <1>5, <1>6 DEF Next, CancellerStep

LEMMA ExplainedStep ==
    ASSUME LifecycleInv, CancelOrder, [Next]_vars
    PROVE  CancellationIsExplained'
<1>0. TypeOK /\ CancellationIsExplained /\ LastOrder
    BY DEF LifecycleInv, CancelOrder
<1>1. CASE \E w \in Workers : WorkerStep(w)
    BY <1>1, ExplainedWorkerStep
<1>2. CASE CreateFilterJob
  <2>1. Last # "CANCEL_REQUESTED" /\ Log("JOB_CREATED")
    BY <1>0, <1>2 DEF CreateFilterJob, LastOrder, Begun
  <2> QED
    BY <1>0, <2>1, LogExplains, EventNames
<1>3. CASE Restart /\ Log("JOB_INTERRUPTED")
    BY <1>0, <1>3, LogExplains, EventNames
<1>4. CASE UNCHANGED log
    BY <1>0, <1>4, SameLog
<1> QED
    BY <1>1, <1>2, <1>3, <1>4
       DEF Next, vars, Register, CancelRead, CancellerStep, CancelDecide, CancelAccept, Crash,
           Restart

\* The log explains every cancellation, up to the lines that could not be
\* written: JOB_CANCELLED directly follows the CANCEL_REQUESTED that caused it,
\* or the place of one whose write failed, and what is logged after a
\* CANCEL_REQUESTED is the outcome of the execution it was for, or what came
\* after a crash between the two; for any number of threads that run and cancel
\* the job, and however many lines are lost.
THEOREM CancellationsAreExplained == Spec => []CancellationIsExplained
<1>1. Init => CancelOrder
    BY DEF Init, CancelOrder, CancellationIsExplained, LastOrder, Last, LockOrder, AskOrder
<1>2. LifecycleInv /\ LifecycleInv' /\ CancelOrder /\ [Next]_vars => CancelOrder'
    BY ExplainedStep, LastOrderStep, LockOrderStep, AskStep DEF LifecycleInv, CancelOrder
<1>3. CancelOrder => CancellationIsExplained
    BY DEF CancelOrder
<1> QED
    BY <1>1, <1>2, <1>3, LifecycleInvariant, PTL DEF Spec
=============================================================================
