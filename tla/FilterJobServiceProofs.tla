------------------------ MODULE FilterJobServiceProofs ------------------------
(***************************************************************************)
(* Theorems about FilterJobService, for every trace count, chunk size, set *)
(* of threads and bound.                                                   *)
(***************************************************************************)
EXTENDS FilterJobService, TLAPS

-----------------------------------------------------------------------------
(* The operators of Job and Hdf5Output stay within their types.            *)

LEMMA Zero == 0 \in 0 .. TraceCount
BY TraceCountAssumption

\* Every method of Job turns a job into a job.
LEMMA JobTypes ==
    ASSUME NEW jb \in Jobs
    PROVE  /\ Started(jb) \in Jobs /\ Resumed(jb) \in Jobs
           /\ Completed(jb) \in Jobs /\ Failed(jb) \in Jobs /\ Cancelled(jb) \in Jobs
           /\ [jb EXCEPT !.path = TRUE] \in Jobs
           /\ \A k \in 0 .. TraceCount : Checkpointed(jb, k) \in Jobs
<1> USE DEF Jobs, JobStatus, Terminal
<1>1. Started(jb) \in Jobs
    BY DEF Started
<1>2. Resumed(jb) \in Jobs
    BY <1>1 DEF Resumed
<1>3. Completed(jb) \in Jobs /\ Failed(jb) \in Jobs /\ Cancelled(jb) \in Jobs
    BY DEF Completed, Failed, Cancelled
<1>4. \A k \in 0 .. TraceCount : Checkpointed(jb, k) \in Jobs
    BY DEF Checkpointed
<1>5. [jb EXCEPT !.path = TRUE] \in Jobs
    OBVIOUS
<1> QED
    BY <1>1, <1>2, <1>3, <1>4, <1>5

\* What each method of Job assigns, and what it leaves alone.
LEMMA JobFields ==
    ASSUME NEW jb \in Jobs
    PROVE  /\ Started(jb).status = "RUNNING"
           /\ Started(jb).processed = jb.processed /\ Started(jb).resumes = jb.resumes
           /\ Failed(jb).status = "FAILED"
           /\ Failed(jb).processed = jb.processed /\ Failed(jb).resumes = jb.resumes
           /\ Completed(jb).status = "COMPLETED"
           /\ Completed(jb).processed = jb.processed
           /\ Completed(jb).resumes = jb.resumes
           /\ Cancelled(jb).status = "CANCELLED"
           /\ Cancelled(jb).processed = jb.processed
           /\ Cancelled(jb).resumes = jb.resumes
           /\ [jb EXCEPT !.path = TRUE].status = jb.status
           /\ [jb EXCEPT !.path = TRUE].processed = jb.processed
           /\ [jb EXCEPT !.path = TRUE].resumes = jb.resumes
           /\ \A k \in 0 .. TraceCount :
                 /\ Checkpointed(jb, k).status = jb.status
                 /\ Checkpointed(jb, k).processed = k
                 /\ Checkpointed(jb, k).resumes = jb.resumes
BY DEF Jobs, Started, Failed, Completed, Cancelled, Checkpointed

LEMMA ResumedFields ==
    ASSUME NEW jb \in Jobs
    PROVE  /\ Resumed(jb).status = "RUNNING"
           /\ Resumed(jb).processed = jb.processed
           /\ Resumed(jb).resumes = jb.resumes + 1
<1>1. Started(jb) \in Jobs
    BY JobTypes
<1> QED
    BY <1>1, JobFields DEF Jobs, Resumed

\* The Job that a resume continues from the physical prefix k.
LEMMA ContinuedFields ==
    ASSUME NEW jb \in Jobs, NEW k \in 0 .. TraceCount
    PROVE  /\ Checkpointed(Resumed(jb), k) \in Jobs
           /\ Checkpointed(Resumed(jb), k).status = "RUNNING"
           /\ Checkpointed(Resumed(jb), k).processed = k
           /\ Checkpointed(Resumed(jb), k).resumes = jb.resumes + 1
<1> DEFINE r == Resumed(jb)
<1>1. r \in Jobs /\ r.status = "RUNNING" /\ r.resumes = jb.resumes + 1
    BY JobTypes, ResumedFields
<1> HIDE DEF r
<1>2. /\ Checkpointed(r, k) \in Jobs
      /\ Checkpointed(r, k).status = r.status
      /\ Checkpointed(r, k).processed = k
      /\ Checkpointed(r, k).resumes = r.resumes
    BY <1>1, JobTypes, JobFields
<1> QED
    BY <1>1, <1>2 DEF r

LEMMA NewJobTypes == NoJob \in Jobs /\ NewJob \in Jobs
<1>1. NoJob \in Jobs
    BY Zero DEF NoJob, Jobs, JobStatus, Terminal
<1>2. NewJob \in Jobs
    BY <1>1 DEF NewJob, Jobs, JobStatus, Terminal
<1> QED
    BY <1>1, <1>2

\* Every method of Hdf5TraceWriter turns an image into an image.
LEMMA ImageTypes ==
    ASSUME NEW img \in Images
    PROVE  /\ Marked(img) \in Images /\ Reverted(img) \in Images
           /\ \A k \in 0 .. TraceCount :
                 Written(img, k) \in Images /\ PartialWrites(img, k) \subseteq Images
<1> USE DEF Images
<1>1. Marked(img) \in Images /\ Reverted(img) \in Images
    BY DEF Marked, Reverted
<1>2. ASSUME NEW k \in 0 .. TraceCount
      PROVE  Written(img, k) \in Images /\ PartialWrites(img, k) \subseteq Images
  <2>1. Resized(img, k) \in Images
    BY DEF Resized
  <2>2. Filled(img, k) \in Images
    BY <2>1 DEF Filled
  <2>3. Written(img, k) \in Images
    BY <2>2 DEF Written
  <2> QED
    BY <2>1, <2>2, <2>3 DEF PartialWrites
<1> QED
    BY <1>1, <1>2

\* Only a whole chunk moves the prefix marker.
LEMMA ImageFields ==
    ASSUME NEW img \in Images, NEW k \in 0 .. TraceCount
    PROVE  /\ Written(img, k).attr = k
           /\ \A part \in PartialWrites(img, k) : part.attr = img.attr
           /\ Marked(img).attr = img.attr /\ Reverted(img).attr = img.attr
<1> USE DEF Images
<1>1. Resized(img, k) \in Images /\ Resized(img, k).attr = img.attr
    BY DEF Resized
<1>2. Filled(img, k) \in Images /\ Filled(img, k).attr = img.attr
    BY <1>1 DEF Filled
<1>3. Written(img, k).attr = k
    BY <1>2 DEF Written
<1>4. Marked(img).attr = img.attr /\ Reverted(img).attr = img.attr
    BY DEF Marked, Reverted
<1> QED
    BY <1>1, <1>2, <1>3, <1>4 DEF PartialWrites

LEMMA EmptyImageType == EmptyImage \in Images
BY Zero DEF EmptyImage, Images

LEMMA StopType ==
    ASSUME NEW w \in Workers, TypeOK
    PROVE  Stop(w) \in 0 .. TraceCount /\ start[w] <= Stop(w)
BY TraceCountAssumption, ChunkSizeAssumption DEF TypeOK, Stop

\* A step named in the model is a step, and an event an event.
LEMMA StepNames ==
    /\ "idle" \in WorkerSteps /\ "load" \in WorkerSteps /\ "start" \in WorkerSteps
    /\ "open" \in WorkerSteps /\ "create" \in WorkerSteps
    /\ "recordPath" \in WorkerSteps /\ "openResume" \in WorkerSteps
    /\ "persistResume" \in WorkerSteps /\ "loop" \in WorkerSteps
    /\ "write" \in WorkerSteps /\ "checkpoint" \in WorkerSteps
    /\ "record" \in WorkerSteps /\ "commit" \in WorkerSteps
    /\ "finalize" \in WorkerSteps /\ "mark" \in WorkerSteps
    /\ "complete" \in WorkerSteps /\ "flushCancel" \in WorkerSteps
    /\ "logOutcome" \in WorkerSteps /\ "close" \in WorkerSteps
    /\ "persist" \in WorkerSteps /\ "release" \in WorkerSteps
BY DEF WorkerSteps

LEMMA EventNames ==
    /\ "JOB_CREATED" \in Events /\ "RUN_STARTED" \in Events
    /\ "RESUME_STARTED" \in Events /\ "CANCEL_REQUESTED" \in Events
    /\ "JOB_CANCELLED" \in Events /\ "JOB_COMPLETED" \in Events
    /\ "JOB_FAILED" \in Events /\ "JOB_INTERRUPTED" \in Events
BY DEF Events

LEMMA GotoType ==
    ASSUME TypeOK, NEW w \in Workers, NEW step \in WorkerSteps, Goto(w, step)
    PROVE  pc' \in [Workers -> WorkerSteps]
BY DEF TypeOK, Goto

\* log() adds one place at the end, with its event, written or lost.
LEMMA LogAppends ==
    ASSUME TypeOK, NEW event \in Events, Log(event)
    PROVE  /\ log' \in Seq(Entries)
           /\ Len(log) \in Nat /\ Len(log') = Len(log) + 1
           /\ log'[Len(log) + 1].event = event
           /\ \A i \in 1 .. Len(log) : log'[i] = log[i]
<1>1. PICK written \in BOOLEAN : log' = Append(log, [event |-> event, written |-> written])
    BY DEF Log
<1>2. log \in Seq(Entries) /\ [event |-> event, written |-> written] \in Entries
    BY DEF TypeOK, Entries
<1> HIDE DEF Entries
<1> QED
    BY <1>1, <1>2

LEMMA LogType ==
    ASSUME TypeOK, NEW event \in Events, Log(event)
    PROVE  log' \in Seq(Entries)
BY LogAppends

LEMMA DbTypes ==
    ASSUME TypeOK, DbWorks \/ DbFails
    PROVE  dbFaults' \in 0 .. MaxDbFaults
BY BoundsAssumption DEF TypeOK, DbWorks, DbFails

LEMMA UpdateTypes ==
    ASSUME TypeOK, NEW w \in Workers, Update(w) \/ UpdateFails
    PROVE  row' \in Jobs /\ dbFaults' \in 0 .. MaxDbFaults
BY DbTypes DEF TypeOK, Update, UpdateFails

\* The except clause keeps the types of what it assigns.
LEMMA RaiseTypes ==
    ASSUME TypeOK, NEW w \in Workers, NEW jb \in Jobs, Raise(w, jb)
    PROVE  job' \in [Workers -> Jobs] /\ pc' \in [Workers -> WorkerSteps]
<1>1. Failed(jb) \in Jobs
    BY JobTypes
<1> QED
    BY <1>1, GotoType, StepNames DEF TypeOK, Raise

\* What it does: a RUNNING job fails, any other is kept; nothing else moves.
LEMMA RaiseFacts ==
    ASSUME TypeOK, NEW w \in Workers, NEW jb \in Jobs, Raise(w, jb)
    PROVE  /\ job'[w] \in Jobs
           /\ job'[w].status = IF jb.status = "RUNNING" THEN "FAILED" ELSE jb.status
           /\ job'[w].processed = jb.processed /\ job'[w].resumes = jb.resumes
           /\ pc'[w] = IF jb.status = "RUNNING" THEN "flushCancel" ELSE "close"
           /\ \A u \in Workers \ {w} : job'[u] = job[u] /\ pc'[u] = pc[u]
<1>1. CASE jb.status = "RUNNING"
  <2>1. Failed(jb) \in Jobs
    BY JobTypes
  <2>2. job' = [job EXCEPT ![w] = Failed(jb)] /\ pc' = [pc EXCEPT ![w] = "flushCancel"]
    BY <1>1 DEF Raise, CanEnd, Goto
  <2>3. job'[w] = Failed(jb) /\ pc'[w] = "flushCancel"
    BY <2>2 DEF TypeOK
  <2>4. \A u \in Workers \ {w} : job'[u] = job[u] /\ pc'[u] = pc[u]
    BY <2>2 DEF TypeOK
  <2> QED
    BY <1>1, <2>1, <2>3, <2>4, JobFields
<1>2. CASE jb.status # "RUNNING"
  <2>1. job' = [job EXCEPT ![w] = jb] /\ pc' = [pc EXCEPT ![w] = "close"]
    BY <1>2 DEF Raise, CanEnd, Goto
  <2> QED
    BY <1>2, <2>1 DEF TypeOK
<1> QED
    BY <1>1, <1>2

LEMMA FileTypes ==
    ASSUME TypeOK, FlushInterrupted(writer) \/ Flushed
    PROVE  diskState' \in FileStates /\ disk' \in Images
BY EmptyImageType DEF TypeOK, FlushInterrupted, Flushed, FileStates

-----------------------------------------------------------------------------
(* Type correctness.                                                       *)

\* The initial state has the declared types: no job yet, and no file.
THEOREM InitTypeOK == Init => TypeOK
<1> SUFFICES ASSUME Init PROVE TypeOK
    OBVIOUS
<1>1. /\ crashes \in 0 .. MaxCrashes /\ dbFaults \in 0 .. MaxDbFaults
      /\ diskState \in FileStates /\ log \in Seq(Entries)
    BY BoundsAssumption DEF Init, FileStates
<1>2. /\ pc \in [Workers -> WorkerSteps] /\ cpc \in [Cancellers -> CancellerSteps]
      /\ job \in [Workers -> Jobs] /\ start \in [Workers -> 0 .. TraceCount]
      /\ token \in [Workers -> BOOLEAN] /\ mode \in [Workers -> {"run", "resume"}]
    BY Zero, StepNames, NewJobTypes DEF Init, CancellerSteps
<1> QED
    BY <1>1, <1>2, NewJobTypes, EmptyImageType DEF Init, TypeOK

\* Steps of the execution: each leaves every variable in its type.
LEMMA WorkerTypeOK ==
    ASSUME TypeOK, NEW w \in Workers, WorkerStep(w)
    PROVE  TypeOK'
<1> USE GotoType, StepNames, LogType, EventNames, DbTypes, UpdateTypes
    DEF fileVars, regVars, envVars
<1>1. CASE Load(w)
    BY <1>1, JobTypes
       DEF TypeOK, Load
<1>2. CASE StartRun(w)
    BY <1>2
       DEF TypeOK, StartRun
<1>3. CASE OpenSource(w)
    BY <1>3, RaiseTypes
       DEF TypeOK, OpenSource
<1>4. CASE CreateWriter(w)
  <2>1. job[w] \in Jobs /\ [job[w] EXCEPT !.path = TRUE] \in Jobs
    BY JobTypes DEF TypeOK
  <2>2. job' \in [Workers -> Jobs] /\ pc' \in [Workers -> WorkerSteps]
    BY <1>4, <2>1, RaiseTypes DEF TypeOK, CreateWriter
  <2>3. /\ diskState' \in FileStates /\ disk' \in Images
        /\ writerOpen' \in BOOLEAN /\ writer' \in Images
        /\ start' \in [Workers -> 0 .. TraceCount]
    BY <1>4, EmptyImageType, Zero DEF TypeOK, CreateWriter, FileStates
  <2> QED
    BY <1>4, <2>2, <2>3 DEF TypeOK, CreateWriter
<1>5. CASE RecordPath(w)
    BY <1>5, RaiseTypes
       DEF TypeOK, RecordPath
<1>6. CASE OpenResume(w)
  <2>1. disk.attr \in 0 .. TraceCount
    BY DEF TypeOK, Images
  <2>2. Checkpointed(Resumed(job[w]), disk.attr) \in Jobs /\ job[w] \in Jobs
    BY <2>1, JobTypes DEF TypeOK
  <2>3. job' \in [Workers -> Jobs] /\ pc' \in [Workers -> WorkerSteps]
    BY <1>6, <2>2, RaiseTypes DEF TypeOK, OpenResume
  <2>4. start' \in [Workers -> 0 .. TraceCount]
    BY <1>6, <2>1 DEF TypeOK, OpenResume
  <2> QED
    BY <1>6, <2>3, <2>4 DEF TypeOK, OpenResume
<1>7. CASE PersistResume(w)
    BY <1>7, RaiseTypes
       DEF TypeOK, PersistResume
<1>8. CASE Loop(w)
  <2>1. job[w] \in Jobs /\ Cancelled(job[w]) \in Jobs
    BY JobTypes DEF TypeOK
  <2>2. job' \in [Workers -> Jobs] /\ pc' \in [Workers -> WorkerSteps]
    BY <1>8, <2>1, RaiseTypes DEF TypeOK, Loop
  <2> QED
    BY <1>8, <2>2 DEF TypeOK, Loop
<1>9. CASE WriteChunk(w)
    BY <1>9, RaiseTypes, ImageTypes, StopType
       DEF TypeOK, WriteChunk
<1>10. CASE Checkpoint(w)
  <2>1. Checkpointed(job[w], Stop(w)) \in Jobs /\ job[w] \in Jobs
    BY JobTypes, StopType DEF TypeOK
  <2>2. job' \in [Workers -> Jobs] /\ pc' \in [Workers -> WorkerSteps]
    BY <1>10, <2>1, RaiseTypes DEF TypeOK, Checkpoint
  <2> QED
    BY <1>10, <2>2, FileTypes DEF TypeOK, Checkpoint
<1>11. CASE Record(w)
    BY <1>11, RaiseTypes, StopType
       DEF TypeOK, Record
<1>12. CASE Commit(w)
    BY <1>12, JobTypes
       DEF TypeOK, Commit
<1>13. CASE Finalize(w)
    BY <1>13, RaiseTypes, ImageTypes, FileTypes
       DEF TypeOK, Finalize
<1>14. CASE Mark(w)
    BY <1>14, RaiseTypes, ImageTypes, FileTypes
       DEF TypeOK, Mark
<1>15. CASE Complete(w)
    BY <1>15, JobTypes
       DEF TypeOK, Complete
<1>16. CASE FlushCancel(w)
    BY <1>16
       DEF TypeOK, FlushCancel
<1>17. CASE LogOutcome(w)
    BY <1>17
       DEF TypeOK, LogOutcome
<1>18. CASE Close(w)
    BY <1>18, FileTypes, EmptyImageType
       DEF TypeOK, Close
<1>19. CASE Persist(w)
    BY <1>19
       DEF TypeOK, Persist
<1>20. CASE Release(w)
    BY <1>20, NewJobTypes, Zero
       DEF TypeOK, Release
<1> QED
    BY <1>1, <1>2, <1>3, <1>4, <1>5, <1>6, <1>7, <1>8, <1>9, <1>10, <1>11, <1>12, <1>13, <1>14, <1>15, <1>16, <1>17, <1>18, <1>19, <1>20 DEF WorkerStep

LEMMA NextTypeOK ==
    ASSUME TypeOK, [Next]_vars
    PROVE  TypeOK'
<1> USE GotoType, StepNames, LogType, EventNames DEF fileVars, regVars, workerVars, envVars
<1>1. CASE CreateFilterJob
    BY <1>1, NewJobTypes DEF TypeOK, CreateFilterJob
<1>2. ASSUME NEW w \in Workers, NEW m \in {"run", "resume"}, Register(w, m)
      PROVE  TypeOK'
    BY <1>2 DEF TypeOK, Register
<1>3. ASSUME NEW w \in Workers, WorkerStep(w)
      PROVE  TypeOK'
    BY <1>3, WorkerTypeOK
<1>4. ASSUME NEW c \in Cancellers, CancelRead(c) \/ CancellerStep(c)
      PROVE  TypeOK'
  <2>1. CASE CancelRead(c)
    BY <2>1 DEF TypeOK, CancelRead, CancellerSteps
  <2>2. CASE CancelDecide(c)
    BY <2>2 DEF TypeOK, CancelDecide, WindowOpen, CancellerSteps
  <2>3. CASE CancelAccept(c)
    BY <2>3 DEF TypeOK, CancelAccept, CancellerSteps
  <2> QED
    BY <1>4, <2>1, <2>2, <2>3 DEF CancellerStep
<1>5. CASE Crash
  <2>1. diskState' \in FileStates /\ disk' \in Images
    BY <1>5, FileTypes DEF TypeOK, Crash
  <2>2. /\ pc' \in [Workers -> WorkerSteps] /\ cpc' \in [Cancellers -> CancellerSteps]
        /\ job' \in [Workers -> Jobs] /\ start' \in [Workers -> 0 .. TraceCount]
        /\ token' \in [Workers -> BOOLEAN] /\ mode' \in [Workers -> {"run", "resume"}]
    BY <1>5, NewJobTypes, Zero DEF Crash, CancellerSteps
  <2>3. crashes' \in 0 .. MaxCrashes /\ writer' \in Images
    BY <1>5, EmptyImageType, BoundsAssumption DEF TypeOK, Crash
  <2> QED
    BY <1>5, <2>1, <2>2, <2>3 DEF TypeOK, Crash
<1>6. CASE Restart
    BY <1>6, JobTypes DEF TypeOK, Restart, Recovered
<1>7. CASE UNCHANGED vars
    BY <1>7 DEF TypeOK, vars
<1> QED
    BY <1>1, <1>2, <1>3, <1>4, <1>5, <1>6, <1>7 DEF Next

\* Every variable of every reachable state has a value of its type.
THEOREM TypeCorrect == Spec => []TypeOK
<1>1. TypeOK /\ [Next]_vars => TypeOK'
    BY NextTypeOK
<1> QED
    BY InitTypeOK, <1>1, PTL DEF Spec

-----------------------------------------------------------------------------
(* Exclusive registration.                                                 *)

\* A step of a registered execution that is not its last one moves pc only.
LEMMA RegisteredWorkerStep ==
    ASSUME TypeOK, Registered, NEW w \in Workers, WorkerStep(w)
    PROVE  Registered'
<1> USE DEF Registered, SingleExecution, Executing
<1> DEFINE Moves == /\ owner' = owner /\ up' = up
                    /\ \E s \in WorkerSteps \ {"idle"} : Goto(w, s)
<1>1. pc[w] # "idle"
    BY DEF WorkerStep, Load, StartRun, OpenSource, CreateWriter, RecordPath, OpenResume, PersistResume, Loop, WriteChunk, Checkpoint, Record, Commit, Finalize, Mark, Complete, FlushCancel, LogOutcome, Close, Persist, Release
<1>2. ASSUME Moves PROVE Registered'
    BY <1>1, <1>2 DEF TypeOK, Goto
<1>3. ASSUME NEW jb, Raise(w, jb), owner' = owner, up' = up PROVE Moves
    BY <1>3, StepNames DEF Raise
<1> HIDE DEF Moves
<1>4. CASE Load(w)
    BY <1>4, <1>2, StepNames DEF Moves, Load, regVars, envVars
<1>5. CASE StartRun(w)
    BY <1>5, <1>2, StepNames DEF Moves, StartRun, regVars, envVars
<1>6. CASE OpenSource(w)
    BY <1>6, <1>2, <1>3, StepNames DEF Moves, OpenSource, regVars, envVars
<1>7. CASE CreateWriter(w)
    BY <1>7, <1>2, <1>3, StepNames DEF Moves, CreateWriter, regVars, envVars
<1>8. CASE RecordPath(w)
    BY <1>8, <1>2, <1>3, StepNames DEF Moves, RecordPath, regVars, envVars
<1>9. CASE OpenResume(w)
    BY <1>9, <1>2, <1>3, StepNames DEF Moves, OpenResume, regVars, envVars
<1>10. CASE PersistResume(w)
    BY <1>10, <1>2, <1>3, StepNames DEF Moves, PersistResume, regVars, envVars
<1>11. CASE Loop(w)
    BY <1>11, <1>2, <1>3, StepNames DEF Moves, Loop, regVars, envVars
<1>12. CASE WriteChunk(w)
    BY <1>12, <1>2, <1>3, StepNames DEF Moves, WriteChunk, regVars, envVars
<1>13. CASE Checkpoint(w)
    BY <1>13, <1>2, <1>3, StepNames DEF Moves, Checkpoint, regVars, envVars
<1>14. CASE Record(w)
    BY <1>14, <1>2, <1>3, StepNames DEF Moves, Record, regVars, envVars
<1>15. CASE Commit(w)
    BY <1>15, <1>2, StepNames DEF Moves, Commit, regVars, envVars
<1>16. CASE Finalize(w)
    BY <1>16, <1>2, <1>3, StepNames DEF Moves, Finalize, regVars, envVars
<1>17. CASE Mark(w)
    BY <1>17, <1>2, <1>3, StepNames DEF Moves, Mark, regVars, envVars
<1>18. CASE Complete(w)
    BY <1>18, <1>2, StepNames DEF Moves, Complete, regVars, envVars
<1>19. CASE FlushCancel(w)
    BY <1>19, <1>2, StepNames DEF Moves, FlushCancel, regVars, envVars
<1>20. CASE LogOutcome(w)
    BY <1>20, <1>2, StepNames DEF Moves, LogOutcome, regVars, envVars
<1>21. CASE Close(w)
    BY <1>21, <1>2, StepNames DEF Moves, Close, regVars, envVars
<1>22. CASE Persist(w)
    BY <1>22, <1>2, StepNames DEF Moves, Persist, regVars, envVars
<1>23. CASE Release(w)
    BY <1>23, ThreadsAssumption DEF TypeOK, Release, Goto, LockFree, envVars
<1> QED
    BY <1>4, <1>5, <1>6, <1>7, <1>8, <1>9, <1>10, <1>11, <1>12, <1>13, <1>14, <1>15, <1>16, <1>17, <1>18, <1>19, <1>20, <1>21, <1>22, <1>23 DEF WorkerStep

LEMMA RegisteredStep ==
    ASSUME TypeOK, Registered, [Next]_vars
    PROVE  Registered'
<1> USE DEF Registered, SingleExecution, Executing, regVars, workerVars, envVars
<1>1. CASE CreateFilterJob
    BY <1>1 DEF CreateFilterJob
<1>2. ASSUME NEW w \in Workers, NEW m \in {"run", "resume"}, Register(w, m)
      PROVE  Registered'
    BY <1>2, ThreadsAssumption DEF TypeOK, Register, Goto, NotRegistered
<1>3. ASSUME NEW w \in Workers, WorkerStep(w)
      PROVE  Registered'
    BY <1>3, RegisteredWorkerStep
<1>4. ASSUME NEW c \in Cancellers, CancelRead(c) \/ CancellerStep(c)
      PROVE  Registered'
    BY <1>4 DEF CancelRead, CancellerStep, CancelDecide, CancelAccept
<1>5. CASE Crash
    BY <1>5, ThreadsAssumption DEF Crash
<1>6. CASE Restart
    BY <1>6 DEF Restart
<1>7. CASE UNCHANGED vars
    BY <1>7 DEF vars
<1> QED
    BY <1>1, <1>2, <1>3, <1>4, <1>5, <1>6, <1>7 DEF Next

\* Nothing executes in the initial state.
THEOREM InitRegistered == Init => Registered
BY ThreadsAssumption DEF Init, Registered, SingleExecution, Executing

\* Two calls are never inside _execute_filter_job() for the job at once.
THEOREM SingleExecutionHolds == Spec => []SingleExecution
<1>1. Init => TypeOK /\ Registered
    BY InitTypeOK, InitRegistered
<1>2. TypeOK /\ Registered /\ [Next]_vars => (TypeOK /\ Registered)'
    BY NextTypeOK, RegisteredStep
<1>3. Registered => SingleExecution
    BY DEF Registered
<1> QED
    BY <1>1, <1>2, <1>3, PTL DEF Spec

-----------------------------------------------------------------------------
(* Cancellation and the point of no return.                                *)

\* While w executes, every other worker is idle.
LEMMA Alone ==
    ASSUME Registered, NEW w \in Workers, pc[w] # "idle"
    PROVE  owner = w /\ \A u \in Workers \ {w} : pc[u] = "idle"
BY DEF Registered, SingleExecution, Executing

LEMMA CommitOrderWorkerStep ==
    ASSUME TypeOK, Registered, CommitOrder, NEW w \in Workers, WorkerStep(w)
    PROVE  CommitOrder'
<1> USE Alone DEF CommitOrder, Goto, CanEnd, fileVars, regVars, envVars
<1>0. job[w] \in Jobs
    BY DEF TypeOK
<1>1. CASE Load(w)
    BY <1>1, <1>0, JobFields DEF TypeOK, Load, LoadAdmits, CanStart, CanResume
<1>2. CASE StartRun(w)
    BY <1>2, <1>0 DEF TypeOK, StartRun
<1>3. CASE OpenSource(w)
    BY <1>3, <1>0, RaiseFacts DEF TypeOK, OpenSource
<1>4. CASE CreateWriter(w)
  <2>1. [job[w] EXCEPT !.path = TRUE].status = job[w].status
    BY <1>0, JobFields
  <2>2. CASE Raise(w, job[w])
    BY <1>4, <1>0, <2>2, RaiseFacts DEF TypeOK, CreateWriter
  <2>3. CASE ~Raise(w, job[w])
    BY <1>4, <1>0, <2>1, <2>3 DEF TypeOK, CreateWriter
  <2> QED
    BY <2>2, <2>3
<1>5. CASE RecordPath(w)
    BY <1>5, <1>0, RaiseFacts DEF TypeOK, RecordPath
<1>6. CASE OpenResume(w)
  <2>1. Checkpointed(Resumed(job[w]), disk.attr).status = "RUNNING"
    BY <1>0, ContinuedFields DEF TypeOK, Images
  <2> QED
    BY <1>6, <2>1, <1>0, RaiseFacts DEF TypeOK, OpenResume
<1>7. CASE PersistResume(w)
    BY <1>7, <1>0, RaiseFacts DEF TypeOK, PersistResume
<1>8. CASE Loop(w)
    BY <1>8, <1>0, RaiseFacts, JobFields DEF TypeOK, Loop
<1>9. CASE WriteChunk(w)
    BY <1>9, <1>0, RaiseFacts DEF TypeOK, WriteChunk
<1>10. CASE Checkpoint(w)
  <2>1. Checkpointed(job[w], Stop(w)).status = job[w].status
    BY <1>0, StopType, JobFields
  <2>2. CASE Raise(w, job[w])
    BY <1>10, <1>0, <2>2, RaiseFacts DEF TypeOK, Checkpoint
  <2>3. CASE ~Raise(w, job[w])
    BY <1>10, <1>0, <2>1, <2>3 DEF TypeOK, Checkpoint
  <2> QED
    BY <2>2, <2>3
<1>11. CASE Record(w)
    BY <1>11, <1>0, RaiseFacts DEF TypeOK, Record
<1>12. CASE Commit(w)
    BY <1>12, <1>0, JobFields DEF TypeOK, Commit
<1>13. CASE Finalize(w)
    BY <1>13, <1>0, RaiseFacts DEF TypeOK, Finalize
<1>14. CASE Mark(w)
    BY <1>14, <1>0, RaiseFacts DEF TypeOK, Mark
<1>15. CASE Complete(w)
    BY <1>15, <1>0, JobFields DEF TypeOK, Complete
<1>16. CASE FlushCancel(w)
    BY <1>16, <1>0 DEF TypeOK, FlushCancel
<1>17. CASE LogOutcome(w)
    BY <1>17, <1>0 DEF TypeOK, LogOutcome
<1>18. CASE Close(w)
    BY <1>18, <1>0 DEF TypeOK, Close
<1>19. CASE Persist(w)
    BY <1>19, <1>0 DEF TypeOK, Persist
<1>20. CASE Release(w)
    BY <1>20, <1>0 DEF TypeOK, Release, NoJob
<1> QED
    BY <1>1, <1>2, <1>3, <1>4, <1>5, <1>6, <1>7, <1>8, <1>9, <1>10, <1>11, <1>12, <1>13, <1>14, <1>15, <1>16, <1>17, <1>18, <1>19, <1>20 DEF WorkerStep

LEMMA CommitOrderStep ==
    ASSUME TypeOK, Registered, CommitOrder, [Next]_vars
    PROVE  CommitOrder'
<1> USE DEF CommitOrder, regVars, workerVars, envVars
<1>1. CASE CreateFilterJob
    BY <1>1 DEF CreateFilterJob
<1>2. ASSUME NEW w \in Workers, NEW m \in {"run", "resume"}, Register(w, m)
      PROVE  CommitOrder'
    BY <1>2, ThreadsAssumption
       DEF TypeOK, Register, NotRegistered, Goto, Registered, SingleExecution, Executing
<1>3. ASSUME NEW w \in Workers, WorkerStep(w)
      PROVE  CommitOrder'
    BY <1>3, CommitOrderWorkerStep
<1>4. ASSUME NEW c \in Cancellers, CancelRead(c) \/ CancellerStep(c)
      PROVE  CommitOrder'
    BY <1>4 DEF TypeOK, CancelRead, CancellerStep, CancelDecide, WindowOpen, CancelAccept
<1>5. CASE Crash
    BY <1>5 DEF Crash, NoJob
<1>6. CASE Restart
    BY <1>6 DEF Restart
<1>7. CASE UNCHANGED vars
    BY <1>7 DEF vars
<1> QED
    BY <1>1, <1>2, <1>3, <1>4, <1>5, <1>6, <1>7 DEF Next

\* The guarantee of cancel_job(): an execution whose cancellation was accepted
\* has not passed the point of no return and does not complete, for any number
\* of threads, chunks, failures and crashes.
THEOREM AcceptedCancelHolds == Spec => []AcceptedCancelNeverCompletes
<1>1. Init => TypeOK /\ Registered /\ CommitOrder
    BY InitTypeOK, InitRegistered DEF Init, CommitOrder, NoJob
<1>2. TypeOK /\ Registered /\ CommitOrder /\ [Next]_vars
        => (TypeOK /\ Registered /\ CommitOrder)'
    BY NextTypeOK, RegisteredStep, CommitOrderStep
<1>3. CommitOrder => AcceptedCancelNeverCompletes
    BY DEF CommitOrder, AcceptedCancelNeverCompletes
<1> QED
    BY <1>1, <1>2, <1>3, PTL DEF Spec

-----------------------------------------------------------------------------
(* The open file.                                                          *)

\* During a step of w every other worker is, and stays, idle.
LEMMA OthersIdle ==
    ASSUME TypeOK, Registered, NEW w \in Workers, WorkerStep(w)
    PROVE  pc[w] # "idle" /\ \A u \in Workers \ {w} : pc[u] = "idle" /\ pc'[u] = "idle"
<1>1. pc[w] # "idle"
    BY DEF WorkerStep, Load, StartRun, OpenSource, CreateWriter, RecordPath, OpenResume,
           PersistResume, Loop, WriteChunk, Checkpoint, Record, Commit,
           Finalize, Mark, Complete, FlushCancel, LogOutcome, Close,
           Persist, Release
<1>2. owner = w /\ \A u \in Workers \ {w} : pc[u] = "idle"
    BY <1>1, Alone
<1>3. owner' \in {owner, NoWorker}
    BY DEF regVars, WorkerStep, Load, StartRun, OpenSource, CreateWriter, RecordPath, OpenResume,
           PersistResume, Loop, WriteChunk, Checkpoint, Record, Commit,
           Finalize, Mark, Complete, FlushCancel, LogOutcome, Close,
           Persist, Release
<1>4. Registered'
    BY RegisteredWorkerStep
<1> QED
    BY <1>1, <1>2, <1>3, <1>4, ThreadsAssumption DEF Registered, SingleExecution, Executing

LEMMA WriterHeldWorkerStep ==
    ASSUME TypeOK, Registered, WriterHeld, NEW w \in Workers, WorkerStep(w)
    PROVE  WriterHeld'
<1> USE DEF WriterHeld, Writing, MayBeOpen, fileVars
<1>0. job[w] \in Jobs /\ pc \in [Workers -> WorkerSteps]
    BY DEF TypeOK
<1>a. pc[w] # "idle" /\ \A u \in Workers \ {w} : pc[u] = "idle" /\ pc'[u] = "idle"
    BY OthersIdle
<1>1. CASE Load(w)
    BY <1>1, <1>0, <1>a DEF Load, Goto
<1>2. CASE StartRun(w)
    BY <1>2, <1>0, <1>a DEF StartRun, Goto
<1>3. CASE OpenSource(w)
    BY <1>3, <1>0, <1>a, RaiseFacts DEF OpenSource, Goto
<1>4. CASE CreateWriter(w)
    BY <1>4, <1>0, <1>a, RaiseFacts DEF CreateWriter, Goto
<1>5. CASE RecordPath(w)
    BY <1>5, <1>0, <1>a, RaiseFacts DEF RecordPath, Goto
<1>6. CASE OpenResume(w)
    BY <1>6, <1>0, <1>a, RaiseFacts DEF OpenResume, Goto, ResumeAdmits
<1>7. CASE PersistResume(w)
    BY <1>7, <1>0, <1>a, RaiseFacts DEF PersistResume, Goto
<1>8. CASE Loop(w)
    BY <1>8, <1>0, <1>a, RaiseFacts DEF Loop, Goto
<1>9. CASE WriteChunk(w)
    BY <1>9, <1>0, <1>a, RaiseFacts DEF WriteChunk, Goto
<1>10. CASE Checkpoint(w)
    BY <1>10, <1>0, <1>a, RaiseFacts DEF Checkpoint, Goto, FlushInterrupted, Flushed
<1>11. CASE Record(w)
    BY <1>11, <1>0, <1>a, RaiseFacts DEF Record, Goto
<1>12. CASE Commit(w)
    BY <1>12, <1>0, <1>a DEF Commit, Goto
<1>13. CASE Finalize(w)
    BY <1>13, <1>0, <1>a, RaiseFacts DEF Finalize, Goto, FlushInterrupted, Flushed
<1>14. CASE Mark(w)
    BY <1>14, <1>0, <1>a, RaiseFacts DEF Mark, Goto, FlushInterrupted, Flushed
<1>15. CASE Complete(w)
    BY <1>15, <1>0, <1>a DEF Complete, Goto
<1>16. CASE FlushCancel(w)
    BY <1>16, <1>0, <1>a DEF FlushCancel, Goto
<1>17. CASE LogOutcome(w)
    BY <1>17, <1>0, <1>a DEF LogOutcome, Goto
<1>18. CASE Close(w)
    BY <1>18, <1>0, <1>a DEF Close, Goto, FlushInterrupted, Flushed
<1>19. CASE Persist(w)
    BY <1>19, <1>0, <1>a DEF Persist, Goto
<1>20. CASE Release(w)
    BY <1>20, <1>0, <1>a DEF Release, Goto
<1> QED
    BY <1>1, <1>2, <1>3, <1>4, <1>5, <1>6, <1>7, <1>8, <1>9, <1>10, <1>11, <1>12, <1>13, <1>14, <1>15, <1>16, <1>17, <1>18, <1>19, <1>20 DEF WorkerStep

LEMMA WriterHeldStep ==
    ASSUME TypeOK, Registered, WriterHeld, [Next]_vars
    PROVE  WriterHeld'
<1> USE DEF WriterHeld, Writing, MayBeOpen, fileVars, workerVars
<1>1. CASE CreateFilterJob
    BY <1>1 DEF CreateFilterJob
<1>2. ASSUME NEW w \in Workers, NEW m \in {"run", "resume"}, Register(w, m)
      PROVE  WriterHeld'
    BY <1>2 DEF TypeOK, Register, Goto
<1>3. ASSUME NEW w \in Workers, WorkerStep(w)
      PROVE  WriterHeld'
    BY <1>3, WriterHeldWorkerStep
<1>4. ASSUME NEW c \in Cancellers, CancelRead(c) \/ CancellerStep(c)
      PROVE  WriterHeld'
    BY <1>4 DEF CancelRead, CancellerStep, CancelDecide, CancelAccept
<1>5. CASE Crash
    BY <1>5 DEF Crash
<1>6. CASE Restart
    BY <1>6 DEF Restart
<1>7. CASE UNCHANGED vars
    BY <1>7 DEF vars
<1> QED
    BY <1>1, <1>2, <1>3, <1>4, <1>5, <1>6, <1>7 DEF Next

-----------------------------------------------------------------------------
(* SQLite and HDF5.                                                        *)

\* However a flush, a close or a crash leaves the file, the traces that were
\* in it are in it, and a readable file lost none of its prefix.
LEMMA FlushKeeps ==
    ASSUME TypeOK, FilePrefix, writerOpen, diskState # "absent",
           FlushInterrupted(writer) \/ Flushed
    PROVE  /\ diskState' # "absent"
           /\ diskState' = "sound" => disk'.attr <= writer.attr
           /\ \A k \in Nat : Stored(k) /\ diskState' = "sound" => k <= disk'.attr
           /\ diskState = "sound" /\ diskState' = "sound" => disk.attr <= disk'.attr
<1>1. writer.attr \in Nat /\ disk.attr \in Nat
    BY TraceCountAssumption DEF TypeOK, Images
<1>2. \/ diskState' = diskState /\ disk' = disk
      \/ diskState' = "sound" /\ disk' = writer
      \/ diskState' = "torn"
    BY DEF FlushInterrupted, Flushed
<1>3. CASE diskState' = diskState /\ disk' = disk
    BY <1>1, <1>3 DEF FilePrefix, Stored
<1>4. CASE diskState' = "sound" /\ disk' = writer
    BY <1>1, <1>4 DEF FilePrefix, Stored
<1>5. CASE diskState' = "torn"
    BY <1>5
<1> QED
    BY <1>2, <1>3, <1>4, <1>5

LEMMA Numbers ==
    ASSUME TypeOK
    PROVE  /\ row.processed \in Nat /\ row.resumes \in Nat
           /\ disk.attr \in Nat /\ writer.attr \in Nat
           /\ \A w \in Workers :
                 /\ job[w].processed \in Nat /\ job[w].resumes \in Nat
                 /\ job[w] \in Jobs /\ start[w] \in Nat
BY TraceCountAssumption DEF TypeOK, Jobs, Images

LEMMA IdlePrefix ==
    ASSUME NEW u \in Workers, pc'[u] = "idle"
    PROVE  JobPrefix(u)'
BY DEF JobPrefix, HoldsJob, Fresh

\* What a worker's step must establish, once the others are known to be idle.
LEMMA PrefixFromParts ==
    ASSUME TypeOK, Registered, NEW w \in Workers, WorkerStep(w),
           RowPrefix', FilePrefix', JobPrefix(w)'
    PROVE  PrefixOrder'
<1>1. \A u \in Workers \ {w} : JobPrefix(u)'
    BY OthersIdle, IdlePrefix
<1> QED
    BY <1>1 DEF PrefixOrder

\* A step that leaves the file alone and the Job's counters as they are; it
\* may write the Job to the row, and end a RUNNING job.
Quiet(w) ==
    /\ HoldsJob(w)
    /\ UNCHANGED <<diskState, disk, writerOpen, writer>>
    /\ row' \in {row, job[w]}
    /\ job'[w].processed = job[w].processed /\ job'[w].resumes = job[w].resumes
    /\ job'[w].status \in {job[w].status} \cup {"RUNNING"} \cup Terminal
    /\ Fresh(w)' => Fresh(w)
    /\ pc'[w] # "checkpoint"

LEMMA QuietKeepsPrefix ==
    ASSUME TypeOK, NEW w \in Workers, RowPrefix, FilePrefix, JobPrefix(w), Quiet(w)
    PROVE  RowPrefix' /\ FilePrefix' /\ JobPrefix(w)'
<1> USE DEF Stored
<1>1. FilePrefix'
    BY DEF FilePrefix, Quiet
<1>2. RowPrefix'
    BY DEF RowPrefix, JobPrefix, Quiet, Terminal
<1>3. row'.processed <= job[w].processed /\ row'.resumes <= job[w].resumes
    BY Numbers DEF JobPrefix, Quiet
<1>4. JobPrefix(w)'
    BY <1>3 DEF JobPrefix, Quiet, HoldsJob, Terminal
<1> QED
    BY <1>1, <1>2, <1>4

LEMMA PrefixWorkerStep ==
    ASSUME TypeOK, Registered, WriterHeld, PrefixOrder, NEW w \in Workers, WorkerStep(w)
    PROVE  PrefixOrder'
<1> SUFFICES RowPrefix' /\ FilePrefix' /\ JobPrefix(w)'
    BY PrefixFromParts
<1> USE DEF fileVars
<1>0. /\ RowPrefix /\ FilePrefix /\ JobPrefix(w)
      /\ pc \in [Workers -> WorkerSteps]
      /\ Writing(w) => writerOpen
      /\ writerOpen => diskState # "absent"
    BY DEF PrefixOrder, WriterHeld, TypeOK
<1>1. CASE Load(w)
  <2>1. CASE Goto(w, "release")
    BY <1>1, <2>1, <1>0 DEF Load, Goto, RowPrefix, FilePrefix, JobPrefix, Stored,
           HoldsJob, Fresh
  <2>2. CASE ~Goto(w, "release")
    <3>1. /\ row \in Jobs /\ LoadAdmits(mode[w], row)
          /\ row' = row /\ mode' = mode
          /\ job' = [job EXCEPT ![w] = IF mode[w] = "run" THEN Started(row) ELSE row]
          /\ pc' = [pc EXCEPT ![w] = IF mode[w] = "run" THEN "start" ELSE "open"]
      BY <1>1, <2>2 DEF Load, TypeOK, Goto
    <3>2. /\ job'[w].processed = row.processed /\ job'[w].resumes = row.resumes
          /\ job'[w].status \in {"RUNNING"} \cup Terminal
          /\ mode[w] = "run" => row.processed = 0
      BY <3>1, <1>0, JobFields
         DEF TypeOK, LoadAdmits, CanStart, CanResume, RowPrefix, Terminal
    <3> QED
      BY <1>1, <3>1, <3>2, <1>0, Numbers
         DEF Load, TypeOK, RowPrefix, FilePrefix, JobPrefix, Stored, HoldsJob, Fresh
  <2> QED
    BY <2>1, <2>2
<1>2. CASE StartRun(w)
  <2>1. Quiet(w)
    BY <1>2, <1>0, Numbers DEF TypeOK, Quiet, HoldsJob, Fresh, Terminal, StartRun, Goto, Update, UpdateFails
  <2> QED
    BY <2>1, <1>0, QuietKeepsPrefix
<1>3. CASE OpenSource(w)
  <2>1. Quiet(w)
    BY <1>3, <1>0, Numbers, RaiseFacts DEF TypeOK, Quiet, HoldsJob, Fresh, Terminal, OpenSource, Goto
  <2> QED
    BY <2>1, <1>0, QuietKeepsPrefix
<1>4. CASE CreateWriter(w)
  <2>1. job[w].processed = 0 /\ row.processed = 0 /\ row.resumes <= job[w].resumes
    BY <1>4, <1>0, Numbers DEF CreateWriter, JobPrefix, Fresh, HoldsJob
  <2>2. /\ job'[w].processed = 0 /\ job'[w].resumes = job[w].resumes
        /\ job'[w].status \in {"RUNNING"} \cup Terminal
        /\ pc'[w] \in {"recordPath", "flushCancel", "close"}
        /\ row' = row
    <3>1. job[w].status \in {"RUNNING"} \cup Terminal /\ job[w] \in Jobs
      BY <1>4, <1>0, Numbers DEF CreateWriter, JobPrefix, HoldsJob
    <3>2. CASE Raise(w, job[w])
      BY <1>4, <2>1, <3>1, <3>2, RaiseFacts DEF CreateWriter, Terminal
    <3>3. CASE ~Raise(w, job[w])
      <4>1. /\ [job[w] EXCEPT !.path = TRUE].status = job[w].status
            /\ [job[w] EXCEPT !.path = TRUE].processed = job[w].processed
            /\ [job[w] EXCEPT !.path = TRUE].resumes = job[w].resumes
        BY <3>1, JobFields
      <4>2. /\ row' = row /\ job' = [job EXCEPT ![w].path = TRUE]
            /\ pc' = [pc EXCEPT ![w] = "recordPath"]
        BY <1>4, <3>3 DEF CreateWriter, Goto
      <4>3. job'[w] = [job[w] EXCEPT !.path = TRUE] /\ pc'[w] = "recordPath"
        BY <4>2 DEF TypeOK
      <4> QED
        BY <2>1, <3>1, <4>1, <4>2, <4>3
    <3> QED
      BY <3>2, <3>3
  <2>3. /\ diskState' = "sound" => diskState = "sound" /\ disk' = disk
        /\ diskState' = "sound" => writerOpen' = writerOpen /\ writer' = writer
        /\ writerOpen' => writer'.attr \in Nat
    BY <1>4, Numbers, Zero DEF CreateWriter, EmptyImage
  <2> QED
    BY <2>1, <2>2, <2>3, <1>0, Numbers
       DEF RowPrefix, FilePrefix, JobPrefix, Stored, HoldsJob, Fresh
<1>5. CASE RecordPath(w)
  <2>1. Quiet(w)
    BY <1>5, <1>0, Numbers, RaiseFacts DEF TypeOK, Quiet, HoldsJob, Fresh, Terminal, RecordPath, Goto, Update, UpdateFails
  <2> QED
    BY <2>1, <1>0, QuietKeepsPrefix
<1>6. CASE OpenResume(w)
  <2>1. /\ row' = row /\ diskState' = diskState /\ disk' = disk
        /\ row.processed <= job[w].processed /\ row.resumes <= job[w].resumes
        /\ job[w].status \in {"RUNNING"} \cup Terminal
        /\ Stored(job[w].processed)
    BY <1>6, <1>0 DEF OpenResume, JobPrefix, HoldsJob
  <2>2. CASE Raise(w, job[w])
    <3>1. Quiet(w) \/ ~(UNCHANGED <<writerOpen, writer>>)
      BY <1>6, <2>1, <2>2, <1>0, Numbers, RaiseFacts
         DEF OpenResume, Quiet, HoldsJob, Fresh, Terminal
    <3>2. UNCHANGED <<writerOpen, writer>>
      BY <1>6, <2>2, <1>0, Numbers, RaiseFacts DEF OpenResume, Goto
    <3> QED
      BY <3>1, <3>2, <1>0, QuietKeepsPrefix
  <2>3. CASE ~Raise(w, job[w])
    <3>1. /\ ResumeAdmits(job[w]) /\ writerOpen' = TRUE /\ writer' = disk
          /\ job' = [job EXCEPT ![w] = Checkpointed(Resumed(job[w]), disk.attr)]
          /\ pc' = [pc EXCEPT ![w] = "persistResume"]
      BY <1>6, <2>3 DEF OpenResume, Goto
    <3>2. /\ job'[w].processed = disk.attr /\ job'[w].resumes = job[w].resumes + 1
          /\ job'[w].status = "RUNNING"
      <4>1. job[w] \in Jobs /\ disk.attr \in 0 .. TraceCount
        BY DEF TypeOK, Images
      <4>2. job'[w] = Checkpointed(Resumed(job[w]), disk.attr)
        BY <3>1 DEF TypeOK
      <4> QED
        BY <4>1, <4>2, ContinuedFields
    <3>3. job[w].processed <= disk.attr /\ diskState = "sound"
      BY <3>1 DEF ResumeAdmits
    <3> QED
      BY <2>1, <3>1, <3>2, <3>3, <1>0, Numbers
         DEF RowPrefix, FilePrefix, JobPrefix, Stored, HoldsJob, Fresh
  <2> QED
    BY <2>2, <2>3
<1>7. CASE PersistResume(w)
  <2>1. Quiet(w)
    BY <1>7, <1>0, Numbers, RaiseFacts DEF TypeOK, Quiet, HoldsJob, Fresh, Terminal, PersistResume, Goto, Update, UpdateFails
  <2> QED
    BY <2>1, <1>0, QuietKeepsPrefix
<1>8. CASE Loop(w)
  <2>1. Quiet(w)
    BY <1>8, <1>0, Numbers, RaiseFacts, JobFields DEF TypeOK, Quiet, HoldsJob, Fresh, Terminal, Loop, Goto
  <2> QED
    BY <2>1, <1>0, QuietKeepsPrefix
<1>9. CASE WriteChunk(w)
  <2>1. /\ row' = row /\ diskState' = diskState /\ disk' = disk
        /\ writerOpen /\ writerOpen' = writerOpen /\ start' = start
        /\ HoldsJob(w) /\ job[w].status \in {"RUNNING"} \cup Terminal
        /\ writer \in Images /\ Stop(w) \in 0 .. TraceCount
    BY <1>9, <1>0, StopType DEF TypeOK, WriteChunk, Writing, HoldsJob, JobPrefix
  <2>2. CASE Raise(w, job[w])
    <3>1. writer'.attr = writer.attr
      <4>1. pc'[w] # "checkpoint"
        BY <2>2, Numbers, RaiseFacts
      <4>2. writer' = writer \/ writer' \in PartialWrites(writer, Stop(w))
        BY <1>9, <1>0, <4>1 DEF WriteChunk, Goto
      <4> HIDE DEF Stop
      <4> QED
        BY <2>1, <4>2, ImageFields
    <3> QED
      BY <2>1, <2>2, <3>1, <1>0, Numbers, RaiseFacts
         DEF RowPrefix, FilePrefix, JobPrefix, Stored, HoldsJob, Fresh, Terminal
  <2>3. CASE ~Raise(w, job[w])
    <3>1. /\ AcceptsChunk(writer, start[w], Stop(w))
          /\ writer' = Written(writer, Stop(w)) /\ job' = job
          /\ pc' = [pc EXCEPT ![w] = "checkpoint"]
      BY <1>9, <2>3 DEF WriteChunk, Goto
    <3>2. writer.attr <= Stop(w) /\ writer'.attr = Stop(w) /\ Stop(w)' = Stop(w)
      BY <2>1, <3>1, StopType, ImageFields DEF AcceptsChunk, Stop
    <3>3. Stop(w) \in Nat
      BY <2>1, TraceCountAssumption
    <3> HIDE DEF Stop
    <3> QED
      BY <2>1, <3>1, <3>2, <3>3, <1>0, Numbers
         DEF RowPrefix, FilePrefix, JobPrefix, Stored, HoldsJob, Fresh
  <2> QED
    BY <2>2, <2>3
<1>10. CASE Checkpoint(w)
  <2>1. /\ writerOpen /\ writerOpen' = writerOpen /\ writer' = writer /\ row' = row
        /\ diskState # "absent" /\ writer.attr = Stop(w) /\ HoldsJob(w)
        /\ job[w].status \in {"RUNNING"} \cup Terminal
        /\ row.processed <= job[w].processed /\ row.resumes <= job[w].resumes
        /\ Stored(row.processed) /\ Stored(job[w].processed)
        /\ FlushInterrupted(writer) \/ Flushed
    BY <1>10, <1>0 DEF Checkpoint, Writing, HoldsJob, JobPrefix, RowPrefix
  <2>2. /\ diskState' # "absent"
        /\ diskState' = "sound" => disk'.attr <= writer.attr
        /\ diskState' = "sound" => row.processed <= disk'.attr
        /\ diskState' = "sound" => job[w].processed <= disk'.attr
        /\ row.processed <= writer.attr /\ job[w].processed <= writer.attr
    BY <2>1, <1>0, Numbers, FlushKeeps DEF Stored
  <2>3. RowPrefix' /\ FilePrefix'
    BY <2>1, <2>2, <1>0, Numbers DEF RowPrefix, FilePrefix, Stored
  <2>4. CASE Raise(w, job[w])
    BY <2>1, <2>2, <2>3, <2>4, Numbers, RaiseFacts
       DEF JobPrefix, HoldsJob, Fresh, Terminal, Stored
  <2>5. CASE ~Raise(w, job[w])
    <3>1. /\ Flushed /\ CanRecordCheckpoint(job[w], Stop(w))
          /\ job' = [job EXCEPT ![w] = Checkpointed(job[w], Stop(w))]
          /\ pc' = [pc EXCEPT ![w] = "record"]
      BY <1>10, <2>5 DEF Checkpoint, Goto
    <3>0. Stop(w) \in 0 .. TraceCount
      BY StopType
    <3>2. Stop(w) \in 0 .. TraceCount /\ Stop(w) \in Nat /\ job[w].processed <= Stop(w)
      BY <3>1, <3>0, TraceCountAssumption DEF CanRecordCheckpoint
    <3>3. job'[w] = Checkpointed(job[w], Stop(w)) /\ pc'[w] = "record"
      BY <3>1 DEF TypeOK
    <3> HIDE DEF Stop
    <3>4. /\ job'[w].processed = Stop(w) /\ job'[w].resumes = job[w].resumes
          /\ job'[w].status = job[w].status
      BY <3>2, <3>3, Numbers, JobFields
    <3>5. diskState' = "sound" /\ disk'.attr = Stop(w) /\ writer'.attr = Stop(w)
      BY <2>1, <3>1 DEF Flushed
    <3> QED
      BY <2>1, <2>3, <3>2, <3>3, <3>4, <3>5, Numbers
         DEF JobPrefix, HoldsJob, Fresh, Stored
  <2> QED
    BY <2>4, <2>5, <2>3
<1>11. CASE Record(w)
  <2>1. Quiet(w)
    BY <1>11, <1>0, Numbers, RaiseFacts DEF TypeOK, Quiet, HoldsJob, Fresh, Terminal, Record, Goto, Update, UpdateFails
  <2> QED
    BY <2>1, <1>0, QuietKeepsPrefix
<1>12. CASE Commit(w)
  <2>1. Quiet(w)
    BY <1>12, <1>0, Numbers, JobFields DEF TypeOK, Quiet, HoldsJob, Fresh, Terminal, Commit, Goto
  <2> QED
    BY <2>1, <1>0, QuietKeepsPrefix
<1>13. CASE Finalize(w)
  <2>1. /\ row' = row /\ writerOpen /\ writerOpen' = writerOpen /\ HoldsJob(w)
        /\ diskState # "absent" /\ job[w] \in Jobs /\ writer \in Images
        /\ job[w].status \in {"RUNNING"} \cup Terminal
        /\ row.processed <= job[w].processed /\ row.resumes <= job[w].resumes
        /\ Stored(row.processed) /\ Stored(job[w].processed)
    BY <1>13, <1>0 DEF TypeOK, Finalize, Writing, HoldsJob, JobPrefix, RowPrefix
  <2>2. writer'.attr = writer.attr
    BY <1>13, <2>1, Zero, ImageFields DEF Finalize
  <2>3. /\ job'[w].processed = job[w].processed /\ job'[w].resumes = job[w].resumes
        /\ job'[w].status \in {"RUNNING"} \cup Terminal
        /\ pc'[w] \in {"complete", "mark", "flushCancel", "close"}
    <3>1. CASE Raise(w, job[w])
      BY <2>1, <3>1, RaiseFacts DEF Terminal
    <3>2. CASE ~Raise(w, job[w])
      BY <1>13, <2>1, <3>2 DEF TypeOK, Finalize, Goto
    <3> QED
      BY <3>1, <3>2
  <2>4. (FlushInterrupted(writer) \/ Flushed) \/ (diskState' = diskState /\ disk' = disk)
    BY <1>13 DEF Finalize
  <2>5. /\ diskState' # "absent"
        /\ diskState' = "sound" => disk'.attr <= writer.attr
        /\ diskState' = "sound" => row.processed <= disk'.attr
        /\ diskState' = "sound" => job[w].processed <= disk'.attr
        /\ row.processed <= writer.attr /\ job[w].processed <= writer.attr
    BY <2>1, <2>4, <1>0, Numbers, FlushKeeps DEF Stored, FilePrefix
  <2> QED
    BY <2>1, <2>2, <2>3, <2>5, <1>0, Numbers
       DEF RowPrefix, FilePrefix, JobPrefix, HoldsJob, Fresh, Stored
<1>14. CASE Mark(w)
  <2>1. /\ row' = row /\ writerOpen /\ writerOpen' = writerOpen /\ HoldsJob(w)
        /\ diskState # "absent" /\ job[w] \in Jobs /\ writer \in Images
        /\ job[w].status \in {"RUNNING"} \cup Terminal
        /\ row.processed <= job[w].processed /\ row.resumes <= job[w].resumes
        /\ Stored(row.processed) /\ Stored(job[w].processed)
    BY <1>14, <1>0 DEF TypeOK, Mark, Writing, HoldsJob, JobPrefix, RowPrefix
  <2>2. writer'.attr = writer.attr
    BY <1>14, <2>1, Zero, ImageFields DEF Mark
  <2>3. /\ job'[w].processed = job[w].processed /\ job'[w].resumes = job[w].resumes
        /\ job'[w].status \in {"RUNNING"} \cup Terminal
        /\ pc'[w] \in {"complete", "flushCancel", "close"}
    <3>1. CASE Raise(w, job[w])
      BY <2>1, <3>1, RaiseFacts DEF Terminal
    <3>2. CASE ~Raise(w, job[w])
      BY <1>14, <2>1, <3>2 DEF TypeOK, Mark, Goto
    <3> QED
      BY <3>1, <3>2
  <2>4. (FlushInterrupted(writer) \/ Flushed) \/ (diskState' = diskState /\ disk' = disk)
    BY <1>14 DEF Mark
  <2>5. /\ diskState' # "absent"
        /\ diskState' = "sound" => disk'.attr <= writer.attr
        /\ diskState' = "sound" => row.processed <= disk'.attr
        /\ diskState' = "sound" => job[w].processed <= disk'.attr
        /\ row.processed <= writer.attr /\ job[w].processed <= writer.attr
    BY <2>1, <2>4, <1>0, Numbers, FlushKeeps DEF Stored, FilePrefix
  <2> QED
    BY <2>1, <2>2, <2>3, <2>5, <1>0, Numbers
       DEF RowPrefix, FilePrefix, JobPrefix, HoldsJob, Fresh, Stored
<1>15. CASE Complete(w)
  <2>1. Quiet(w)
    BY <1>15, <1>0, Numbers, JobFields DEF TypeOK, Quiet, HoldsJob, Fresh, Terminal, Complete, Goto
  <2> QED
    BY <2>1, <1>0, QuietKeepsPrefix
<1>16. CASE FlushCancel(w)
  <2>1. Quiet(w)
    BY <1>16, <1>0, Numbers DEF TypeOK, Quiet, HoldsJob, Fresh, Terminal, FlushCancel, Goto
  <2> QED
    BY <2>1, <1>0, QuietKeepsPrefix
<1>17. CASE LogOutcome(w)
  <2>1. Quiet(w)
    BY <1>17, <1>0, Numbers DEF TypeOK, Quiet, HoldsJob, Fresh, Terminal, LogOutcome, Goto
  <2> QED
    BY <2>1, <1>0, QuietKeepsPrefix
<1>18. CASE Close(w)
    BY <1>18, <1>0, Numbers, FlushKeeps DEF RowPrefix, FilePrefix, JobPrefix, Stored, HoldsJob, Fresh, Writing, Close, Goto, Flushed
<1>19. CASE Persist(w)
  <2>1. Quiet(w)
    BY <1>19, <1>0, Numbers DEF TypeOK, Quiet, HoldsJob, Fresh, Terminal, Persist, Goto, Update, UpdateFails
  <2> QED
    BY <2>1, <1>0, QuietKeepsPrefix
<1>20. CASE Release(w)
    BY <1>20, <1>0, Numbers DEF RowPrefix, FilePrefix, JobPrefix, Stored, HoldsJob, Fresh, Writing, Release, Goto, NoJob
<1> QED
    BY <1>1, <1>2, <1>3, <1>4, <1>5, <1>6, <1>7, <1>8, <1>9, <1>10, <1>11, <1>12, <1>13, <1>14, <1>15, <1>16, <1>17, <1>18, <1>19, <1>20 DEF WorkerStep

\* A kill lets HDF5 do to the file what any failed flush may do to it.
LEMMA CrashFile ==
    ASSUME TypeOK, WriterHeld, RowPrefix, FilePrefix, Crash
    PROVE  /\ row' = row /\ writerOpen' = FALSE
           /\ diskState' = "sound"  => row.processed <= disk'.attr
           /\ diskState' = "absent" => row.processed = 0
           /\ diskState = "sound" /\ diskState' = "sound" => disk.attr <= disk'.attr
<1>1. CASE writerOpen
  <2>1. FlushInterrupted(writer) /\ diskState # "absent"
    BY <1>1 DEF Crash, WriterHeld
  <2> QED
    BY <1>1, <2>1, FlushKeeps, Numbers DEF Crash, RowPrefix, Stored
<1>2. CASE ~writerOpen
    BY <1>2, Numbers DEF Crash, RowPrefix, Stored
<1> QED
    BY <1>1, <1>2

LEMMA PrefixStep ==
    ASSUME TypeOK, Registered, WriterHeld, PrefixOrder, [Next]_vars
    PROVE  PrefixOrder'
<1> USE DEF fileVars, workerVars
<1>0. /\ RowPrefix /\ FilePrefix
      /\ \A w \in Workers : JobPrefix(w)
    BY DEF PrefixOrder
<1>1. CASE CreateFilterJob
  <2>1. /\ row.processed = 0 /\ row'.processed = 0 /\ row'.resumes = 0
        /\ row'.status = "CREATED" /\ row.resumes = 0
    BY <1>1, <1>0 DEF CreateFilterJob, RowPrefix, NoJob, NewJob
  <2>2. RowPrefix' /\ FilePrefix'
    BY <1>1, <2>1, <1>0 DEF CreateFilterJob, RowPrefix, FilePrefix, Stored
  <2>3. ASSUME NEW w \in Workers
        PROVE  JobPrefix(w)'
    BY <1>1, <2>1, <1>0 DEF CreateFilterJob, JobPrefix, Stored, HoldsJob, Fresh, Stop
  <2> QED
    BY <2>2, <2>3 DEF PrefixOrder
<1>2. ASSUME NEW w \in Workers, NEW m \in {"run", "resume"}, Register(w, m)
      PROVE  PrefixOrder'
  <2>1. RowPrefix' /\ FilePrefix'
    BY <1>2, <1>0 DEF Register, RowPrefix, FilePrefix, Stored
  <2>2. ASSUME NEW u \in Workers
        PROVE  JobPrefix(u)'
    <3>1. pc' = [pc EXCEPT ![w] = "load"] /\ mode' = [mode EXCEPT ![w] = m]
      BY <1>2 DEF Register, Goto
    <3>2. CASE u = w
      BY <3>1, <3>2 DEF TypeOK, JobPrefix, HoldsJob, Fresh
    <3>3. CASE u # w
      <4>1. pc'[u] = pc[u] /\ mode'[u] = mode[u]
        BY <3>1, <3>3 DEF TypeOK
      <4> QED
        BY <1>2, <1>0, <4>1 DEF Register, JobPrefix, Stored, HoldsJob, Fresh, Stop
    <3> QED
      BY <3>2, <3>3
  <2> QED
    BY <2>1, <2>2 DEF PrefixOrder
<1>3. ASSUME NEW w \in Workers, WorkerStep(w)
      PROVE  PrefixOrder'
    BY <1>3, PrefixWorkerStep
<1>4. ASSUME NEW c \in Cancellers, CancelRead(c) \/ CancellerStep(c)
      PROVE  PrefixOrder'
  <2>1. UNCHANGED <<row, fileVars, pc, mode, job, start>>
    BY <1>4 DEF CancelRead, CancellerStep, CancelDecide, CancelAccept
  <2> QED
    BY <2>1, <1>0 DEF PrefixOrder, RowPrefix, FilePrefix, JobPrefix, Stored, HoldsJob,
                      Fresh, Stop
<1>5. CASE Crash
  <2>1. RowPrefix' /\ FilePrefix'
    BY <1>5, <1>0, CrashFile DEF RowPrefix, FilePrefix, Stored
  <2>2. \A w \in Workers : JobPrefix(w)'
    BY <1>5, IdlePrefix DEF Crash
  <2> QED
    BY <2>1, <2>2 DEF PrefixOrder
<1>6. CASE Restart
  <2>1. /\ row'.processed = row.processed /\ row'.resumes = row.resumes
        /\ row' = row \/ row'.status = "CANCELLED"
    BY <1>6, JobFields DEF Restart, Recovered, TypeOK
  <2>2. RowPrefix' /\ FilePrefix'
    BY <1>6, <2>1, <1>0 DEF Restart, RowPrefix, FilePrefix, Stored
  <2>3. ASSUME NEW w \in Workers
        PROVE  JobPrefix(w)'
    BY <1>6, <2>1, <1>0 DEF Restart, JobPrefix, Stored, HoldsJob, Fresh, Stop
  <2> QED
    BY <2>2, <2>3 DEF PrefixOrder
<1>7. CASE UNCHANGED vars
  <2>1. UNCHANGED <<row, fileVars, pc, mode, job, start>>
    BY <1>7 DEF vars
  <2> QED
    BY <2>1, <1>0 DEF PrefixOrder, RowPrefix, FilePrefix, JobPrefix, Stored, HoldsJob,
                      Fresh, Stop
<1> QED
    BY <1>1, <1>2, <1>3, <1>4, <1>5, <1>6, <1>7 DEF Next

\* What the two stores agree on, as an inductive invariant.
PrefixInv == TypeOK /\ Registered /\ WriterHeld /\ PrefixOrder

\* Row, open writer and file on disk are ordered as PrefixInv says, in every
\* reachable state, for every survey and chunk size.
THEOREM PrefixInvariant == Spec => []PrefixInv
<1>1. Init => PrefixInv
  <2> SUFFICES ASSUME Init PROVE PrefixInv
    OBVIOUS
  <2>1. TypeOK /\ Registered
    BY InitTypeOK, InitRegistered
  <2>2. WriterHeld
    BY DEF Init, WriterHeld, Writing, MayBeOpen
  <2>3. PrefixOrder
    BY DEF Init, PrefixOrder, RowPrefix, FilePrefix, JobPrefix, Stored, HoldsJob, Fresh,
           NoJob
  <2> QED
    BY <2>1, <2>2, <2>3 DEF PrefixInv
<1>2. PrefixInv /\ [Next]_vars => PrefixInv'
    BY NextTypeOK, RegisteredStep, WriterHeldStep, PrefixStep DEF PrefixInv
<1> QED
    BY <1>1, <1>2, PTL DEF Spec

\* SQLite never confirms a trace that the readable HDF5 prefix does not hold:
\* for every survey, chunk size, failure and crash.
THEOREM CheckpointHolds == Spec => []CheckpointNeverAhead
<1>1. PrefixInv => CheckpointNeverAhead
    BY DEF PrefixInv, PrefixOrder, RowPrefix, Stored, CheckpointNeverAhead
<1> QED
    BY <1>1, PrefixInvariant, PTL

\* A worker leaves the row alone or writes its Job to it.
LEMMA RowWrites ==
    ASSUME NEW w \in Workers, WorkerStep(w)
    PROVE  row' = row \/ (row' = job[w] /\ HoldsJob(w))
BY DEF WorkerStep, Load, StartRun, OpenSource, CreateWriter, RecordPath, OpenResume,
       PersistResume, Loop, WriteChunk, Checkpoint, Record, Commit,
       Finalize, Mark, Complete, FlushCancel, LogOutcome, Close,
       Persist, Release, Update, UpdateFails, HoldsJob

LEMMA WorkKeptWorkerStep ==
    ASSUME PrefixInv, NEW w \in Workers, WorkerStep(w)
    PROVE  /\ row'.processed >= row.processed /\ row'.resumes >= row.resumes
           /\ diskState = "sound" /\ diskState' = "sound" => disk'.attr >= disk.attr
<1> USE DEF fileVars
<1>0. /\ TypeOK /\ RowPrefix /\ FilePrefix /\ JobPrefix(w)
      /\ Writing(w) => writerOpen
      /\ writerOpen => diskState # "absent"
    BY DEF PrefixInv, PrefixOrder, WriterHeld
<1>1. row' = row \/ (row' = job[w] /\ HoldsJob(w))
    BY RowWrites
<1>2. \/ UNCHANGED <<diskState, disk>>
      \/ diskState' = "torn"
      \/ /\ FlushInterrupted(writer) \/ Flushed
         /\ writerOpen
    BY <1>0 DEF WorkerStep, Load, StartRun, OpenSource, CreateWriter, RecordPath,
           OpenResume, PersistResume, Loop, WriteChunk, Checkpoint, Record, Commit,
           Finalize, Mark, Complete, FlushCancel, LogOutcome, Close,
           Persist, Release, Writing
<1>3. row'.processed >= row.processed /\ row'.resumes >= row.resumes
    BY <1>0, <1>1, Numbers DEF JobPrefix
<1>4. diskState = "sound" /\ diskState' = "sound" => disk'.attr >= disk.attr
    BY <1>0, <1>2, Numbers, FlushKeeps
<1> QED
    BY <1>3, <1>4

\* No step gives up confirmed work, in the row or in a readable file.
THEOREM WorkIsKept == Spec => WorkIsNeverLost
<1> DEFINE Kept == /\ row'.processed >= row.processed
                   /\ row'.resumes >= row.resumes
                   /\ diskState = "sound" /\ diskState' = "sound"
                         => disk'.attr >= disk.attr
<1>1. PrefixInv /\ [Next]_vars => [Kept]_vars
  <2> SUFFICES ASSUME PrefixInv, [Next]_vars PROVE Kept \/ UNCHANGED vars
    OBVIOUS
  <2> USE DEF fileVars
  <2>0. TypeOK /\ WriterHeld /\ RowPrefix /\ FilePrefix
    BY DEF PrefixInv, PrefixOrder
  <2>1. CASE CreateFilterJob
    BY <2>1, <2>0, Numbers DEF CreateFilterJob, RowPrefix, NoJob, NewJob
  <2>2. CASE \E w \in Workers : WorkerStep(w)
    BY <2>2, WorkKeptWorkerStep
  <2>3. CASE \/ \E w \in Workers : \E m \in {"run", "resume"} : Register(w, m)
             \/ \E c \in Cancellers : CancelRead(c) \/ CancellerStep(c)
    BY <2>3, <2>0, Numbers
       DEF Register, CancelRead, CancellerStep, CancelDecide, CancelAccept
  <2>4. CASE Crash
    BY <2>4, <2>0, Numbers, CrashFile
  <2>5. CASE Restart
    BY <2>5, <2>0, Numbers, JobFields DEF TypeOK, Restart, Recovered
  <2> QED
    BY <2>1, <2>2, <2>3, <2>4, <2>5 DEF Next
<1>2. [][Kept]_vars => WorkIsNeverLost
    BY PTL DEF WorkIsNeverLost
<1> QED
    BY <1>1, <1>2, PrefixInvariant, PTL DEF Spec
=============================================================================
