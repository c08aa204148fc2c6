--------------------------- MODULE CompletionProofs ---------------------------
(***************************************************************************)
(* Theorems about what "complete" means: the marker in the HDF5 file, the  *)
(* COMPLETED row and the JOB_COMPLETED line, in three stores that share no *)
(* transaction.                                                            *)
(***************************************************************************)
EXTENDS FilterJobServiceProofs

-----------------------------------------------------------------------------
(* The markers.                                                            *)

\* However a flush, a close or a crash leaves the file, it is honest.
LEMMA FlushIsHonest ==
    ASSUME MarkersHonest, writerOpen, FlushInterrupted(writer) \/ Flushed
    PROVE  diskState' = "sound" => MarkerHonest(disk')
BY DEF MarkersHonest, FlushInterrupted, Flushed

\* What the writer does to an image that holds exactly the rows it promises.
LEMMA HonestWrites ==
    ASSUME NEW img \in Images, MarkerHonest(img), NEW k \in 0 .. TraceCount
    PROVE     img.rows = img.attr /\ img.attr <= k /\ ~img.complete =>
              /\ Written(img, k).rows = Written(img, k).attr
              /\ MarkerHonest(Written(img, k))
              /\ \A part \in PartialWrites(img, k) : MarkerHonest(part)
BY TraceCountAssumption
   DEF Images, MarkerHonest, Written, PartialWrites, Resized, Filled

LEMMA HonestMarks ==
    ASSUME NEW img \in Images, MarkerHonest(img)
    PROVE  /\ MarkerHonest(Reverted(img))
           /\ Marked(img).rows = img.rows /\ Marked(img).attr = img.attr
           /\ img.attr = TraceCount => MarkerHonest(Marked(img))
BY DEF Images, MarkerHonest, Reverted, Marked

LEMMA EmptyIsHonest == MarkerHonest(EmptyImage)
BY DEF MarkerHonest, EmptyImage

\* During a step of w only w can be writing, before and after it.
LEMMA HonestFromParts ==
    ASSUME TypeOK, Registered, NEW w \in Workers, WorkerStep(w),
           MarkersHonest', Writing(w)' => (writer.rows = writer.attr)'
    PROVE  HonestOrder'
<1>1. \A u \in Workers \ {w} : ~Writing(u)'
    BY OthersIdle DEF Writing
<1> QED
    BY <1>1 DEF HonestOrder

LEMMA HonestWorkerStep ==
    ASSUME TypeOK, Registered, WriterHeld, HonestOrder, NEW w \in Workers, WorkerStep(w)
    PROVE  HonestOrder'
<1> SUFFICES MarkersHonest' /\ (Writing(w)' => (writer.rows = writer.attr)')
    BY HonestFromParts
<1> USE DEF fileVars
<1>0. /\ MarkersHonest /\ job[w] \in Jobs /\ pc \in [Workers -> WorkerSteps]
      /\ disk \in Images /\ writer \in Images
      /\ Writing(w) => writerOpen /\ writer.rows = writer.attr
      /\ writerOpen => MarkerHonest(writer)
    BY DEF HonestOrder, MarkersHonest, WriterHeld, TypeOK
<1>1. CASE CreateWriter(w)
  <2>1. diskState' = "sound" => disk' = disk /\ diskState = "sound"
    BY <1>1 DEF CreateWriter
  <2>2. CASE Raise(w, job[w]) /\ UNCHANGED <<writerOpen, writer>>
    BY <2>1, <2>2, <1>0, RaiseFacts DEF MarkersHonest, Writing
  <2>3. CASE writer' = EmptyImage
    BY <2>1, <2>3, <1>0, EmptyIsHonest DEF MarkersHonest, EmptyImage
  <2> QED
    BY <1>1, <2>2, <2>3 DEF CreateWriter
<1>2. CASE OpenResume(w)
    BY <1>2, <1>0, RaiseFacts
       DEF OpenResume, ResumeAdmits, OpensForResume, MarkersHonest, Writing, Goto
<1>3. CASE WriteChunk(w)
  <2>1. Stop(w) \in 0 .. TraceCount /\ start[w] <= Stop(w) /\ Writing(w)
    BY <1>3, StopType DEF WriteChunk, Writing
  <2>2. CASE Raise(w, job[w])
    BY <1>3, <2>1, <2>2, <1>0, HonestWrites, RaiseFacts
       DEF WriteChunk, AcceptsChunk, MarkersHonest, Writing
  <2>3. CASE ~Raise(w, job[w])
    BY <1>3, <2>1, <2>3, <1>0, HonestWrites
       DEF WriteChunk, AcceptsChunk, MarkersHonest, Writing, Goto
  <2> QED
    BY <2>2, <2>3
<1>4. CASE Checkpoint(w)
    BY <1>4, <1>0, FlushIsHonest, RaiseFacts DEF Checkpoint, MarkersHonest, Writing, Goto
<1>5. CASE Finalize(w)
  <2>1. Writing(w) /\ writerOpen /\ writer.rows = writer.attr /\ MarkerHonest(writer)
    BY <1>5, <1>0 DEF Finalize, Writing
  <2>2. diskState' = "sound" => MarkerHonest(disk')
    BY <1>5, <1>0, <2>1, FlushIsHonest DEF Finalize, MarkersHonest
  <2>3. CASE writer' = writer
    BY <1>5, <2>1, <2>2, <2>3 DEF Finalize, MarkersHonest
  <2>4. CASE writer.attr = TraceCount /\ writer' = Marked(writer)
    BY <1>0, <2>1, <2>2, <2>4, HonestMarks DEF MarkersHonest
  <2> QED
    BY <1>5, <2>3, <2>4 DEF Finalize, AcceptsFinalize
<1>6. CASE Mark(w)
    BY <1>6, <1>0, FlushIsHonest, HonestMarks, RaiseFacts
       DEF Mark, MarkersHonest, Writing, Goto
<1>7. CASE Close(w)
    BY <1>7, <1>0, FlushIsHonest DEF Close, MarkersHonest, Writing, Goto
<1>8. CASE UNCHANGED fileVars /\ (Writing(w)' => Writing(w))
    BY <1>8, <1>0 DEF MarkersHonest
<1>9. \/ CreateWriter(w) \/ OpenResume(w) \/ WriteChunk(w) \/ Checkpoint(w)
      \/ Finalize(w) \/ Mark(w) \/ Close(w)
      \/ UNCHANGED fileVars /\ (Writing(w)' => Writing(w))
  <2>1. CASE Load(w) \/ StartRun(w) \/ Complete(w) \/ FlushCancel(w) \/ LogOutcome(w)
             \/ Persist(w) \/ Release(w)
    BY <2>1, <1>0 DEF Load, StartRun, Complete, FlushCancel, LogOutcome, Persist, Release,
                      Writing, Goto
  <2>2. CASE OpenSource(w) \/ RecordPath(w) \/ PersistResume(w) \/ Loop(w) \/ Record(w)
             \/ Commit(w)
    BY <2>2, <1>0, RaiseFacts
       DEF OpenSource, RecordPath, PersistResume, Loop, Record, Commit, Writing, Goto
  <2> QED
    BY <2>1, <2>2 DEF WorkerStep
<1> QED
    BY <1>1, <1>2, <1>3, <1>4, <1>5, <1>6, <1>7, <1>8, <1>9

LEMMA HonestStep ==
    ASSUME TypeOK, Registered, WriterHeld, HonestOrder, [Next]_vars
    PROVE  HonestOrder'
<1> USE DEF fileVars, workerVars
<1>1. CASE \E w \in Workers : WorkerStep(w)
    BY <1>1, HonestWorkerStep
<1>2. CASE Crash
  <2>1. diskState' = "sound" => MarkerHonest(disk')
    BY <1>2, FlushIsHonest DEF Crash, HonestOrder, MarkersHonest
  <2> QED
    BY <1>2, <2>1 DEF Crash, HonestOrder, MarkersHonest, Writing
<1>3. ASSUME NEW w \in Workers, NEW m \in {"run", "resume"}, Register(w, m)
      PROVE  HonestOrder'
    BY <1>3 DEF TypeOK, Register, Goto, HonestOrder, MarkersHonest, Writing
<1>4. CASE UNCHANGED <<fileVars, pc>>
    BY <1>4 DEF HonestOrder, MarkersHonest, Writing
<1>5. \/ \E w \in Workers : WorkerStep(w)
      \/ \E w \in Workers : \E m \in {"run", "resume"} : Register(w, m)
      \/ Crash
      \/ UNCHANGED <<fileVars, pc>>
    BY DEF Next, vars, CreateFilterJob, CancelRead, CancellerStep, CancelDecide,
           CancelAccept, Restart
<1> QED
    BY <1>1, <1>2, <1>3, <1>4, <1>5

\* The prefix marker and the completeness marker of a job's output are true,
\* on disk and in the open file, after any partial write, failed flush, failed
\* finalize(), crash and resume.
THEOREM MarkersHold == Spec => []MarkersHonest
<1> DEFINE Inv == TypeOK /\ Registered /\ WriterHeld /\ HonestOrder
<1>1. Init => Inv
  <2> SUFFICES ASSUME Init PROVE Inv
    OBVIOUS
  <2>1. TypeOK /\ Registered
    BY InitTypeOK, InitRegistered
  <2>2. WriterHeld /\ HonestOrder
    BY DEF Init, WriterHeld, HonestOrder, MarkersHonest, Writing, MayBeOpen
  <2> QED
    BY <2>1, <2>2
<1>2. Inv /\ [Next]_vars => Inv'
    BY NextTypeOK, RegisteredStep, WriterHeldStep, HonestStep
<1>3. Inv => MarkersHonest
    BY DEF HonestOrder
<1> QED
    BY <1>1, <1>2, <1>3, PTL DEF Spec

-----------------------------------------------------------------------------
(* The COMPLETED row.                                                      *)

\* What FinalOrder says while no worker other than w executes.
FinalFile(w) ==
    writerOpen /\ writer.complete =>
        writer.attr = TraceCount /\ (pc[w] = "mark" \/ (WholeOnDisk /\ disk = writer))
FinalRow(w) ==
    row.status = "COMPLETED" => WholeOnDisk /\ ~writerOpen /\ ~HoldsJob(w)
FinalJob(w) ==
    /\ pc[w] \in {"mark", "complete"} => writer.complete
    /\ job[w].status = "COMPLETED" =>
          /\ pc[w] \in {"close", "persist", "release"}
          /\ WholeOnDisk
          /\ writerOpen => disk = writer
Final(w) == FinalFile(w) /\ FinalRow(w) /\ FinalJob(w)

LEMMA OthersKeepJobs ==
    ASSUME TypeOK, NEW w \in Workers, WorkerStep(w)
    PROVE  \A u \in Workers \ {w} : job'[u] = job[u]
BY DEF TypeOK, Raise, WorkerStep, Load, StartRun, OpenSource, CreateWriter, RecordPath,
       OpenResume, PersistResume, Loop, WriteChunk, Checkpoint, Record, Commit,
       Finalize, Mark, Complete, FlushCancel, LogOutcome, Close, Persist, Release

LEMMA FinalToParts ==
    ASSUME TypeOK, Registered, FinalOrder, NEW w \in Workers, WorkerStep(w)
    PROVE  /\ Final(w)
           /\ \A u \in Workers \ {w} : job[u].status # "COMPLETED"
<1>1. \A u \in Workers \ {w} : pc[u] = "idle"
    BY OthersIdle
<1> QED
    BY <1>1 DEF FinalOrder, Final, FinalFile, FinalRow, FinalJob

LEMMA FinalFromParts ==
    ASSUME TypeOK, Registered, FinalOrder, NEW w \in Workers, WorkerStep(w), Final(w)'
    PROVE  FinalOrder'
<1>1. \A u \in Workers \ {w} : pc'[u] = "idle" /\ job'[u].status # "COMPLETED"
    BY OthersIdle, OthersKeepJobs, FinalToParts
<1> QED
    BY <1>1 DEF FinalOrder, Final, FinalFile, FinalRow, FinalJob, HoldsJob

\* A flush, a close or a crash does nothing to a file that is on disk already.
LEMMA NothingToFlush ==
    ASSUME WholeOnDisk, disk = writer, FlushInterrupted(writer) \/ Flushed
    PROVE  diskState' = diskState /\ disk' = disk
BY DEF WholeOnDisk, FlushInterrupted, Dirty, Flushed

\* A step that neither touches the file nor completes the Job, and that may
\* write the Job to the row.
StillFinal(w) ==
    /\ UNCHANGED <<diskState, disk, writerOpen, writer>>
    /\ pc[w] # "mark" /\ pc'[w] \notin {"mark", "complete"}
    /\ job'[w].status = "COMPLETED" => job[w].status = "COMPLETED"
    /\ pc[w] \in {"close", "persist", "release"} => pc'[w] \in {"close", "persist", "release"}
    /\ row' \in {row, job[w]}
    /\ row'.status = "COMPLETED" /\ row' # row => ~writerOpen
    /\ row'.status = "COMPLETED" => ~HoldsJob(w)'

LEMMA StillFinalKeeps ==
    ASSUME NEW w \in Workers, Final(w), StillFinal(w)
    PROVE  Final(w)'
<1> USE DEF StillFinal, Final, FinalFile, FinalRow, FinalJob, WholeOnDisk
<1>1. FinalFile(w)'
    OBVIOUS
<1>2. FinalRow(w)'
    OBVIOUS
<1>3. FinalJob(w)'
    OBVIOUS
<1> QED
    BY <1>1, <1>2, <1>3

LEMMA FinalWorkerStep ==
    ASSUME TypeOK, Registered, WriterHeld, FinalOrder, NEW w \in Workers, WorkerStep(w)
    PROVE  FinalOrder'
<1> SUFFICES Final(w)'
    BY FinalFromParts
<1> USE DEF fileVars
<1>0. /\ Final(w) /\ job[w] \in Jobs /\ row \in Jobs
      /\ pc \in [Workers -> WorkerSteps] /\ job \in [Workers -> Jobs]
      /\ Writing(w) => writerOpen
    BY FinalToParts DEF WriterHeld, TypeOK
<1>a. writerOpen => MayBeOpen(w)
    BY OthersIdle DEF WriterHeld, MayBeOpen, Writing
<1>b. pc[w] \notin {"close", "persist", "release"} => job[w].status # "COMPLETED"
    BY <1>0 DEF Final, FinalJob
<1>1. CASE Load(w)
  <2>1. StillFinal(w)
    BY <1>1, <1>0, <1>b, JobFields
       DEF Load, LoadAdmits, CanResume, CanStart, StillFinal, Goto, HoldsJob, Final, FinalRow
  <2> QED
    BY <2>1, <1>0, StillFinalKeeps
<1>2. CASE StartRun(w)
  <2>1. StillFinal(w)
    BY <1>2, <1>0, <1>b DEF StartRun, Update, UpdateFails, StillFinal, Goto, HoldsJob, Final, FinalRow
  <2> QED
    BY <2>1, <1>0, StillFinalKeeps
<1>3. CASE OpenSource(w)
  <2>1. StillFinal(w)
    BY <1>3, <1>0, <1>b, RaiseFacts DEF OpenSource, StillFinal, Goto, HoldsJob, Final, FinalRow
  <2> QED
    BY <2>1, <1>0, StillFinalKeeps
<1>4. CASE CreateWriter(w)
  <2>0. [job[w] EXCEPT !.path = TRUE].status = job[w].status
    BY <1>0, JobFields
  <2>1. ~writerOpen /\ row' = row /\ row.status # "COMPLETED"
    BY <1>4, <1>0, <1>a DEF CreateWriter, MayBeOpen, Writing, Final, FinalRow, HoldsJob
  <2>2. CASE Raise(w, job[w]) /\ UNCHANGED <<writerOpen, writer>>
    BY <1>4, <2>1, <2>2, <1>0, <1>b, RaiseFacts DEF CreateWriter, Final, FinalFile, FinalRow, FinalJob
  <2>3. CASE writer' = EmptyImage /\ job' = [job EXCEPT ![w].path = TRUE] /\ Goto(w, "recordPath")
    BY <1>4, <2>0, <2>1, <2>3, <1>0, <1>b
       DEF CreateWriter, Final, FinalFile, FinalRow, FinalJob, EmptyImage, Goto
  <2> QED
    BY <1>4, <2>2, <2>3 DEF CreateWriter
<1>5. CASE RecordPath(w)
  <2>1. StillFinal(w)
    BY <1>5, <1>0, <1>b, RaiseFacts
       DEF RecordPath, Update, UpdateFails, StillFinal, Goto, HoldsJob, Final, FinalRow
  <2> QED
    BY <2>1, <1>0, StillFinalKeeps
<1>6. CASE OpenResume(w)
  <2>1. row' = row /\ row.status # "COMPLETED" /\ ~writerOpen
    BY <1>6, <1>0, <1>a DEF OpenResume, MayBeOpen, Writing, Final, FinalRow, HoldsJob
  <2>2. CASE Raise(w, job[w]) /\ UNCHANGED <<writerOpen, writer>>
    BY <1>6, <2>1, <2>2, <1>0, <1>b, RaiseFacts DEF OpenResume, Final, FinalFile, FinalRow, FinalJob
  <2>3. CASE ResumeAdmits(job[w]) /\ writer' = disk /\ Goto(w, "persistResume")
             /\ job' = [job EXCEPT ![w] = Checkpointed(Resumed(job[w]), disk.attr)]
    <3>1. Checkpointed(Resumed(job[w]), disk.attr).status = "RUNNING"
      BY <1>0, ContinuedFields DEF TypeOK, Images
    <3> QED
      BY <1>6, <2>1, <2>3, <3>1, <1>0
         DEF OpenResume, ResumeAdmits, OpensForResume, Final, FinalFile, FinalRow, FinalJob,
             WholeOnDisk, Goto
  <2> QED
    BY <1>6, <2>2, <2>3 DEF OpenResume
<1>7. CASE PersistResume(w)
  <2>1. StillFinal(w)
    BY <1>7, <1>0, <1>b, RaiseFacts
       DEF PersistResume, Update, UpdateFails, StillFinal, Goto, HoldsJob, Final, FinalRow
  <2> QED
    BY <2>1, <1>0, StillFinalKeeps
<1>8. CASE Loop(w)
  <2>1. StillFinal(w)
    BY <1>8, <1>0, <1>b, RaiseFacts, JobFields DEF Loop, StillFinal, Goto, HoldsJob, Final, FinalRow
  <2> QED
    BY <2>1, <1>0, StillFinalKeeps
<1>9. CASE WriteChunk(w)
  <2>1. writerOpen /\ row.status # "COMPLETED" /\ Stop(w) \in 0 .. TraceCount /\ writer \in Images
    BY <1>9, <1>0, StopType DEF WriteChunk, Writing, Final, FinalRow, HoldsJob, TypeOK
  <2>2. writer' = writer \/ (~writer.complete /\ ~writer'.complete)
    BY <1>9, <2>1
       DEF WriteChunk, AcceptsChunk, Written, PartialWrites, Resized, Filled, Images
  <2>3. job'[w].status # "COMPLETED" /\ pc'[w] \in {"checkpoint", "flushCancel", "close"}
    BY <1>9, <1>0, <1>b, RaiseFacts DEF WriteChunk, Goto
  <2> QED
    BY <1>9, <2>1, <2>2, <2>3, <1>0 DEF WriteChunk, Final, FinalFile, FinalRow, FinalJob, WholeOnDisk
<1>10. CASE Checkpoint(w)
  <2>0. Checkpointed(job[w], Stop(w)).status = job[w].status
    BY <1>0, StopType, JobFields
  <2>1. writerOpen /\ row.status # "COMPLETED" /\ (FlushInterrupted(writer) \/ Flushed)
    BY <1>10, <1>0 DEF Checkpoint, Writing, Final, FinalRow, HoldsJob
  <2>2. writer.complete => WholeOnDisk /\ disk = writer /\ diskState' = diskState /\ disk' = disk
    BY <1>10, <2>1, <1>0, NothingToFlush DEF Checkpoint, Final, FinalFile
  <2>3. job'[w].status # "COMPLETED" /\ pc'[w] \in {"record", "flushCancel", "close"}
    <3>1. CASE Raise(w, job[w])
      BY <3>1, <1>10, <1>0, <1>b, RaiseFacts DEF Checkpoint
    <3>2. CASE ~Raise(w, job[w])
      BY <3>2, <1>10, <1>0, <1>b, <2>0 DEF Checkpoint, Goto
    <3> QED
      BY <3>1, <3>2
  <2> QED
    BY <1>10, <2>1, <2>2, <2>3, <1>0 DEF Checkpoint, Final, FinalFile, FinalRow, FinalJob, WholeOnDisk
<1>11. CASE Record(w)
  <2>1. StillFinal(w)
    BY <1>11, <1>0, <1>b, RaiseFacts
       DEF Record, Update, UpdateFails, StillFinal, Goto, HoldsJob, Final, FinalRow
  <2> QED
    BY <2>1, <1>0, StillFinalKeeps
<1>12. CASE Commit(w)
  <2>1. StillFinal(w)
    BY <1>12, <1>0, <1>b, JobFields DEF Commit, StillFinal, Goto, HoldsJob, Final, FinalRow
  <2> QED
    BY <2>1, <1>0, StillFinalKeeps
<1>13. CASE Finalize(w)
  <2>0. row' = row /\ row.status # "COMPLETED" /\ writer \in Images /\ pc[w] = "finalize"
    BY <1>13, <1>0 DEF Finalize, Final, FinalRow, HoldsJob, TypeOK
  <2>1. CASE writer.complete
    BY <1>13, <2>0, <2>1, <1>0, <1>b
       DEF Finalize, AcceptsFinalize, Final, FinalFile, FinalRow, FinalJob, WholeOnDisk, Goto
  <2>2. CASE AcceptsFinalize(writer) /\ writer' = Marked(writer) /\ Goto(w, "mark") /\ job' = job
    <3>1. Marked(writer).attr = writer.attr /\ Marked(writer).complete
      BY <2>0 DEF Images, Marked
    <3> QED
      BY <2>0, <2>2, <3>1, <1>0, <1>b, <1>13
         DEF Finalize, AcceptsFinalize, Final, FinalFile, FinalRow, FinalJob, Goto
  <2>3. CASE ~writer.complete /\ writer' = writer /\ Raise(w, job[w])
    BY <2>0, <2>3, <1>0, <1>b, RaiseFacts DEF Final, FinalFile, FinalRow, FinalJob
  <2> QED
    BY <1>13, <2>1, <2>2, <2>3 DEF Finalize
<1>14. CASE Mark(w)
  <2>0. /\ row' = row /\ row.status # "COMPLETED" /\ writer \in Images
        /\ writerOpen /\ writer.complete /\ writer.attr = TraceCount
    BY <1>14, <1>0 DEF Mark, Final, FinalFile, FinalRow, FinalJob, HoldsJob, Writing, TypeOK
  <2>1. CASE Flushed /\ Goto(w, "complete") /\ UNCHANGED <<writer, job>>
    BY <2>0, <2>1, <1>0, <1>b, <1>14
       DEF Mark, Flushed, Final, FinalFile, FinalRow, FinalJob, WholeOnDisk, Goto
  <2>2. CASE writer' = Reverted(writer) /\ Raise(w, job[w])
    <3>1. ~Reverted(writer).complete
      BY <2>0 DEF Images, Reverted
    <3> QED
      BY <2>0, <2>2, <3>1, <1>0, <1>b, <1>14, RaiseFacts
         DEF Mark, Final, FinalFile, FinalRow, FinalJob
  <2> QED
    BY <1>14, <2>1, <2>2 DEF Mark
<1>15. CASE Complete(w)
  <2>1. /\ row' = row /\ row.status # "COMPLETED"
        /\ WholeOnDisk /\ disk = writer
    BY <1>15, <1>0 DEF Complete, Final, FinalFile, FinalRow, FinalJob, HoldsJob, Writing
  <2> QED
    BY <1>15, <2>1, <1>0 DEF Complete, Final, FinalFile, FinalRow, FinalJob, WholeOnDisk, Goto
<1>16. CASE FlushCancel(w)
  <2>1. StillFinal(w)
    BY <1>16, <1>0, <1>b DEF FlushCancel, StillFinal, Goto, HoldsJob, Final, FinalRow
  <2> QED
    BY <2>1, <1>0, StillFinalKeeps
<1>17. CASE LogOutcome(w)
  <2>1. StillFinal(w)
    BY <1>17, <1>0, <1>b DEF LogOutcome, StillFinal, Goto, HoldsJob, Final, FinalRow
  <2> QED
    BY <2>1, <1>0, StillFinalKeeps
<1>18. CASE Close(w)
  <2>1. row' = row /\ row.status # "COMPLETED" /\ job' = job /\ ~writerOpen' /\ pc'[w] = "persist"
    BY <1>18, <1>0 DEF Close, Goto, Final, FinalRow, HoldsJob
  <2>2. job[w].status = "COMPLETED" => diskState' = diskState /\ disk' = disk
    BY <1>18, <1>0, NothingToFlush DEF Close, Final, FinalJob
  <2> QED
    BY <2>1, <2>2, <1>0 DEF Final, FinalFile, FinalRow, FinalJob, WholeOnDisk
<1>19. CASE Persist(w)
  <2>1. ~writerOpen
    BY <1>19, <1>a DEF Persist, MayBeOpen, Writing
  <2> QED
    BY <1>19, <2>1, <1>0
       DEF Persist, Update, UpdateFails, Goto, HoldsJob, Final, FinalFile, FinalRow, FinalJob,
           WholeOnDisk
<1>20. CASE Release(w)
  <2>1. StillFinal(w) \/ (~writerOpen /\ job'[w].status = "ABSENT" /\ pc'[w] = "idle")
    BY <1>20, <1>0, <1>a DEF Release, Goto, NoJob, MayBeOpen, Writing
  <2> QED
    BY <1>20, <2>1, <1>0, StillFinalKeeps
       DEF Release, Final, FinalFile, FinalRow, FinalJob, HoldsJob, WholeOnDisk
<1> QED
    BY <1>1, <1>2, <1>3, <1>4, <1>5, <1>6, <1>7, <1>8, <1>9, <1>10, <1>11, <1>12, <1>13, <1>14, <1>15, <1>16, <1>17, <1>18, <1>19, <1>20 DEF WorkerStep

LEMMA FinalStep ==
    ASSUME TypeOK, Registered, WriterHeld, FinalOrder, [Next]_vars
    PROVE  FinalOrder'
<1> USE DEF fileVars, workerVars
<1>1. CASE \E w \in Workers : WorkerStep(w)
    BY <1>1, FinalWorkerStep
<1>2. ASSUME NEW w \in Workers, NEW m \in {"run", "resume"}, Register(w, m)
      PROVE  FinalOrder'
    BY <1>2 DEF TypeOK, Register, Goto, FinalOrder, HoldsJob, WholeOnDisk
<1>3. CASE Crash
    BY <1>3 DEF Crash, FinalOrder, HoldsJob, WholeOnDisk, NoJob
<1>4. CASE CreateFilterJob \/ Restart
  <2>1. UNCHANGED <<fileVars, pc, job>> /\ (row' = row \/ row'.status # "COMPLETED")
    BY <1>4, JobFields DEF CreateFilterJob, NewJob, NoJob, Restart, Recovered, TypeOK
  <2> QED
    BY <2>1 DEF FinalOrder, HoldsJob, WholeOnDisk
<1>5. CASE UNCHANGED <<row, fileVars, pc, job>>
    BY <1>5 DEF FinalOrder, HoldsJob, WholeOnDisk
<1>6. \/ \E w \in Workers : WorkerStep(w)
      \/ \E w \in Workers : \E m \in {"run", "resume"} : Register(w, m)
      \/ Crash \/ CreateFilterJob \/ Restart
      \/ UNCHANGED <<row, fileVars, pc, job>>
    BY DEF Next, vars, CancelRead, CancellerStep, CancelDecide, CancelAccept
<1> QED
    BY <1>1, <1>2, <1>3, <1>4, <1>5, <1>6

\* What FinalOrder is inductive with.
FinalInv == TypeOK /\ Registered /\ WriterHeld /\ FinalOrder

\* The marker, the row and the open file tell the same story about completion.
THEOREM FinalInvariant == Spec => []FinalInv
<1>1. Init => FinalInv
  <2> SUFFICES ASSUME Init PROVE FinalInv
    OBVIOUS
  <2>1. TypeOK /\ Registered
    BY InitTypeOK, InitRegistered
  <2>2. WriterHeld /\ FinalOrder
    BY DEF Init, WriterHeld, FinalOrder, Writing, MayBeOpen, NoJob
  <2> QED
    BY <2>1, <2>2 DEF FinalInv
<1>2. FinalInv /\ [Next]_vars => FinalInv'
    BY NextTypeOK, RegisteredStep, WriterHeldStep, FinalStep DEF FinalInv
<1> QED
    BY <1>1, <1>2, PTL DEF Spec

\* A COMPLETED row means a readable and complete output with every trace, for
\* any failure of finalize(), of close() and of the last updates.
THEOREM CompletedHolds == Spec => []CompletedIsWhole
<1>1. FinalInv => CompletedIsWhole
    BY DEF FinalInv, FinalOrder, CompletedIsWhole, WholeOnDisk
<1> QED
    BY <1>1, FinalInvariant, PTL

-----------------------------------------------------------------------------
(* The JOB_COMPLETED line.                                                 *)

\* A Job that a worker may write to the row has been started.
LEMMA WrittenRowIsBegun ==
    ASSUME PrefixOrder, NEW w \in Workers, WorkerStep(w), row' # row
    PROVE  Begun'
BY RowWrites DEF PrefixOrder, JobPrefix, Begun, Terminal

LEMMA RowBegunWorkerStep ==
    ASSUME TypeOK, Registered, PrefixOrder, RowBegun, NEW w \in Workers, WorkerStep(w)
    PROVE  RowBegun'
<1> SUFFICES ASSUME HoldsJob(w)', pc'[w] # "start", row' = row PROVE Begun'
    BY OthersIdle, WrittenRowIsBegun DEF RowBegun, HoldsJob
<1>0. pc \in [Workers -> WorkerSteps] /\ mode[w] \in {"run", "resume"}
    BY DEF TypeOK
<1>1. CASE Load(w)
    BY <1>0, <1>1 DEF Load, LoadAdmits, CanResume, Goto, HoldsJob, Begun
<1>2. CASE StartRun(w)
  <2>1. row' = job[w] /\ HoldsJob(w)
    BY <1>0, <1>2 DEF StartRun, Update, Goto, HoldsJob
  <2> QED
    BY <2>1 DEF PrefixOrder, JobPrefix, Begun, Terminal
<1>3. CASE HoldsJob(w) /\ pc[w] # "start"
    BY <1>3 DEF RowBegun, Begun
<1>4. Load(w) \/ StartRun(w) \/ (HoldsJob(w) /\ pc[w] # "start")
  <2>1. CASE Release(w)
    BY <1>0, <2>1 DEF Release, Goto, HoldsJob
  <2> QED
    BY <2>1 DEF WorkerStep, OpenSource, CreateWriter, RecordPath, OpenResume,
           PersistResume, Loop, WriteChunk, Checkpoint, Record, Commit,
           Finalize, Mark, Complete, FlushCancel, LogOutcome, Close, Persist, HoldsJob
<1> QED
    BY <1>1, <1>2, <1>3, <1>4

LEMMA RowBegunStep ==
    ASSUME TypeOK, Registered, PrefixOrder, RowBegun, [Next]_vars
    PROVE  RowBegun'
<1> USE DEF workerVars, Begun
<1>1. CASE \E w \in Workers : WorkerStep(w)
    BY <1>1, RowBegunWorkerStep
<1>2. ASSUME NEW w \in Workers, NEW m \in {"run", "resume"}, Register(w, m)
      PROVE  RowBegun'
    BY <1>2 DEF TypeOK, Register, Goto, RowBegun, HoldsJob
<1>3. CASE Crash
    BY <1>3 DEF Crash, RowBegun, HoldsJob
<1>4. CASE CreateFilterJob
    BY <1>4 DEF CreateFilterJob, RowBegun, HoldsJob
<1>5. CASE Restart
    BY <1>5, JobFields DEF TypeOK, Restart, Recovered, RowBegun, HoldsJob
<1>6. CASE UNCHANGED <<row, pc>>
    BY <1>6 DEF RowBegun, HoldsJob
<1>7. \/ \E w \in Workers : WorkerStep(w)
      \/ \E w \in Workers : \E m \in {"run", "resume"} : Register(w, m)
      \/ Crash \/ CreateFilterJob \/ Restart
      \/ UNCHANGED <<row, pc>>
    BY DEF Next, vars, CancelRead, CancellerStep, CancelDecide, CancelAccept
<1> QED
    BY <1>1, <1>2, <1>3, <1>4, <1>5, <1>6, <1>7

\* Only Complete() logs JOB_COMPLETED.
LEMMA LoggedGrows ==
    ASSUME TypeOK, NEW event \in Events, Log(event)
    PROVE  Logged' <=> (Logged \/ event = "JOB_COMPLETED")
<1>1. /\ Len(log') = Len(log) + 1 /\ Len(log) \in Nat
      /\ log'[Len(log) + 1].event = event
      /\ \A i \in 1 .. Len(log) : log'[i] = log[i]
    BY LogAppends
<1> QED
    BY <1>1 DEF Logged

LEMMA OnlyCompleteLogs ==
    ASSUME TypeOK, [Next]_vars, Logged'
    PROVE  Logged \/ \E w \in Workers : Complete(w)
<1> DEFINE Other == UNCHANGED log \/ \E event \in Events \ {"JOB_COMPLETED"} : Log(event)
<1>1. CASE Other
    BY <1>1, LoggedGrows DEF Logged
<1>2. ASSUME NEW w \in Workers, WorkerStep(w)
      PROVE  Other \/ Complete(w)
  <2>1. CASE StartRun(w) \/ PersistResume(w) \/ FlushCancel(w) \/ LogOutcome(w)
    BY <2>1, EventNames DEF StartRun, PersistResume, FlushCancel, LogOutcome
  <2>2. CASE ~(StartRun(w) \/ PersistResume(w) \/ FlushCancel(w) \/ LogOutcome(w))
    BY <1>2, <2>2
       DEF WorkerStep, Load, OpenSource, CreateWriter, RecordPath, OpenResume, Loop,
           WriteChunk, Checkpoint, Record, Commit, Finalize, Mark, Close, Persist, Release
  <2> QED
    BY <2>1, <2>2
<1>3. Other \/ \E w \in Workers : WorkerStep(w)
  <2>1. CASE CreateFilterJob \/ Restart
    BY <2>1, EventNames DEF CreateFilterJob, Restart
  <2>2. CASE ~(CreateFilterJob \/ Restart)
    BY <2>2
       DEF Next, vars, Register, CancelRead, CancellerStep, CancelDecide, CancelAccept, Crash
  <2> QED
    BY <2>1, <2>2
<1> QED
    BY <1>1, <1>2, <1>3

\* What LogOrder says while no worker other than w executes.
LogPart(w) ==
    /\ WholeOnDisk /\ Begun
    /\ writerOpen => disk = writer
    /\ ~Fresh(w) /\ pc[w] # "mark"

LEMMA LogFromParts ==
    ASSUME TypeOK, Registered, NEW w \in Workers, WorkerStep(w), LogPart(w)'
    PROVE  LogOrder'
<1>1. \A u \in Workers \ {w} : ~Fresh(u)' /\ pc'[u] # "mark"
    BY OthersIdle DEF Fresh
<1> QED
    BY <1>1 DEF LogOrder, LogPart

\* The execution that logs the line.
LEMMA CompleteLogs ==
    ASSUME TypeOK, Registered, WriterHeld, FinalOrder, RowBegun,
           NEW w \in Workers, Complete(w)
    PROVE  LogPart(w)'
<1>0. pc \in [Workers -> WorkerSteps] /\ WorkerStep(w)
    BY DEF TypeOK, WorkerStep
<1>1. writerOpen /\ writer.complete /\ WholeOnDisk /\ disk = writer
  <2>1. Writing(w) /\ pc[w] = "complete"
    BY DEF Complete, Writing
  <2> QED
    BY <1>0, <2>1, FinalToParts DEF WriterHeld, Final, FinalFile, FinalJob
<1>2. Begun
    BY DEF Complete, RowBegun, HoldsJob
<1> QED
    BY <1>0, <1>1, <1>2 DEF Complete, LogPart, fileVars, Goto, Fresh, WholeOnDisk, Begun

\* Every step after it.
LEMMA LogPartStep ==
    ASSUME TypeOK, Registered, WriterHeld, PrefixOrder,
           NEW w \in Workers, WorkerStep(w), LogPart(w)
    PROVE  LogPart(w)'
<1> USE DEF fileVars
<1>0. /\ pc \in [Workers -> WorkerSteps] /\ mode[w] \in {"run", "resume"}
      /\ job[w] \in Jobs
      /\ Writing(w) => writerOpen
    BY DEF TypeOK, WriterHeld
<1>1. Begun'
    BY WrittenRowIsBegun DEF LogPart, Begun
<1>2. WholeOnDisk' /\ (writerOpen => disk = writer)'
  <2>1. CASE Load(w) \/ StartRun(w) \/ OpenSource(w) \/ RecordPath(w) \/ PersistResume(w)
             \/ Loop(w) \/ Record(w) \/ Commit(w) \/ Complete(w) \/ FlushCancel(w)
             \/ LogOutcome(w) \/ Persist(w) \/ Release(w)
    <3>1. UNCHANGED fileVars
      BY <2>1 DEF Load, StartRun, OpenSource, RecordPath, PersistResume, Loop, Record,
                  Commit, Complete, FlushCancel, LogOutcome, Persist, Release
    <3> QED
      BY <3>1 DEF LogPart, WholeOnDisk
  <2>2. CASE CreateWriter(w)
    BY <2>2 DEF CreateWriter, LogPart, Fresh
  <2>3. CASE OpenResume(w)
    BY <2>3 DEF OpenResume, LogPart, WholeOnDisk
  <2>4. CASE WriteChunk(w)
    BY <2>4, <1>0 DEF WriteChunk, AcceptsChunk, LogPart, WholeOnDisk, Writing
  <2>5. CASE Checkpoint(w) \/ Finalize(w) \/ Close(w)
    <3>1. writerOpen => diskState' = diskState /\ disk' = disk
      BY <2>5, <1>0, NothingToFlush DEF Checkpoint, Finalize, Close, LogPart
    <3>2. writerOpen' => writerOpen /\ writer' = writer
      BY <2>5, <1>0 DEF Checkpoint, Finalize, AcceptsFinalize, Close, LogPart, WholeOnDisk, Writing
    <3>3. ~writerOpen => diskState' = diskState /\ disk' = disk
      BY <2>5, <1>0 DEF Checkpoint, Finalize, Close, Writing
    <3> QED
      BY <3>1, <3>2, <3>3 DEF LogPart, WholeOnDisk
  <2>6. CASE Mark(w)
    BY <2>6 DEF Mark, LogPart
  <2> QED
    BY <2>1, <2>2, <2>3, <2>4, <2>5, <2>6 DEF WorkerStep
<1>3. ~Fresh(w)' /\ pc'[w] # "mark"
  <2>1. CASE Load(w)
    BY <2>1, <1>0 DEF Load, LoadAdmits, CanStart, Goto, LogPart, Begun, Fresh
  <2>2. CASE OpenSource(w)
    BY <2>2, <1>0, RaiseFacts DEF OpenSource, Goto, LogPart, Fresh
  <2>3. CASE StartRun(w) \/ CreateWriter(w) \/ RecordPath(w) \/ Mark(w)
    BY <2>3 DEF StartRun, CreateWriter, RecordPath, Mark, LogPart, Fresh
  <2>4. CASE Finalize(w)
    <3>1. writer.complete
      BY <2>4, <1>0 DEF Finalize, LogPart, WholeOnDisk, Writing
    <3> QED
      BY <2>4, <3>1, <1>0 DEF Finalize, AcceptsFinalize, Goto, Fresh
  <2>5. CASE OpenResume(w) \/ PersistResume(w) \/ Loop(w) \/ WriteChunk(w) \/ Checkpoint(w)
             \/ Record(w)
    BY <2>5, <1>0, RaiseFacts
       DEF OpenResume, PersistResume, Loop, WriteChunk, Checkpoint, Record, Goto, Fresh
  <2>6. CASE Commit(w) \/ Complete(w) \/ FlushCancel(w) \/ LogOutcome(w) \/ Close(w)
             \/ Persist(w) \/ Release(w)
    BY <2>6, <1>0 DEF Commit, Complete, FlushCancel, LogOutcome, Close, Persist, Release,
                      Goto, Fresh
  <2> QED
    BY <2>1, <2>2, <2>3, <2>4, <2>5, <2>6 DEF WorkerStep
<1> QED
    BY <1>1, <1>2, <1>3 DEF LogPart

LEMMA LogStep ==
    ASSUME TypeOK, Registered, WriterHeld, PrefixOrder, FinalOrder, RowBegun, LogOrder,
           [Next]_vars
    PROVE  LogOrder'
<1> SUFFICES ASSUME Logged' PROVE LogOrder'
    BY DEF LogOrder
<1> USE DEF fileVars, workerVars
<1>1. ASSUME NEW w \in Workers, Complete(w)
      PROVE  LogOrder'
    BY <1>1, CompleteLogs, LogFromParts DEF WorkerStep
<1>2. ASSUME NEW w \in Workers, WorkerStep(w), Logged
      PROVE  LogOrder'
    BY <1>2, LogPartStep, LogFromParts DEF LogOrder, LogPart
<1>3. CASE Logged /\ \E w \in Workers : \E m \in {"run", "resume"} : Register(w, m)
    BY <1>3 DEF TypeOK, Register, Goto, LogOrder, Fresh, WholeOnDisk, Begun
<1>4. CASE Logged /\ Crash
  <2>1. diskState' = diskState /\ disk' = disk
    BY <1>4, NothingToFlush DEF Crash, LogOrder
  <2> QED
    BY <1>4, <2>1 DEF Crash, LogOrder, Fresh, WholeOnDisk, Begun
<1>5. CASE Logged /\ (CreateFilterJob \/ Restart)
  <2>1. UNCHANGED <<fileVars, pc, mode>> /\ Begun'
    BY <1>5, JobFields DEF CreateFilterJob, Restart, Recovered, LogOrder, Begun, TypeOK
  <2> QED
    BY <1>5, <2>1 DEF LogOrder, Fresh, WholeOnDisk
<1>6. CASE Logged /\ UNCHANGED <<row, fileVars, pc, mode>>
    BY <1>6 DEF LogOrder, Fresh, WholeOnDisk, Begun
<1>7. \/ \E w \in Workers : WorkerStep(w)
      \/ \E w \in Workers : \E m \in {"run", "resume"} : Register(w, m)
      \/ Crash \/ CreateFilterJob \/ Restart
      \/ UNCHANGED <<row, fileVars, pc, mode>>
    BY DEF Next, vars, CancelRead, CancellerStep, CancelDecide, CancelAccept
<1> QED
    BY <1>1, <1>2, <1>3, <1>4, <1>5, <1>6, <1>7, OnlyCompleteLogs

\* The log says JOB_COMPLETED only of an output that is complete on disk, and
\* no failure of the last update, crash or later resume makes that untrue.
THEOREM LoggedCompletionHolds == Spec => []LoggedCompletionIsOnDisk
<1>1. Init => RowBegun /\ LogOrder
    BY DEF Init, RowBegun, HoldsJob, LogOrder, Logged
<1>2. FinalInv /\ PrefixInv /\ RowBegun /\ LogOrder /\ [Next]_vars
        => RowBegun' /\ LogOrder'
    BY RowBegunStep, LogStep DEF FinalInv, PrefixInv
<1>3. LogOrder => LoggedCompletionIsOnDisk
    BY DEF LogOrder, Logged, WholeOnDisk, LoggedCompletionIsOnDisk
<1> QED
    BY <1>1, <1>2, <1>3, FinalInvariant, PrefixInvariant, PTL DEF Spec
=============================================================================
