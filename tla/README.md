# A verification of GIECAR Seismic

GIECAR Seismic is a PyQt5 desktop application. It imports a SEG-Y survey, runs a
zero-phase Butterworth filter over its traces in the background, writes the result to
HDF5, keeps datasets and jobs in SQLite, and shows sections and spectra. The filtering
itself is a few lines of SciPy. What is hard is what surrounds it: a job has a row in
SQLite, an output in HDF5 and an execution log, with no common transaction; it can be
cancelled from another thread at any moment, interrupted by a kill of the process, and
resumed from its checkpoint.

This directory holds TLA+ models of that part, TLC configurations that check them, and
TLAPS proofs about the service, its runtime, the main window, the viewer, the index and
the sections read through it. Paths below are relative to `src/src/giecar_seismic/`.
`PROJECT.json` maps every definition to source lines and lists runs, mutants, hazards,
findings and theorems.

To check a model: `tlc -config FilterJobService_safety.cfg MCFilterJobService.tla`. To
check the proofs: `tlapm M.tla` for M in `FilterJobServiceProofs`, `CompletionProofs`,
`LifecycleProofs`, `RuntimeProofs`, `WindowProofs`, `ViewerProofs`, `IndexProofs`,
`SectionProofs`.

## 1. Inventory

| component (source) | state | operations |
|---|---|---|
| **Job** (`domain/job.py`) | status, processed traces, resume count, output path | start, resume, record_checkpoint, complete, fail, cancel |
| **FilterJobService** (`application/filter_jobs.py`) | `_cancel_tokens`: job id to `_RunRegistration` (token, committed, cancel_request_pending), under one lock | create, run, resume, cancel, recover_interrupted_jobs |
| **HDF5 output writer** (`infrastructure/storage/hdf5_writer.py`) | the open file: rows, amplitudes, `written_trace_count`, `complete` | create, open_for_resume, write_chunk, flush, finalize, close |
| **Job repository** (`infrastructure/database/`) | the `jobs` table | add, get, update, list |
| **Execution log** (`application/job_logging.py`, `infrastructure/logging/`) | one text file per job; a handler on a process-global logger, under `_WRITE_LOCK` | one line per event |
| **Composition root** (`__main__.py`) | none | recovery, then the window |
| **Main window** (`ui/main_window.py`, `ui/workers.py`) | current job id, four QThread/worker pairs, the table shown, loaded dataset | run, resume, cancel, import, filter, view, close, and a handler for each signal |
| **Dataset import** (`application/dataset_import.py`, `infrastructure/segy/dataset_importer.py`) | the `datasets` table | import of a path |
| **Geometry index** (`application/geometry_index.py`) | the `trace_geometry` table | build |
| **Viewer window** (`ui/seismic_viewer.py`, `ui/region_spectrum_window.py`, `ui/viewer_workers.py`) | section, region, spectrum, request numbers, one kept click and line, one worker; display settings, detached window | choose line, orientation, click, change settings, renderer or scale, open the window, close, and a handler for each signal |
| **Renderers** (`ui/*_renderer.py`) | the images, boundaries and curves retained from one call to the next | show_section, draw_region, show spectrum, clear |
| **Viewer service** (`application/seismic_viewer.py`) | none; several queries and reads per call | context, load_section, regional spectrum |
| **Parallel filter** (`application/parallel_filter.py`) | the futures of one chunk in a process pool | partition, submit, collect |
| **SEG-Y reader**, **HDF5 output reader**, **Butterworth filter** | none of their own | reads, numerics |

How they interact, and what has to be right:

- **Main window → service.** A `FilterJobWorker` on a QThread calls `run_filter_job()`
  or `resume_filter_job()`, while the GUI thread calls `cancel_job()` on the same
  service. They share `_cancel_tokens` under a lock and the job's row without one.
  *Right means*: one execution per job, an accepted cancellation is never overtaken by
  completion, a refused one is refused explicitly, nobody waits for ever.
- **Service → HDF5, SQLite, log.** For every chunk: write, flush, then update the row.
  At the end: point of no return, finalize, JOB_COMPLETED, row. Each call may raise and
  the process may die between any two. *Right means*: the row is never ahead of the
  readable file, COMPLETED means whole, no confirmed work is lost, the log explains what
  happened.
- **Service → parallel filter → processes.** A chunk is split over the pool, whose tasks
  end in any order, raise, or die with their process. *Right means*: the chunk comes
  back whole and in physical order or not at all, and no process works on after the
  execution.
- **Service → execution log → file.** The worker logs every event of its job, the
  CANCEL_REQUESTED of a `cancel_job()` on the GUI thread included, which only leaves a
  flag. A call to `log()` may fail at any step and `_log()` swallows it; the logger is
  global to the process and lives on. *Right means*: one line per event, or none if the
  call failed, and no trace of the failure in a later line.
- **Start of the application → rows.** `recover_interrupted_jobs()` makes RUNNING rows
  CANCELLED before any window exists. *Right means*: an interrupted job can be resumed.
- **Workers → main window.** A worker emits progress and one terminal signal, which Qt
  queues; handler, `thread.quit` and `finished` come one after the other while the user
  goes on clicking. *Right means*: Cancel reaches the running job, import and run
  exclude each other, the window does not close over a live thread, the table settles on
  what SQLite has.
- **Viewers → geometry index.** Each viewer builds the index of its dataset on its own
  thread: several builds of one dataset can interleave. *Right means*: they leave a
  whole index, or a visibly incomplete one.
- **Viewer service → index, SEG-Y, output.** A section is put together from two queries
  and two reads with no transaction, while another viewer may be deleting the index.
  *Right means*: what stands at a place is the amplitude of the trace whose header says
  that place.
- **Viewer workers → viewer.** Index, section and spectrum share one worker slot,
  refilled from what was kept by the handler of `finished`. *Right means*: one worker at
  a time, and section, region and spectrum on screen belong together.
- **Viewer → renderers, detached window.** Images are reused, renderers exchanged, the
  window keeps a copy. *Right means*: what is drawn is what the viewer's state says.
- **User → SEG-Y file.** The source may be replaced at any time; a fingerprint (size and
  modification time) is compared at import and before a run.

The hazards of this code, each with its line and the properties that would catch it, are
listed in `PROJECT.json`.

## 2. The plan

Written, in this order, the most important behaviour first:

1. `Job`, `Hdf5Output`: pure state of the job and of the file; no behaviour.
2. `FilterJobService` extends both and composes them with SQLite, the registrations, the
   lock, the log, threads and kills. `JobLifecycle` is the abstract specification it
   implements; `MCFilterJobService` instantiates it. `FilterJobServiceProofs` proves
   about it; `CompletionProofs` extends that, and `LifecycleProofs` extends both.
3. `MainWindow` (+ `MCMainWindow`): the GUI side of a job.
4. `DatasetImport`; `GeometryIndex`, which extends it because the index and the imports
   share the source file and the datasets table; `SectionLoad`, which extends both with
   the section a viewer assembles from them (+ `MCSectionLoad`, `MCGeometryIndex`).
5. `SeismicViewer`, the dialog; `ViewerScreen` extends it with renderers, settings,
   spectrum and detached window (+ `MCViewerScreen`). `ViewerProofs` proves about both.
6. `ParallelFilter` and `ExecutionLog`, composed by `JobRuntime`, which implements
   `AtomicRuntime`: what `FilterJobService` takes for one step is one step
   (+ `MCJobRuntime`). `RuntimeProofs`.
7. `WindowProofs`, about `MainWindow`; `IndexProofs`, about `DatasetImport` and
   `GeometryIndex`; `SectionProofs`, which extends it, about `SectionLoad`.

Left, in this order:

8. Proofs: what `JobLifecycle` alone implies (a COMPLETED row and its output are final),
   which the service inherits by the refinement; under which conditions the comments of
   section 6 do hold.
9. The dataset filter and Resume's checkpoint tests in `MainWindow`.

The runs take about ten minutes together on two cores; new modules should extend existing runs
where they can rather than multiply them.

## 3. The modules and the code

Every action is one step of a thread, and ends where another thread or a kill could see
the difference: at a repository call, an HDF5 call that may flush, a critical section, a
log line, a signal. Names follow the code. A definition whose name begins with `Bad` is
not part of any specification: it is a plausible bug in the definition after it, kept to
show that some property notices it (`PROJECT.json`, "mutants").

### Job, Hdf5Output

A job is a record; each method is a guard (`CanStart`, `CanRecordCheckpoint`, ...) that
says when it does not raise, and an operator (`Started`, `Checkpointed`, ...) for what
it leaves. `progress` is a function of `processed` and is not kept.

An HDF5 image is `rows` (length of the dataset), `data` (rows that hold amplitudes),
`attr` (`written_trace_count`) and `complete`. `write_chunk` is resize, store, marker:
if it raises, the steps before stay (`PartialWrites`).

### FilterJobService

| variables | in the code |
|---|---|
| `row` | the job's row in SQLite |
| `diskState`, `disk` | what a process started now would find at the output path: nothing, a file that does not open, or an image |
| `writerOpen`, `writer` | the open `h5py.File` and its content, flushed or not |
| `owner`, `committed`, `pending`, `lock` | the entry of `_cancel_tokens`, its flags, and who is inside the lock |
| `token`, `pc`, `mode`, `job`, `start` | per execution: its CancelToken, next step, entry point, Job object, next trace |
| `cpc` | the step of each `cancel_job()` call |
| `log` | the events handed to `_log()`, in order, and whether the line could be written: an exception is swallowed and only the line is missing |
| `up`, `crashes`, `dbFaults` | the process, and the bounds on kills and failing repository calls (`MaxLogFaults` bounds the lost lines) |

The steps of `_execute_filter_job()`, in order: `Register`, `Load`, `StartRun`,
`OpenSource`, `CreateWriter` and `RecordPath` (run) or `OpenResume` and `PersistResume`
(resume), then the loop `Loop`, `WriteChunk`, `Checkpoint`, `Record`, then `Commit`,
`Finalize`, `Mark`, `Complete`, and whatever happened, `FlushCancel`, `LogOutcome`,
`Close`, `Persist`, `Release`. `Raise` is the `except Exception` clause. `cancel_job()`
is `CancelRead` (row, no lock), `CancelDecide` (lock, token) and `CancelAccept` (flag,
unlock). `Crash` clears all that is in memory, `Restart` is `main()`.

Assumptions, all about things outside `src/`:

- HDF5: when a flush or close raises or the process dies with unflushed changes, the
  file holds its last flushed image, the current one, or does not open
  (`FlushInterrupted`). After a flush that returned, it holds the current one.
- SQLite: an update writes the whole row or raises and writes nothing.
- One call to `log()` writes one line whole or, if it fails, none: the former is what
  `JobRuntime` shows.
- One process. Jobs share nothing but the lock, held for a few memory operations, so one
  job is modelled.
- Parameters and dataset have passed validation; amplitudes are not modelled.

`JobLifecycle` is what a job promises to whoever looks at its row and its output: the
status graph, the output changes only under RUNNING, a trace is confirmed only when it
is in a readable output, COMPLETED only with a whole one. `ImplementsLifecycle` says
that every step of the service, with its threads, failures and kills, is one of its
steps or leaves row and file alone.

### MainWindow

`row` is SQLite, `table` what the window shows, `ref`/`phase`/`result` the four
QThread/worker pairs (`self._thread is not None`, what the thread does, what the call
returned), `events` the GUI thread's queue. User actions (`Run`, `Resume`, `Cancel`,
`SelectSegy`, `ChangeFilter`, `ViewLog`, `OpenViewer`, `Close`) have the guards of the
enabled widgets and of the handlers; `JobBegins`, `JobEnds`, `Answer`, `Emit`,
`ThreadEnds` are the threads; `OnJobResult`, `OnHistoryResult`, `OnImportResult`,
`OnQuit`, `OnFinished` the handlers of queued signals, in the order of the queue. The
outcome of a log read has no handler among them: its lambdas are connected after
`moveToThread()` (`ui/main_window.py:965-972`) and run on the worker's thread, so that
the GUI thread gets only the quit and the `finished` of that pair. `missed` remembers
that a wanted refresh was dropped or failed. Of the service only the outcomes are kept:
any the service allows, an unsaved one included.

### DatasetImport, GeometryIndex

For one path: `file` is the version of the SEG-Y at the path, which `EditFile` replaces
or removes between any two steps. `Stat`, `Find`, `ReadMetadata`, `Add` are the import.
A builder runs `Begin`, `Count`, `Delete`, `Open`, one `AddBatch` per slice of headers,
`Finish`; any step may fail and a `Kill` leaves only the tables. A batch is the unit of
the index. Assumed: each repository call is one transaction; a reader that has opened
the file goes on reading the version it opened; one import at a time
(`ImportAndRunExclusive` and the one import pair of `MainWindow`).

### SectionLoad

`load[b]` is the step of viewer b's `load_section()`: `QueryPresent` (traces of the
line), `QueryAxis` (the crossing lines), `ReadOriginal`, `ReadFiltered`, with builds,
changes of the file, kills and `LoadFails` between any two. `Header[v]` gives the places
of a version's traces, and amplitudes are known by the version they are read from.
`output[d]` is the version that the dataset's job has filtered (`JobCompletes`).

### SeismicViewer, ViewerScreen

`worker` holds the worker's kind and what it was given, `phase` its thread, `events` the
queue; `section`, `region`, `regional` what is shown; `pendingSection`, `pendingRegion`
the request numbers that results are compared with; `pendingLine`, `pendingClick` what
is kept. `StartWorker` is `_start_worker()` with its assertion: if it fails, `aborted`
becomes true. `OnFinished` is `_on_thread_finished()`, which starts what was kept.
`OnIndexed` and `ChangeOrientation` look the lines up again, and find any set of them:
another viewer's build may have deleted the index, or filled it in part. If they find
none (lines 349-351), the old section and the enabled controls stay under the new
orientation. That the lookup itself raises, out of a slot, is not modelled.

`ViewerScreen` conjoins to each of these actions what the handler draws: `canvas`,
`plot` and `window` are what the section renderer, the spectrum renderer and the detached
window retain; `settings`, `renderer`, `look` are the controls. A renderer is not told of
a change: each handler calls `_redraw()`, `_draw_region()` or `_refresh_spectrum()`
itself, and `Reused` keeps what `show_section()` keeps of its images. `Summed` is the loop
of `regional_spectrum()` over batches of traces; `Resolved` lists the traces of a region
in the order of its section.

### ParallelFilter, ExecutionLog, JobRuntime, AtomicRuntime

`ParallelFilter` is one call of `filter_chunk_with_executor()`: `BeginCall`, one `Split`
per range, one `Submit` per task, `Collect` in order of submission, while `TaskStarts`,
`TaskEnds` and `ProcessDies` are the pool's. `ExecutionLog` is `log()`: `Enter` (lock),
`Attach` (handler), `WriteLine` (a line for each handler attached), `Detach`, `Leave`,
with `LogFails` at each step that can raise and `Undone` for what the `with` and the
`finally` unwind. `JobRuntime` is one execution that does its chunks and log lines
through them, while `cancel_job()` on the GUI thread sets the token and the flag.
`AtomicRuntime` says what is left when the detail is hidden: one step appends one whole
chunk in order, or one line, and no event has a second line. The pool is external,
modelled from how the code uses it: a task that has started runs to its end, a process
that dies breaks all that has not ended, `shutdown()` waits.

## 4. The runs

| run | question | instance | states |
|---|---|---|---|
| `safety` | the service: nine safety properties and the refinement | 3 traces, chunks of 2, 2 executions, 2 cancellers, 2 resumes, 1 kill, 2 failing repository calls, 1 lost line, symmetry | 3 383 425 |
| `live` | does what has begun end? | as above with 1 canceller, 1 resume, 1 kill, 1 lost line, no failing repository call | 151 762 |
| `orphan`, `unreachable`, `stalecancel` | findings, section 6 | 1 execution | |
| `window` | the window's bookkeeping | 2 jobs, symmetric; filters ALL and CANCELLED; history may fail | 1 386 939 |
| `windowlive` | do worker pairs end? | 1 job, all four pairs | 357 510 |
| `viewerexit` | finding | as `window` | |
| `index` | imports, builds, and sections loaded from them | 2 builders, 3 versions of the file (with a gap, with two traces at one place, short), 1 row, 1 change, 1 kill, 1 load each | 2 532 601 |
| `duplicate` | finding | 2 versions, 3 rows | |
| `viewer` | the viewer and its screen | 2 lines each way, 4 positions with a gap, batches of 2, 2 loads, 2 regions, 2 colormaps, 2 changes of presentation | 726 332 |
| `runtime` | one execution's chunks and log lines | 10 traces in chunks of 8 and 2, 3 processes, 3 faults of tasks' processes or of the log | 11 319 |

What each property says is in the comment above it. The ones that matter most:

- `AcceptedCancelNeverCompletes`: a `cancel_job()` that returned success is never
  followed by COMPLETED. `CancelTakesEffect`: the job does become CANCELLED (or FAILED),
  even when the request comes during the last chunk.
- `CheckpointNeverAhead`, `WorkIsNeverLost`: SQLite confirms only what the readable
  prefix holds, and no failure, resume or kill takes a confirmed trace back.
- `CompletedIsWhole`, `LoggedCompletionIsOnDisk`, `MarkersHonest`: nobody is told
  "complete" of a partial file: not by the row, not by the log, not by the marker.
- `CancellationIsExplained`: the order of CANCEL_REQUESTED and JOB_CANCELLED, though the
  request comes from another thread at any moment and a line may be lost: a lost request
  leaves a cancellation unexplained only in its own place.
- `TableSettled`: when all is quiet the table is what SQLite has, unless a refresh was
  dropped or failed; `ViewOnlyCompleted`: whatever was dropped, nothing is shown as
  COMPLETED that is not.
- `SettledIndexIsWhole`: two builds that delete each other's batches and run into each
  other's leave a whole index between them, if the file fits and no call fails by
  itself. `SectionIsOfTheFile`: a trace never appears at another's place, whatever another
  viewer does to the index between the queries; that a gap is a gap, and that no trace is
  missing, is claimed only of a load that nobody disturbed.
- `KeptClickIsApplied`, `ControlsNameTheSection`, `NavigationComesBack`: nothing the user
  asked while a worker ran is silently dropped, and the controls come back, as long as
  the last lookup found lines (section 6 says what happens otherwise).
- `ScreenShowsState`, `WindowFollowsRegion`: nothing stale stays drawn.
- `SpectrumCountsEachTraceOnce`: a definition by sets of what the batches must add up to.
- `ReturnsTheChunkInOrder`, `NoTaskOutlivesTheExecution`, `ImplementsAtomicRuntime`: the
  chunks and lines that `FilterJobService` relies on.

**Why the bounds are enough.** Three traces in chunks of two give a whole chunk and a
remainder, a prefix that is neither empty nor whole, and both boundaries of the loop.
Two executions are what it takes to overlap; two cancellers, to repeat a request and to
hold the lock against each other. Two resumes allow a resume of a resume; one kill can
fall at every step, and what follows it is an ordinary history from a recovered row; two
failing updates reach a failure while handling a failure; the lost line can be any of
the log's, a request's or a cancellation's included. Two jobs are what it takes to
confuse one with another. Three versions of the file include two of the same size and a
shorter one; two builders are a conflict, and two sections loaded beside them reach a
delete between a section's two queries. Four positions with a gap give an invalid
region, a region of one trace, one in both click orders, and a last batch that is short;
two changes of presentation exchange a renderer and then change what it shows. Eight
traces over three processes leave a remainder, two over three leave a process idle, and
the second chunk is the last one. Three faults are failures while others are handled,
and reach the line after them. Every action and disjunct is taken in some passing run.

**Deadlock** is checked for the service and for its runtime. In the window and the
viewer a closed window stops, and in the import and index the bounds on rows and changes
stop, so there it is not.

**Fairness.** `live`: a call that has begun keeps running (threads are scheduled by the
operating system). Strong fairness for an execution, because it needs a lock which the
user, by cancelling again and again, takes and releases within microseconds; weak for
`cancel_job()`. `windowlive`: weak fairness of the event loop and of each thread; a
worker's call returns, which is what `ExecutionEnds` shows of the longest one. `viewer`:
the same for the viewer's worker and event loop. `runtime`: weak fairness of the worker,
whose calls to `log()` are not obliged to fail, and of the pool. Nobody is obliged to
click, to start a job, or to restart a killed process.

## 5. What is proved

Every safety property, action property and refinement of the passing runs is a theorem,
`NoOrphanRunning` under the condition that its run makes too. The bounds of the runs
are parameters of the theorems.

**The service.** `FilterJobServiceProofs`, `CompletionProofs` and `LifecycleProofs`, for
every number of traces, chunk size, set of threads, and bound on resumes, kills and
failures, under the named assumptions of `Job` and `FilterJobService` (positive sizes;
the two "none" values are not threads):

| theorem | property |
|---|---|
| `TypeCorrect` | `TypeOK` |
| `SingleExecutionHolds` | `SingleExecution`: one execution of a job at a time |
| `AcceptedCancelHolds` | `AcceptedCancelNeverCompletes` |
| `CheckpointHolds` | `CheckpointNeverAhead`: the row is never ahead of the readable file |
| `WorkIsKept` | `WorkIsNeverLost`, an action property |
| `MarkersHold` | `MarkersHonest`: the file's own markers are true |
| `CompletedHolds` | `CompletedIsWhole`: a COMPLETED row has a whole output |
| `LoggedCompletionHolds` | `LoggedCompletionIsOnDisk` |
| `OrphansNeedFaults` | `NoOrphanRunning`, as long as no repository call has failed |
| `ServiceImplementsLifecycle` | `ImplementsLifecycle`: the whole refinement |
| `CancellationsAreExplained` | `CancellationIsExplained`, for any number of lost lines |

`PrefixInvariant`, `FinalInvariant` and `LifecycleInvariant` state the inductive
invariants themselves. From `MarkersHold` on they are in `CompletionProofs`, and the last
three with `LifecycleInvariant` in `LifecycleProofs`.

None of the safety properties is inductive as it stands. The argument:

- **Types** first. Each helper gets a lemma (`JobTypes`, `ImageTypes`, `RaiseTypes`,
  `FileTypes`), then one step per action.
- **Registered**. An execution is past `Register` exactly if it is the owner, and
  nothing runs while the process is down. This makes `row`, the file and the open writer
  the business of one worker, which every later part uses.
- **CommitOrder**. A token is set only on the owner, and only before it commits; the
  finalize steps come only after. The two halves of the point of no return are what
  `AcceptedCancelNeverCompletes` needs.
- **WriterHeld**. The file is open exactly between the steps that open and close it, and
  then exists on disk.
- **PrefixOrder**. `CheckpointNeverAhead` compares row and disk, but the row is written
  from the Job in memory and the disk from the open writer. The invariant therefore
  bounds all of `row.processed` and `job[w].processed` by both `disk.attr` and
  `writer.attr` (`Stored`), and the disk by the writer. A flush raises the disk to the
  writer; a kill leaves either, and both are at least the row.
- **HonestOrder**. While nothing has raised, the open file has exactly the rows it
  promises, so a resize never cuts amplitudes off, and a partial write leaves a marker
  that is still true.
- **FinalOrder**. The marker is set in memory before it is on disk (`Finalize`, `Mark`).
  Between the two the file may be complete only in the writer; from `Complete` on, the
  disk has it and equals the writer, so that no failing `close()` or kill has anything
  left to damage. A Job says COMPLETED only from there to its release, and the row only
  after the file is closed.
- **RowBegun** and **LogOrder**. Once JOB_COMPLETED is logged the row is not CREATED, so
  nobody truncates the file again; a resume opens it complete, writes nothing, and
  closes it clean.
- **WorkIsKept** is an action property and follows from the same invariant: the row is
  only ever overwritten by a Job at least as far, and `CreateWriter` truncates only when
  nothing was confirmed.

- **RowFollows**. What an execution writes to the row is a step of `JobLifecycle` only if
  the row still is what the execution takes it for. `Follows` says so for each step: the
  row is RUNNING while a run goes on and equal to the Job in memory, except for what a
  failed update left out; a resume holds its Job ahead of a row that still says
  CANCELLED until `PersistResume`. `EndsRun` and `EndsResume` say which Job an ending
  execution can bring to such a row, however it came to end: from there one step per
  action gives the refinement. A progress may be confirmed late, by the last update after
  a failed one; `Unreadable` and `Clean` say that the file has it by then.
- **Driven**. A RUNNING row of a live process has an execution that still holds its Job,
  or an update has failed; what a kill leaves is repaired by `Restart` before anything
  else runs.
- **CancelOrder**. `CancellationIsExplained` compares neighbouring lines. An execution
  that logs JOB_CANCELLED has a token (`AskOrder`), which was set by a call whose pending
  flag is still up, or was flushed in the step before: the last line is then the request.
  Conversely, as long as the last line is a request (`LastOrder`), either an execution
  is about to log its outcome, or a kill fell between the two lines and nobody has asked
  since (`Unasked`), so that no second request can come behind the first.

`IInv` is the conjunction of the parts that the properties before these rest on. It, and
`LifecycleInv` and `CancelOrder`, were checked with TLC on the instance of `safety`
before they were proved.

**The runtime.** `RuntimeProofs`, for every number of traces, processes and faults:
`RuntimeTypes` (`TypeOK`), `PartitionsAreExact` (`PartitionIsExact`), `ChunksComeInOrder`
(`ReturnsTheChunkInOrder`), `TasksEndFirst` (`NoTaskOutlivesTheExecution`) and
`RuntimeIsAtomic` (`ImplementsAtomicRuntime`: the whole refinement, initial states and
steps). The loop of the partition keeps that the next range starts at
`i * base + min(i, remainder)`, so that it ends at the size of the chunk; collection
keeps that `result` is the prefix that the collected ranges cover. For the log, the
invariant ties the number of attached handlers and the lock to the step of the call: one
handler between `Attach` and `Detach`, none outside, whichever step failed, so that a
record is written once; and an event is logged at one place of the execution only.

**The main window.** `WindowProofs`, for every set of jobs and filters, with or without
log reads and failing queries:

| theorem | property |
|---|---|
| `CloseIsSafe` | `CloseNeverKillsThread` |
| `CancelIsAimed` | `CancelTargetsTheRunningJob` |
| `ImportsWaitForJobs` | `ImportAndRunExclusive` |
| `ViewsAreOfCompleted` | `ViewOnlyCompleted` |
| `TableSettles` | `TableSettled` |
| `WindowTypeCorrect` | `TypeOK` |

The queue is first reduced to the set of signals in it (`QueueInv`: no signal twice, a
result before its quit), with one lemma for taking a signal and one each for the two
ways of emitting. Over that, `Pairs` ties a pair's reference to its thread and its
signals; `Controls` has the enabled Run button imply that neither a job's nor an
import's pair exists, which is what `_on_run_clicked()` does not test; `Rows` says what
a result in flight knows of the rows (a job's names its row or is a failure; a query's
answer, however old, says COMPLETED only of completed rows); `Settled` says that the
table agrees with the rows, or the query in flight will bring them. The types need
`Ranges` beside it, and a count for the queue: no signal is in it twice, and a pair's
result and `finished` are never in it together, so that its places map one to one into
the eight of four pairs and two signals, and it is no longer than eight.

**The viewer.** `ViewerProofs`, for every set of lines, positions, gaps, colormaps and
bounds. `ScreenIsAViewer` shows that every behaviour of `ViewerScreen` is one of
`SeismicViewer`: what is drawn never decides what the dialog does. The dialog's
invariant `DInv` (worker slot, queue of signals, request numbers, what is kept, and the
section that the controls name, unless a load failed or no lines were found) then gives

| theorem | property |
|---|---|
| `OneWorkerAtATime` | `NeverAborts` |
| `ShownIsConsistent` | `ShownBelongsTogether` |
| `ControlsAreHonest` | `ControlsNameTheSection` |
| `ClicksAreApplied` | `KeptClickIsApplied`, an action property |
| `ScreenIsCurrent` | `ScreenShowsState` |
| `WindowIsCurrent` | `WindowFollowsRegion` |
| `ScreenTypeCorrect` | `ScreenTypeOK` |
| `SpectrumIsOfEachTrace` | `SpectrumCountsEachTraceOnce` |

`ScreenIsCurrent` and `WindowIsCurrent` rest on `SInv`, which adds what the renderers
retain: a region is drawn only over a section, and each handler that changes section,
region or spectrum hands the change over in the same step. The last two rest on `DTypes`
and `STypes` (`ScreenTypeInvariant`): no region is analysed but one of a section of the
survey, bounds in order, with a trace in it. For the spectrum, `Resolved` is a strictly
increasing list of the traces of the region (`InOrder`: the rank of a trace is its
place), so each stands in it once, and each place falls into exactly one batch
(`OneBatch`: the one that starts at the place less its remainder).

**The index.** `IndexProofs`, for every set of versions with any sizes, any number of
builders and every bound on rows, changes of the file and kills. Besides the assumptions
of the modules on their constants it needs `LargestAssumption`: some version is the
largest, which a finite set of them has.

| theorem | property |
|---|---|
| `ImportsReturnTheirOwn` | `ReturnedAsFingerprinted` |
| `BuildsLeaveItWhole` | `SettledIndexIsWhole` |
| `MisfitsShow` | `MisfitIsVisible` |

They are stated of `LoadSpec`, which `SectionsOnlyRead` reduces to `Spec`: loads and jobs
change neither tables nor builds. Their invariant ends in `Covered`: a build that runs
into a batch gives up, and the index still becomes whole because, from the first delete
on, for every batch that is there and every later one that is not, some build stands
between the two and will come to the second. Deleting keeps this (the deleter starts
from nothing), adding keeps it (who added the batch is the one that goes on), and giving
up keeps it because the batch run into was added by another build, from which the rest
is covered. When all have ended nobody is on the way, so nothing is missing.

**Sections.** `SectionProofs`, under the same assumptions: `SectionsAreOfTheFile`
(`SectionIsOfTheFile`). A load is two queries and two reads with other viewers' builds in
between. `Since` says that the index of a dataset either holds only what builds since
the start of the process have read, or has not been deleted since, so that a count taken
still holds; `Own` says that what a builder has added or counted is there as long as
nobody else has deleted. Together they give that an index which is of one version after
a step was so before it (`Pure`), so that what a query found while it was, is of that
version too (`PresentInv`, `SectionInv`). `LoadTypeCorrect` (`LoadTypeOK`) adds the
ranges of what a load has found: no section refers to a trace past the largest file.

`DInv`, `SInv`, `DTypes`, `STypes`, the invariants of the window, of the index and of the
sections hold in TLC's runs as well.

**Only model-checked**: liveness, that is `ExecutionEnds` and `CancelTakesEffect` of the
service, `PairsEnd` of the window, `NavigationComesBack` of the viewer, `ExecutionReturns`
of the runtime; and that the service and its runtime do not deadlock.

**Out of the prover's reach**: liveness under fairness and ENABLED; what a recursive
definition computes for every input, by induction over data; modules that declare
RECURSIVE operators (there are none here).

## 6. Findings

Each is a run that TLC ends with a counterexample, and contradicts a comment or
docstring of the code:

- **`orphan`** (`application/filter_jobs.py:839`): the last `jobs.update()` sits
  unguarded in the `finally` block. If it raises, the row stays RUNNING with no
  execution, contrary to lines 628-632, until the next start of the application.
- **`unreachable`** (`ui/main_window.py:916`): a job killed after the row of its last
  chunk has `processed_traces` equal to the trace count; the service would resume and
  finish it, the Resume button stays disabled.
- **`stalecancel`** (`application/filter_jobs.py:486`): `cancel_job()` reads the status
  before the lock and not again; it can accept a request for a job that has become
  terminal, and which nothing will look at.
- **`viewerexit`** (`ui/main_window.py:733`): `closeEvent()` asks its own four threads,
  not those of its viewers.
- **`duplicate`** (`infrastructure/database/repositories.py:132`): the oldest row of a
  path is the only one looked at; after one change of the file each import of it inserts
  a row.

Observed, without a property of its own:

- A history query in flight when a job ends makes `refresh_history()` drop the
  reconciling refresh (`ui/main_window.py:776`), and the older answer overwrites the
  row: `missed` in `TableSettled`. The next refresh mends it.
- A row left CREATED by a kill is never run again from the window.
- Recovery trusts that there is one process (`application/filter_jobs.py:444`).
- The SEG-Y may change between the fingerprint and the reads
  (`application/filter_jobs.py:634`); a resume that runs to the end compares trace
  counts only (`:633-652`).
- The index and the viewers compare no fingerprint: a replacement with as many traces
  is indexed for the old dataset, and a complete index is never rebuilt; original and
  filtered traces of a section may be of different versions
  (`application/seismic_viewer.py:498`).
- A build that is killed over a file that was replaced by a larger one can leave part of
  an index whose row count is that of the dataset.
- A viewer opened during another's build counts what the other is still changing, and may
  delete the index under the other's section, whose axis and gaps are then partial.
- The lambdas of the log dialog are connected after `moveToThread()`
  (`ui/main_window.py:967`): PyQt calls them on the worker's thread, where
  `_show_job_log()` then touches widgets.
- The docstring of `infrastructure/logging/job_execution_logger.py:16-22` says that the
  GUI thread logs CANCEL_REQUESTED. It does not: `cancel_job()` leaves a flag
  (`application/filter_jobs.py:534-537`), and the worker writes the line.
- After a lookup that found no line the orientation box names another orientation than
  the section's, under "No geometry found for this dataset" (`ui/seismic_viewer.py:349`):
  the premise of `ControlsNameTheSection`. A click on the old section then starts a
  spectrum, whose worker disables the navigation; `_on_thread_finished()` enables it only
  if there are lines (`:332`), so that it stays disabled, with nothing in flight, until
  the dialog is closed: the premise of `NavigationComesBack`.
- A third click during one computation replaces the second (`ui/seismic_viewer.py:518`).

## 7. What is not modelled, and why

- **Butterworth filter, spectra, amplitudes**: floating-point numerics.
- **Drawing, labels, axes, gain and clip**: wording and layout; gain, clip and the two
  curves' visibility are handed over together with what is modelled.
- **SEG-Y reader, HDF5 output reader**: bounds tests around a library, read-only. They are
  the reads of `SectionLoad`, `WriteChunk`, `ReadMetadata`, `Open`, and their failures;
  decoding is segyio's and h5py's.
- **Conversion between rows and entities, migrations, `list()`**: no interleaving;
  `list()` is `Found` in `MainWindow`.
- **Timestamps and reading the log back**: text.
- **Several processes**: the code assumes one, and nothing enforces it.
