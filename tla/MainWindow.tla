------------------------------ MODULE MainWindow ------------------------------
(***************************************************************************)
(* ui/main_window.py: MainWindow, with the workers of ui/workers.py.       *)
(*                                                                         *)
(* Four kinds of background work (filter job, SEG-Y import, history query, *)
(* log read) each have a QThread/worker pair; a worker talks back through  *)
(* signals.  Those connected to a method of the window or to thread.quit   *)
(* are queued for the GUI thread in the order they are emitted, and their  *)
(* handlers run there one at a time.  The two lambdas that show a log are  *)
(* not: connected after moveToThread(), they are called on the worker's    *)
(* thread, while it emits.  What they show is no state here.  The job's    *)
(* row changes under FilterJobService, of which only the outcomes are kept *)
(* here (module FilterJobService has the rest).                            *)
(*                                                                         *)
(* The model starts when the event loop has fired the window's zero timer: *)
(* the first history query is on its way.  Labels, progress values, the    *)
(* dataset filter and the tests of a checkpoint's path and prefix in       *)
(* _can_resume are left out; parameters are taken as valid.                *)
(***************************************************************************)
EXTENDS Sequences, FiniteSets, Naturals

CONSTANTS
    Kinds,           \* the kinds of background work that the user starts
    Ids,             \* job ids that may be used
    NoId,            \* _current_job_id is None
    Failure,         \* a worker's call raised: its failed signal
    StatusFilters,   \* what the status combo box is set to, among others "ALL"
    HistoryMayFail   \* may list_jobs() raise?

Terminal == {"COMPLETED", "FAILED", "CANCELLED"}
Status   == {"CREATED", "RUNNING"} \cup Terminal

ASSUME KindsAssumption ==
    /\ {"job", "import", "history"} \subseteq Kinds
    /\ Kinds \subseteq {"job", "import", "history", "log"}
ASSUME IdsAssumption     == NoId \notin Ids
ASSUME FiltersAssumption ==
    "ALL" \in StatusFilters /\ StatusFilters \subseteq {"ALL"} \cup Status
ASSUME HistoryAssumption == HistoryMayFail \in BOOLEAN


VARIABLES
    row,         \* row[j]: status in SQLite, "ABSENT" before it is inserted
    table,       \* table[j]: status the jobs table shows, "NONE" if no row of it
    filter,      \* the selected status filter
    dataset,     \* is a dataset loaded (self._dataset is not None)?
    runEnabled,  \* is the Run button enabled, as last computed?
    current,     \* _current_job_id
    ref,         \* ref[k]: is self._thread, _import_thread ... not None?
    phase,       \* phase[k]: what the QThread and its worker are doing
    result,      \* result[k]: what the worker's call returned
    target,      \* the job of the FilterJobWorker
    resume,      \* its resume flag
    asked,       \* has a cancellation been accepted for its execution?
    query,       \* the status filter of the JobHistoryWorker
    events,      \* the GUI thread's queue
    viewer,      \* the viewer dialogs' worker: "none", "idle" or "busy"
    open,        \* has no close been accepted yet?
    missed       \* was the last wanted refresh dropped, or did it fail?

jobVars  == <<current, target, resume, asked>>
pairVars == <<ref, phase, result>>
vars == <<row, table, filter, dataset, runEnabled, jobVars, pairVars, query, events,
          viewer, open, missed>>

Phases == {"none", "starting", "running", "returned", "emitted", "quitting", "over"}
Alive(k) == phase[k] \notin {"none", "over"}

\* list_jobs(status): what a query with filter f finds.
Found(f) == [j \in Ids |-> IF row[j] # "ABSENT" /\ f \in {"ALL", row[j]}
                           THEN row[j] ELSE "NONE"]

Success == "OK"

\* run_filter_job() and resume_filter_job() return the Job, or raise.
Returned(status) == IF status = "FAILED" THEN Failure ELSE status

-----------------------------------------------------------------------------
(* Building blocks.                                                        *)

\* moveToThread, connect, keep the references, start().
StartPair(k) ==
    /\ ref' = [ref EXCEPT ![k] = TRUE]
    /\ phase' = [phase EXCEPT ![k] = "starting"]
    /\ UNCHANGED result

BadRunAllowed(loaded, threads) == loaded /\ ~threads["job"]   \* import forgotten

\* _refresh_controls(): the Run button, from the dataset and the threads.
RunAllowed(loaded, threads) == loaded /\ ~threads["job"] /\ ~threads["import"]
RefreshControls == runEnabled' = RunAllowed(dataset', ref')

\* refresh_history(): one query at a time; a call during one does nothing.
RefreshHistory ==
    IF ref["history"]
    THEN UNCHANGED <<pairVars, query>> /\ missed' = TRUE
    ELSE StartPair("history") /\ query' = filter' /\ missed' = FALSE

Init ==
    /\ row   = [j \in Ids |-> "ABSENT"]
    /\ table = [j \in Ids |-> "NONE"]
    /\ filter = "ALL" /\ query = "ALL"
    /\ dataset = FALSE /\ runEnabled = FALSE
    /\ current = NoId /\ target = NoId /\ resume = FALSE /\ asked = FALSE
    /\ ref    = [k \in Kinds |-> k = "history"]
    /\ phase  = [k \in Kinds |-> IF k = "history" THEN "starting" ELSE "none"]
    /\ result = [k \in Kinds |-> Success]
    /\ events = <<>>
    /\ viewer = "none"
    /\ open = TRUE
    /\ missed = FALSE

-----------------------------------------------------------------------------
(* What the user does.                                                     *)

\* _on_select_segy_clicked(), _start_dataset_import().
SelectSegy ==
    /\ open /\ ~ref["import"] /\ ~ref["job"]
    /\ dataset' = FALSE
    /\ StartPair("import")
    /\ RefreshControls
    /\ UNCHANGED <<row, table, filter, jobVars, query, events, viewer, open, missed>>

BadJobFree == TRUE   \* a second worker may be started

JobFree == ~ref["job"]

\* _start_job_worker().
StartJob(j, isResume) ==
    /\ current' = j /\ target' = j /\ resume' = isResume /\ asked' = FALSE
    /\ StartPair("job")
    /\ RefreshControls

\* _on_run_clicked(): the job is created and shown, then run.
Run(j) ==
    /\ open /\ runEnabled
    /\ dataset /\ JobFree
    /\ row[j] = "ABSENT"
    /\ row'   = [row EXCEPT ![j] = "CREATED"]
    /\ table' = [table EXCEPT ![j] = "CREATED"]
    /\ UNCHANGED <<filter, dataset, query, events, viewer, open, missed>>
    /\ StartJob(j, FALSE)

\* _on_resume_clicked(): decides on the job as the table shows it.
Resume(j) ==
    /\ open /\ JobFree /\ ~ref["import"]
    /\ table[j] = "CANCELLED"
    /\ UNCHANGED <<row, table, filter, dataset, query, events, viewer, open, missed>>
    /\ StartJob(j, TRUE)

\* cancel_job(current), accepted: the execution is at work and has not passed
\* its point of no return.  A refusal changes a label only.
CancelAccepted ==
    /\ current # NoId
    /\ current = target /\ phase["job"] = "running" /\ row[current] = "RUNNING"
    /\ asked' = TRUE

\* _on_cancel_clicked().
Cancel ==
    /\ open /\ CancelAccepted
    /\ UNCHANGED <<row, table, filter, dataset, runEnabled, current, target, resume,
                   pairVars, query, events, viewer, open, missed>>

BadNothingRuns == ~ref["job"] /\ ~ref["import"]   \* as its docstring reads

NothingRuns == \A k \in Kinds : ~ref[k]

\* closeEvent(): accepted, or ignored with a request to cancel.
Close ==
    /\ open
    /\ \/ NothingRuns /\ open' = FALSE /\ UNCHANGED asked
       \/ ~NothingRuns /\ CancelAccepted /\ UNCHANGED open
    /\ UNCHANGED <<row, table, filter, dataset, runEnabled, current, target, resume,
                   pairVars, query, events, viewer, missed>>

\* The Refresh button and the filters are disabled while a query runs.
ChangeFilter(f) ==
    /\ open /\ ~ref["history"]
    /\ filter' = f
    /\ RefreshHistory
    /\ UNCHANGED <<row, table, dataset, runEnabled, jobVars, events, viewer, open>>

\* _on_view_log_clicked().
ViewLog ==
    /\ "log" \in Kinds
    /\ open /\ ~ref["log"] /\ \E j \in Ids : table[j] # "NONE"
    /\ StartPair("log")
    /\ UNCHANGED <<row, table, filter, dataset, runEnabled, jobVars, query, events,
                   viewer, open, missed>>

\* _on_view_output_clicked(), _on_preview_clicked(): a dialog that indexes the
\* geometry and loads a section on a QThread of its own.
OpenViewer ==
    /\ open
    /\ \/ \E j \in Ids : table[j] = "COMPLETED"
       \/ dataset /\ ~ref["import"]
    /\ viewer' = "busy"
    /\ UNCHANGED <<row, table, filter, dataset, runEnabled, jobVars, pairVars, query,
                   events, open, missed>>

-----------------------------------------------------------------------------
(* The workers' threads.                                                   *)

Moved(k, from, to) == phase[k] = from /\ phase' = [phase EXCEPT ![k] = to]
Returns(k, value)  == result' = [result EXCEPT ![k] = value]

CanBegin == row[target] = IF resume THEN "CANCELLED" ELSE "CREATED"

\* FilterJobWorker.run(): the service starts the job, or raises and leaves it.
JobBegins ==
    /\ phase["job"] = "starting"
    /\ \/ /\ CanBegin
          /\ Moved("job", "starting", "running")
          /\ row' = [row EXCEPT ![target] = "RUNNING"]
          /\ UNCHANGED result
       \/ /\ Moved("job", "starting", "returned")
          /\ Returns("job", Failure) /\ UNCHANGED row
    /\ UNCHANGED <<table, filter, dataset, runEnabled, jobVars, ref, query, events,
                   viewer, open, missed>>

Outcomes == IF asked THEN {"CANCELLED", "FAILED"} ELSE {"COMPLETED", "FAILED"}

BadUnsaved(outcome) == Returns("job", Returned(outcome))   \* the exception is swallowed

\* The last update of the row raises: so does the service.
Unsaved(outcome) == Returns("job", Failure)

JobEnds ==
    /\ Moved("job", "running", "returned")
    /\ \E outcome \in Outcomes :
          \/ row' = [row EXCEPT ![target] = outcome]
             /\ Returns("job", Returned(outcome))
          \/ UNCHANGED row /\ Unsaved(outcome)
    /\ UNCHANGED <<table, filter, dataset, runEnabled, jobVars, ref, query, events,
                   viewer, open, missed>>

\* JobHistoryWorker.run(), SegyImportWorker.run(), JobLogWorker.run().
Answers(k) ==
    CASE k = "history" -> {Found(query)} \cup (IF HistoryMayFail THEN {Failure} ELSE {})
      [] k = "import"  -> {Success, Failure}
      [] k = "log"     -> {Success}

Answer(k) ==
    /\ k # "job"
    /\ Moved(k, "starting", "returned")
    /\ \E answer \in Answers(k) : Returns(k, answer)
    /\ UNCHANGED <<row, table, filter, dataset, runEnabled, jobVars, ref, query, events,
                   viewer, open, missed>>

Signal(k, what) == [kind |-> k, what |-> what]

\* What an outcome is for the GUI thread: the text of a log has no handler there.
ResultSignal(k) == IF k = "log" THEN <<>> ELSE <<Signal(k, "result")>>

BadTerminalSignals(k) ==   \* failed is not connected to thread.quit
    IF result[k] = Failure THEN ResultSignal(k)
                           ELSE ResultSignal(k) \o <<Signal(k, "quit")>>

BadBothSignals(k) ==       \* no return after failed.emit()
    ResultSignal(k) \o <<Signal(k, "quit")>> \o ResultSignal(k) \o <<Signal(k, "quit")>>

\* Exactly one terminal signal: its handler first, then thread.quit.
TerminalSignals(k) == ResultSignal(k) \o <<Signal(k, "quit")>>

Emit(k) ==
    /\ Moved(k, "returned", "emitted")
    /\ events' = events \o TerminalSignals(k)
    /\ UNCHANGED <<row, table, filter, dataset, runEnabled, jobVars, ref, result, query,
                   viewer, open, missed>>

\* The thread's event loop returns and QThread emits finished.
ThreadEnds(k) ==
    /\ Moved(k, "quitting", "over")
    /\ events' = Append(events, Signal(k, "finished"))
    /\ UNCHANGED <<row, table, filter, dataset, runEnabled, jobVars, ref, result, query,
                   viewer, open, missed>>

\* A viewer's worker ends, its user starts another, or closes the dialog.
ViewerStep ==
    /\ \/ viewer = "busy" /\ viewer' \in {"idle", "busy"}
       \/ viewer = "idle" /\ viewer' \in {"busy", "none"}
    /\ open
    /\ UNCHANGED <<row, table, filter, dataset, runEnabled, jobVars, pairVars, query,
                   events, open, missed>>

-----------------------------------------------------------------------------
(* The handlers of queued signals.                                         *)

IsNext(k, what) == events # <<>> /\ Head(events) = Signal(k, what)
                   /\ events' = Tail(events)

\* Shown only if the table has a row for the job: _update_job_row().
Updated(j, status) ==
    table' = IF table[j] = "NONE" THEN table ELSE [table EXCEPT ![j] = status]

BadReconcile == UNCHANGED <<pairVars, query, missed>>   \* no refresh

Reconcile == RefreshHistory

\* _on_job_completed(), _on_job_cancelled(), _on_job_failed(), _finish_job():
\* a failure carries no Job, so the row is read again.
OnJobResult ==
    /\ IsNext("job", "result")
    /\ Updated(target, IF result["job"] = Failure THEN row[target] ELSE result["job"])
    /\ current' = NoId
    /\ UNCHANGED filter
    /\ Reconcile
    /\ UNCHANGED <<row, dataset, runEnabled, target, resume, asked, viewer, open>>

\* _on_history_loaded(), _on_history_failed().
OnHistoryResult ==
    /\ IsNext("history", "result")
    /\ IF result["history"] = Failure
       THEN missed' = TRUE /\ UNCHANGED table
       ELSE table' = result["history"] /\ UNCHANGED missed
    /\ UNCHANGED <<row, filter, dataset, runEnabled, jobVars, pairVars, query, viewer,
                   open>>

\* _on_dataset_imported(), set_dataset(), _on_dataset_import_failed().
OnImportResult ==
    /\ IsNext("import", "result")
    /\ dataset' = (result["import"] = Success)
    /\ UNCHANGED pairVars
    /\ RefreshControls
    /\ UNCHANGED <<row, table, filter, jobVars, query, viewer, open, missed>>

\* thread.quit.
OnQuit(k) ==
    /\ IsNext(k, "quit")
    /\ Moved(k, "emitted", "quitting")
    /\ UNCHANGED <<row, table, filter, dataset, runEnabled, jobVars, ref, result, query,
                   viewer, open, missed>>

\* _on_thread_finished() and its three siblings: drop the references.
OnFinished(k) ==
    /\ IsNext(k, "finished")
    /\ ref'    = [ref EXCEPT ![k] = FALSE]
    /\ phase'  = [phase EXCEPT ![k] = "none"]
    /\ result' = [result EXCEPT ![k] = Success]
    /\ UNCHANGED dataset
    /\ IF k \in {"job", "import"} THEN RefreshControls ELSE UNCHANGED runEnabled
    /\ IF k = "job" THEN target' = NoId /\ resume' = FALSE /\ asked' = FALSE
                    ELSE UNCHANGED <<target, resume, asked>>
    /\ UNCHANGED <<row, table, filter, current, query, viewer, open, missed>>

HandleEvent ==
    \/ OnJobResult \/ OnHistoryResult \/ OnImportResult
    \/ \E k \in Kinds : OnQuit(k) \/ OnFinished(k)

ThreadStep(k) ==
    \/ k = "job" /\ (JobBegins \/ JobEnds)
    \/ Answer(k) \/ Emit(k) \/ ThreadEnds(k)

UserStep ==
    \/ SelectSegy \/ Cancel \/ Close \/ ViewLog \/ OpenViewer
    \/ \E j \in Ids : Run(j) \/ Resume(j)
    \/ \E f \in StatusFilters : ChangeFilter(f)

Next == UserStep \/ HandleEvent \/ ViewerStep \/ \E k \in Kinds : ThreadStep(k)

Spec == Init /\ [][Next]_vars

\* The GUI thread's event loop and the workers' threads are scheduled by the
\* operating system, and every worker's call returns.  The user does nothing
\* of necessity.
FairSpec == Spec /\ WF_vars(HandleEvent) /\ \A k \in Kinds : WF_vars(ThreadStep(k))
-----------------------------------------------------------------------------
(* Properties.                                                             *)

\* Every variable has its type: the queue holds at most one run of signals
\* for each kind of work.
TypeOK ==
    /\ row    \in [Ids -> Status \cup {"ABSENT"}]
    /\ table  \in [Ids -> Status \cup {"NONE"}]
    /\ filter \in StatusFilters /\ query \in StatusFilters
    /\ dataset \in BOOLEAN /\ runEnabled \in BOOLEAN
    /\ current \in Ids \cup {NoId} /\ target \in Ids \cup {NoId}
    /\ resume \in BOOLEAN /\ asked \in BOOLEAN
    /\ ref \in [Kinds -> BOOLEAN] /\ phase \in [Kinds -> Phases]
    /\ DOMAIN result = Kinds
    /\ events \in Seq([kind : Kinds, what : {"result", "quit", "finished"}])
    /\ Len(events) <= 2 * Cardinality(Kinds)
    /\ viewer \in {"none", "idle", "busy"}
    /\ open \in BOOLEAN /\ missed \in BOOLEAN

\* closeEvent: "Never destroy a running QThread".  No thread of the four pairs
\* is alive once the window has been closed.
CloseNeverKillsThread == ~open => \A k \in Kinds : ~Alive(k)

Unhandled(k) == \/ phase[k] \in {"starting", "running", "returned"}
                \/ Signal(k, "result") \in {events[i] : i \in DOMAIN events}

\* Cancel and closeEvent reach the job that is running and no other: while its
\* outcome has not been shown, and only then, _current_job_id names the
\* worker's job (_start_job_worker, _finish_job).
CancelTargetsTheRunningJob ==
    current = IF Unhandled("job") THEN target ELSE NoId

\* "Never let a new import replace the dataset a currently-running job is
\* using": an import's thread and a job's never exist together, although
\* _on_run_clicked() tests only the dataset and the job's thread.
ImportAndRunExclusive == ~(ref["job"] /\ ref["import"])

Quiet == events = <<>> /\ \A k \in Kinds : ~ref[k]

\* Once all is quiet the table shows what is in SQLite under the selected
\* filter, unless refresh_history() dropped a call or the last query failed.
TableSettled == Quiet /\ ~missed => table = Found(filter)

\* Only a job whose row says COMPLETED is shown as such, and so is viewable
\* (_selected_viewable_job_id): a job whose last update failed never is.
ViewOnlyCompleted == \A j \in Ids : table[j] = "COMPLETED" => row[j] = "COMPLETED"

\* Every worker pair is dropped in the end, so that its buttons come back and
\* the window can be closed: "exactly one terminal signal" per execution.
PairsEnd == \A k \in Kinds : ref[k] ~> ~ref[k]

\* closeEvent's "Never destroy a running QThread", for every thread whose
\* QObject is a descendant of the window: a viewer is a child of the window,
\* and its worker's thread a child of the viewer.
NoThreadOutlivesWindow == ~open => viewer # "busy"
=============================================================================
