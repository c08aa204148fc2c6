----------------------------- MODULE ExecutionLog -----------------------------
(***************************************************************************)
(* infrastructure/logging/job_execution_logger.py: the execution log of    *)
(* one job, call by call.  One thread writes it at a time: the worker, and *)
(* before and after its execution whoever creates or recovers the job.     *)
(*                                                                         *)
(* log() attaches a handler to the job's logger, which is global to the    *)
(* process, lets the logger hand the record to every handler attached,     *)
(* and detaches its own again, under _WRITE_LOCK.  A handler that stays    *)
(* behind would write every later line once more.  Any step may fail; the  *)
(* caller (FilterJobService._log) goes on.                                 *)
(***************************************************************************)
EXTENDS Sequences, Naturals

CONSTANTS
    Events,       \* what is logged
    NoEvent,
    MaxFaults     \* bound: calls that fail

ASSUME EventsAssumption  == NoEvent \notin Events
ASSUME FaultsAssumption  == MaxFaults \in Nat

VARIABLES
    locked,       \* is _WRITE_LOCK held?
    logStep,      \* step of the call to log()
    entry,        \* the event it was called with
    handlers,     \* handlers attached to the logger
    lines,        \* the file
    faults        \* calls that have failed so far

logVars == <<locked, logStep, entry, handlers, lines, faults>>

LogInit ==
    /\ locked = FALSE /\ logStep = "idle" /\ entry = NoEvent
    /\ handlers = 0 /\ lines = <<>> /\ faults = 0

Logging == logStep # "idle"

\* log() is called.
BeginLog(event) ==
    /\ logStep = "idle" /\ logStep' = "mkdir" /\ entry' = event
    /\ UNCHANGED <<locked, handlers, lines, faults>>

\* log() returns, or _log() swallows what it raised.
EndLog == logStep' = "idle" /\ entry' = NoEvent

\* The directory, and with _WRITE_LOCK:
Enter ==
    /\ logStep = "mkdir" /\ logStep' = "attach"
    /\ ~locked /\ locked' = TRUE
    /\ UNCHANGED <<entry, handlers, lines, faults>>

\* logger.addHandler() of a handler that has just been opened.
Attach ==
    /\ logStep = "attach" /\ logStep' = "emit"
    /\ handlers' = handlers + 1
    /\ UNCHANGED <<locked, entry, lines, faults>>

Copies == [h \in 1 .. handlers |-> entry]

\* logger.log(): one line per handler attached.
WriteLine ==
    /\ logStep = "emit" /\ logStep' = "detach"
    /\ lines' = lines \o Copies
    /\ UNCHANGED <<locked, entry, handlers, faults>>

\* finally: removeHandler(), close().
Detach ==
    /\ logStep = "detach" /\ logStep' = "leave"
    /\ handlers' = handlers - 1
    /\ UNCHANGED <<locked, entry, lines, faults>>

\* The end of the with block.
Leave ==
    /\ logStep = "leave" /\ EndLog
    /\ locked' = FALSE
    /\ UNCHANGED <<handlers, lines, faults>>

BadUndone == EndLog                                 \* the lock is not left
BadKept   == logStep' = "leave" /\ UNCHANGED entry  \* no finally: the handler stays

\* What a step that fails unwinds: nothing before the lock is taken, the lock
\* without a handler, and the handler whatever happened to the record.
Undone ==
    \/ logStep = "mkdir"  /\ EndLog
    \/ logStep = "attach" /\ logStep' = "leave"  /\ UNCHANGED entry
    \/ logStep = "emit"   /\ logStep' = "detach" /\ UNCHANGED entry

\* The directory cannot be made, the file cannot be opened, or the record cannot
\* be written.
LogFails ==
    /\ logStep \in {"mkdir", "attach", "emit"}
    /\ faults < MaxFaults /\ faults' = faults + 1
    /\ Undone
    /\ UNCHANGED <<locked, handlers, lines>>

LogStep == Enter \/ Attach \/ WriteLine \/ Detach \/ Leave \/ LogFails

-----------------------------------------------------------------------------
(* Types.                                                                  *)

LogTypeOK ==
    /\ locked \in BOOLEAN
    /\ logStep \in {"idle", "mkdir", "attach", "emit", "detach", "leave"}
    /\ entry \in Events \cup {NoEvent}
    /\ handlers \in Nat
    /\ lines \in Seq(Events) /\ faults \in 0 .. MaxFaults
=============================================================================
