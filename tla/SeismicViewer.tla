---------------------------- MODULE SeismicViewer ----------------------------
(***************************************************************************)
(* ui/seismic_viewer.py: the SeismicViewer dialog, with the workers of     *)
(* ui/viewer_workers.py.                                                   *)
(*                                                                         *)
(* A viewer has one worker at a time: the index build (module              *)
(* GeometryIndex), the load of a section, or the spectrum of a region of   *)
(* the section shown.  What the user asks meanwhile is refused by disabled *)
(* controls, or kept for when the worker's thread has finished.  Handlers  *)
(* run on the GUI thread, in the order the signals were emitted.           *)
(*                                                                         *)
(* Module ViewerScreen adds what is drawn.  Clicks fall on the axis of the *)
(* section.  Which lines the index has is any set at each lookup: another  *)
(* viewer's build may be deleting it, or have filled it in part (modules   *)
(* GeometryIndex, SectionLoad).                                            *)
(***************************************************************************)
EXTENDS Sequences, Naturals

CONSTANTS
    Lines,          \* line numbers, of either orientation
    Positions,      \* coordinates on a section's axis
    Gaps,           \* those of them that have no physical trace
    MaxLoads,       \* bound: sections requested
    MaxRegions      \* bound: regions analysed

ASSUME LinesAssumption     == Lines # {} /\ Lines \subseteq Nat
ASSUME PositionsAssumption == Positions \subseteq Nat \ {0} /\ Gaps \subseteq Positions
ASSUME BoundsAssumption    == MaxLoads \in Nat \ {0} /\ MaxRegions \in Nat

VARIABLES
    orientation,    \* the orientation combo box
    lines,          \* _line_numbers, {} for an empty list
    spin,           \* the line spin box
    nav,            \* are the navigation controls enabled?
    section,        \* the section shown
    failed,         \* does the status label say that the last load failed?
    start,          \* _region_start, 0 for None
    region,         \* _region
    regional,       \* the region that _regional is the spectrum of
    loads,          \* _section_request_id
    pendingSection, \* _pending_section_request, 0 for None
    regions,        \* _region_request_id
    pendingRegion,  \* _pending_region_request, 0 for None
    pendingLine,    \* is _pending_line the first line?
    pendingClick,   \* _pending_click, 0 for None
    worker,         \* the worker, with what it was given
    phase,          \* what its thread is doing
    answer,         \* did its call return (or raise)?
    events,         \* the GUI thread's queue
    open,           \* has the dialog not been closed?
    aborted         \* has the assertion of _start_worker() failed?

viewVars   == <<orientation, lines, spin, section, failed>>
regionVars == <<start, region, regional, pendingRegion, pendingClick>>
idVars     == <<loads, pendingSection, regions>>
workVars   == <<worker, phase, nav, aborted>>
vars == <<viewVars, regionVars, idVars, pendingLine, workVars, answer, events, open>>

Orientations == {"inline", "crossline"}
NoLine    == 0
NoSection == [orientation |-> "none", line |-> NoLine, load |-> 0]
NoRegion  == [of |-> NoSection, lo |-> 0, hi |-> 0]
NoWorker  == [kind |-> "none", request |-> 0, section |-> NoSection, region |-> NoRegion]
Idle(w)   == w = NoWorker

First(found) == CHOOSE l \in found : \A k \in found : l <= k

Worker(kind, request, s, r) ==
    [kind |-> kind, request |-> request, section |-> s, region |-> r]

Init ==
    /\ orientation = "inline"
    /\ lines = {} /\ spin = NoLine /\ nav = FALSE
    /\ section = NoSection /\ failed = FALSE
    /\ start = 0 /\ region = NoRegion /\ regional = NoRegion
    /\ loads = 0 /\ regions = 0
    /\ pendingSection = 0 /\ pendingRegion = 0 /\ pendingClick = 0
    /\ pendingLine = FALSE
    /\ worker = Worker("index", 0, NoSection, NoRegion)
    /\ phase = "starting" /\ answer = "none"
    /\ events = <<>>
    /\ open = TRUE /\ aborted = FALSE

-----------------------------------------------------------------------------
(* Building blocks.                                                        *)

BadNavigation == nav   \* the controls stay as they are

Navigation == FALSE

\* _start_worker(), where now is the worker in flight as the caller left it.
StartWorker(w, now) ==
    IF Idle(now)
    THEN worker' = w /\ phase' = "starting" /\ nav' = Navigation /\ UNCHANGED aborted
    ELSE aborted' = TRUE /\ UNCHANGED <<worker, phase, nav>>

Cleared(r) == NoRegion

\* _clear_region().
ClearRegion ==
    /\ region' = Cleared(region) /\ regional' = NoRegion
    /\ start' = 0 /\ pendingRegion' = 0 /\ pendingClick' = 0

\* _request_line().
RequestLine(l, o, now) ==
    /\ loads' = loads + 1 /\ pendingSection' = loads + 1
    /\ ClearRegion
    /\ failed' = FALSE
    /\ LET asked == [orientation |-> o, line |-> l, load |-> loads + 1] IN
       StartWorker(Worker("section", loads + 1, asked, NoRegion), now)
    /\ UNCHANGED regions

BadBetween(a, b) == [of |-> section, lo |-> a, hi |-> b]

\* SectionRegion.from_boundaries(): either click order.
Between(a, b) == IF a <= b THEN [of |-> section, lo |-> a, hi |-> b]
                           ELSE [of |-> section, lo |-> b, hi |-> a]

\* ResolvedRegion.is_valid: some trace exists between the bounds.
IsValid(r) == \E p \in Positions \ Gaps : r.lo <= p /\ p <= r.hi

BadForgotten(r) == r

Forgotten(r) == NoRegion

\* select_coordinate() past its guards: the first click analyses one trace and
\* is a boundary, the second completes the region.  Without a valid region no
\* worker starts, and the controls are as navIdle says.
Analyse(p, now, navIdle) ==
    LET r == IF start = 0 THEN Between(p, p) ELSE Between(start, p) IN
    /\ start' = IF start = 0 THEN p ELSE 0
    /\ region' = r
    /\ regional' = Forgotten(regional)
    /\ IF IsValid(r)
       THEN /\ regions' = regions + 1 /\ pendingRegion' = regions + 1
            /\ StartWorker(Worker("region", regions + 1, section, r), now)
       ELSE /\ worker' = now /\ nav' = navIdle
            /\ phase' = IF Idle(now) THEN "none" ELSE phase
            /\ UNCHANGED <<regions, pendingRegion, aborted>>

-----------------------------------------------------------------------------
(* What the user does.                                                     *)

BadThreadFree == TRUE

ThreadFree == Idle(worker)

\* _step_line(), _on_line_spinbox_changed(): any line by the arrows or the spin
\* box, snapped to one that was found; without lines just a number.
ChooseLine(l) ==
    /\ open /\ ~aborted /\ nav
    /\ loads < MaxLoads
    /\ lines # {} => l \in lines
    /\ spin' = l
    /\ IF lines # {} /\ ThreadFree
       THEN RequestLine(l, orientation, worker) /\ UNCHANGED <<orientation, lines, section>>
       ELSE UNCHANGED <<orientation, lines, section, failed, regionVars, idVars, workVars>>
    /\ UNCHANGED <<pendingLine, answer, events, open>>

\* _on_orientation_changed(), _on_geometry_indexed(), _on_thread_finished().  If
\* no line is found the label says so, and the old section and the enabled
\* controls stay.
ChangeOrientation(o) ==
    /\ open /\ ~aborted /\ nav
    /\ o # orientation /\ loads < MaxLoads
    /\ orientation' = o
    /\ \/ /\ ThreadFree
          /\ \E found \in SUBSET Lines :
               /\ lines' = found
               /\ IF found = {}
                  THEN failed' = FALSE /\ UNCHANGED <<spin, regionVars, idVars, workVars>>
                  ELSE spin' = First(found) /\ RequestLine(First(found), o, worker)
       \/ ~ThreadFree /\ UNCHANGED <<lines, spin, failed, regionVars, idVars, workVars>>
    /\ UNCHANGED <<section, pendingLine, answer, events, open>>

\* select_coordinate() on a click.
Click(p) ==
    /\ open /\ ~aborted /\ section # NoSection
    /\ regions < MaxRegions
    /\ \/ /\ ThreadFree
          /\ Analyse(p, worker, nav)
          /\ UNCHANGED pendingClick
       \/ /\ ~ThreadFree /\ worker.kind = "region"
          /\ pendingClick' = p
          /\ UNCHANGED <<start, region, regional, pendingRegion, regions, workVars>>
    /\ UNCHANGED <<viewVars, loads, pendingSection, pendingLine, answer, events, open>>

\* closeEvent(), accepted.
Close ==
    /\ open /\ ~aborted /\ ThreadFree
    /\ open' = FALSE
    /\ UNCHANGED <<viewVars, regionVars, idVars, pendingLine, workVars, answer, events>>

-----------------------------------------------------------------------------
(* The worker's thread.                                                    *)

Signal(what) == [kind |-> worker.kind, what |-> what]

\* run(): the call returns or raises, and one terminal signal follows.
WorkerRuns ==
    /\ phase = "starting"
    /\ answer' \in {"done", "raised"}
    /\ phase' = "emitted"
    /\ events' = events \o <<Signal("result"), Signal("quit")>>
    /\ UNCHANGED <<viewVars, regionVars, idVars, pendingLine, worker, nav, aborted, open>>

ThreadEnds ==
    /\ phase = "quitting"
    /\ phase' = "over"
    /\ events' = Append(events, Signal("finished"))
    /\ UNCHANGED <<viewVars, regionVars, idVars, pendingLine, worker, nav, aborted, answer,
                   open>>

-----------------------------------------------------------------------------
(* The handlers of queued signals.                                         *)

IsNext(kind, what) ==
    /\ ~aborted /\ events # <<>>
    /\ Head(events) = [kind |-> kind, what |-> what]
    /\ events' = Tail(events)

\* _on_geometry_indexed(), with the thread still winding down: a line is kept for
\* its end, if there is any.
OnIndexed ==
    /\ IsNext("index", "result") /\ answer = "done"
    /\ lines' \in SUBSET Lines
    /\ IF lines' = {} THEN UNCHANGED <<spin, pendingLine>>
                      ELSE spin' = First(lines') /\ pendingLine' = TRUE
    /\ UNCHANGED <<orientation, section, failed, regionVars, idVars, workVars, answer, open>>

\* _on_load_failed(): the section shown stays.
OnLoadFailed ==
    /\ IsNext("index", "result") \/ IsNext("section", "result")
    /\ answer = "raised"
    /\ pendingSection' = 0
    /\ ClearRegion
    /\ failed' = TRUE
    /\ UNCHANGED <<orientation, lines, spin, section, loads, regions, pendingLine, workVars,
                   answer, open>>

\* _accept_section_result(), _on_section_loaded().
OnSection ==
    /\ IsNext("section", "result") /\ answer = "done"
    /\ IF worker.request = pendingSection
       THEN section' = worker.section /\ pendingSection' = 0 /\ ClearRegion
       ELSE UNCHANGED <<section, pendingSection, regionVars>>
    /\ UNCHANGED <<orientation, lines, spin, failed, loads, regions, pendingLine, workVars,
                   answer, open>>

\* _accept_regional_result().
OnRegional ==
    /\ IsNext("region", "result") /\ answer = "done"
    /\ IF worker.request = pendingRegion /\ region # NoRegion
       THEN regional' = worker.region /\ pendingRegion' = 0
       ELSE UNCHANGED <<regional, pendingRegion>>
    /\ UNCHANGED <<viewVars, start, region, pendingClick, idVars, pendingLine, workVars,
                   answer, open>>

BadDropSpectrum == ClearRegion   \* as after a load

DropSpectrum == /\ regional' = NoRegion /\ pendingRegion' = 0
                /\ UNCHANGED <<start, region, pendingClick>>

\* _on_regional_failed().
OnRegionalFailed ==
    /\ IsNext("region", "result") /\ answer = "raised"
    /\ IF worker.request = pendingRegion THEN DropSpectrum ELSE UNCHANGED regionVars
    /\ UNCHANGED <<viewVars, idVars, pendingLine, workVars, answer, open>>

OnQuit ==
    /\ IsNext(worker.kind, "quit")
    /\ phase = "emitted" /\ phase' = "quitting"
    /\ UNCHANGED <<viewVars, regionVars, idVars, pendingLine, worker, nav, aborted, answer,
                   open>>

BadRestored == IF pendingClick # 0 THEN nav ELSE lines # {}   \* the click comes first

\* The controls, once no line is kept.
Restored == lines # {}

\* _on_thread_finished(): what was kept is done now, a line before a click.
OnFinished ==
    /\ IsNext(worker.kind, "finished")
    /\ answer' = "none" /\ pendingLine' = FALSE
    /\ \/ /\ pendingLine
          /\ RequestLine(First(lines), orientation, NoWorker)
          /\ UNCHANGED <<orientation, lines, spin, section>>
       \/ /\ ~pendingLine /\ pendingClick # 0
          /\ pendingClick' = 0
          /\ Analyse(pendingClick, NoWorker, Restored)
          /\ UNCHANGED <<viewVars, loads, pendingSection>>
       \/ /\ ~pendingLine /\ pendingClick = 0
          /\ worker' = NoWorker /\ phase' = "none"
          /\ nav' = Restored
          /\ UNCHANGED <<viewVars, regionVars, idVars, aborted>>
    /\ UNCHANGED open

UserStep == \/ \E l \in Lines : ChooseLine(l)
            \/ \E o \in Orientations : ChangeOrientation(o)
            \/ \E p \in Positions : Click(p)
            \/ Close

HandleEvent == \/ OnIndexed \/ OnLoadFailed \/ OnSection \/ OnRegional \/ OnRegionalFailed
               \/ OnQuit \/ OnFinished

Next == UserStep \/ WorkerRuns \/ ThreadEnds \/ HandleEvent

Spec == Init /\ [][Next]_vars

-----------------------------------------------------------------------------
(* Properties.                                                             *)

Sections == {NoSection} \cup
    [orientation : Orientations, line : Lines, load : 1 .. MaxLoads]
IsRegion(r) == r = NoRegion \/ /\ r.of \in Sections \ {NoSection}
                               /\ {r.lo, r.hi} \subseteq Positions /\ r.lo <= r.hi

\* Every variable has its type; a region's bounds are in order.
TypeOK ==
    /\ orientation \in Orientations /\ lines \subseteq Lines
    /\ spin \in Lines \cup {NoLine} /\ section \in Sections
    /\ IsRegion(region) /\ IsRegion(regional) /\ IsRegion(worker.region)
    /\ {start, pendingClick} \subseteq Positions \cup {0}
    /\ loads \in 0 .. MaxLoads /\ pendingSection \in 0 .. MaxLoads
    /\ regions \in 0 .. MaxRegions /\ pendingRegion \in 0 .. MaxRegions
    /\ worker.kind \in {"none", "index", "section", "region"}
    /\ phase \in {"none", "starting", "emitted", "quitting", "over"}
    /\ answer \in {"none", "done", "raised"}
    /\ {nav, failed, pendingLine, open, aborted} \subseteq BOOLEAN
    /\ Len(events) <= 2

\* "assert self._thread is None" in _start_worker() never fails, though the
\* finished handler starts what was kept while clicks keep coming: "never two
\* workers at once".
NeverAborts == ~aborted

\* The spectrum shown is that of the region drawn, never of an earlier one ("a
\* result for a region/section that is no longer current is dropped"), and the
\* region and its first boundary belong to the section shown.
ShownBelongsTogether ==
    /\ regional # NoRegion => regional = region
    /\ region # NoRegion => region.of = section
    /\ start # 0 => start \in {region.lo, region.hi}

\* When nothing is in flight, the last load did not fail and the last lookup
\* found lines, the section shown is the one the controls name: no choice of a
\* line or an orientation was dropped while a worker ran.  After a lookup that
\* found none the old section stays under a label that says "No geometry found
\* for this dataset" (lines 349-351), and the controls name another.
ControlsNameTheSection ==
    ThreadFree /\ section # NoSection /\ ~failed /\ lines # {}
        => section.orientation = orientation /\ section.line = spin

\* A click kept while a spectrum is computed is not lost when that ends, well
\* or not: it becomes a boundary of the region, unless a later click replaced it.
KeptClickIsApplied ==
    [][pendingClick # 0 /\ pendingClick' = 0
          => pendingClick \in {region'.lo, region'.hi}]_vars
=============================================================================
