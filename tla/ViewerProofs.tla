----------------------------- MODULE ViewerProofs -----------------------------
(***************************************************************************)
(* Proofs about the viewer, with its drawing, for all lines, positions,    *)
(* gaps, colormaps and bounds.                                             *)
(*                                                                         *)
(* What is drawn does not influence the dialog: every step of ViewerScreen *)
(* is one of SeismicViewer, or leaves the dialog alone (DialogIsKept).     *)
(* DInv is the dialog's inductive invariant and SInv that of the screen;   *)
(* DTypes and STypes are added for the types, from which it follows that a *)
(* spectrum is of each trace of its region, once.                          *)
(***************************************************************************)
EXTENDS ViewerScreen, FiniteSetTheorems, WellFoundedInduction, TLAPS

-----------------------------------------------------------------------------
(* The inductive invariant of the dialog.                                  *)

\* Controls that are read by the other parts.
Control ==
    /\ orientation \in Orientations
    /\ loads \in Nat /\ regions \in Nat

\* The slot is empty exactly if no thread is at work, and no navigation is
\* possible meanwhile.
Slot ==
    /\ ~aborted
    /\ worker.kind \in {"none", "index", "section", "region"}
    /\ worker.kind = "none" <=> Idle(worker)
    /\ phase \in {"none", "starting", "emitted", "quitting", "over"}
    /\ phase = "none" <=> Idle(worker)
    /\ ~Idle(worker) => ~nav

\* The queue holds what the thread has emitted and nothing of earlier workers.
Queue ==
    /\ phase \in {"none", "starting", "quitting"} => events = <<>>
    /\ phase = "emitted" =>
         \/ events = <<Signal("result"), Signal("quit")>>
         \/ events = <<Signal("quit")>>
    /\ phase = "over" => events = <<Signal("finished")>>

\* The outcome of the worker has not been handled yet.
Unhandled ==
    phase = "starting" \/ (phase = "emitted" /\ Len(events) = 2)

\* What is awaited or kept belongs to the worker in the slot.
Awaited ==
    /\ pendingRegion # 0 =>
         /\ worker.kind = "region" /\ Unhandled
         /\ worker.request = pendingRegion /\ worker.region = region /\ region # NoRegion
    /\ worker.kind = "region" => worker.request # 0
    /\ pendingClick # 0 => pendingClick \in Positions /\ worker.kind = "region"
    /\ pendingLine => /\ worker.kind = "index" /\ ~Unhandled
                      /\ lines # {} /\ spin = First(lines)

\* The controls name the section s.
Named(s) == s.orientation = orientation /\ s.line = spin

\* A load is of the section that the controls name, and is shown or has failed
\* once it is handled.  After a lookup without lines the controls name any.
Loading ==
    /\ worker.kind = "index" => section = NoSection
    /\ worker.kind = "section" =>
         /\ Named(worker.section)
         /\ IF Unhandled THEN worker.request = pendingSection
                         ELSE section = worker.section \/ failed
    /\ worker.kind \in {"none", "region"} =>
         section = NoSection \/ failed \/ lines = {} \/ Named(section)

DInv == Control /\ Slot /\ Queue /\ Awaited /\ Loading /\ ShownBelongsTogether
-----------------------------------------------------------------------------
(* The inductive invariant of the screen.                                  *)

\* c has the fields of a canvas, w those of a window: they are replaced one by one.
IsCanvas(c) == c = [section |-> c.section, mode |-> c.mode, wiggle |-> c.wiggle,
                    colormap |-> c.colormap, bounds |-> c.bounds]
IsWindow(w) ==
    /\ w = [open |-> w.open, regional |-> w.regional, renderer |-> w.renderer,
            look |-> w.look, plot |-> w.plot]
    /\ w.look \in Looks

ScreenFields ==
    /\ IsCanvas(canvas) /\ IsWindow(window)
    /\ settings \in [mode : Modes, wiggle : BOOLEAN, colormap : Colormaps]
    /\ look \in Looks

\* The part of ScreenShowsState that is about the section renderer.
CanvasShows ==
    open =>
      /\ canvas.section = section
      /\ section # NoSection =>
           /\ canvas.mode = settings.mode /\ canvas.wiggle = settings.wiggle
           /\ ~settings.wiggle => canvas.colormap = settings.colormap
      /\ canvas.bounds = IF region = NoRegion THEN NoBounds ELSE <<region.lo, region.hi>>

\* Panel and window have been handed the spectrum of now.
HandedOver ==
    /\ open => display = Displayed(regional, look)
    /\ window.open => window.regional = regional

SInv == ScreenFields /\ HandedOver /\ ScreenShowsState /\ WindowFollowsRegion

-----------------------------------------------------------------------------
(* Facts about the building blocks.                                        *)

LEMMA QueueFacts ==
    ASSUME NEW a, NEW b
    PROVE  /\ <<>> \o <<a, b>> = <<a, b>> /\ Append(<<>>, a) = <<a>>
           /\ Head(<<a, b>>) = a /\ Tail(<<a, b>>) = <<b>> /\ Len(<<a, b>>) = 2
           /\ Head(<<a>>) = a /\ Tail(<<a>>) = <<>> /\ Len(<<a>>) = 1
           /\ <<a, b>> # <<>> /\ <<a>> # <<>> /\ Len(<<>>) = 0
OBVIOUS

\* A worker is started in an empty slot: the assertion holds.
LEMMA FreeSlot ==
    ASSUME NEW w, NEW now, Idle(now), StartWorker(w, now)
    PROVE  worker' = w /\ phase' = "starting" /\ nav' = FALSE /\ UNCHANGED aborted
BY DEF StartWorker, Navigation, Idle

LEMMA Workers ==
    ASSUME NEW k, NEW q, NEW s, NEW r
    PROVE  /\ Worker(k, q, s, r).kind = k /\ Worker(k, q, s, r).request = q
           /\ Worker(k, q, s, r).section = s /\ Worker(k, q, s, r).region = r
           /\ k # "none" => Worker(k, q, s, r) # NoWorker
           /\ NoWorker.kind = "none"
BY DEF Worker, NoWorker

\* A region has the two boundaries, in either click order.
LEMMA Boundaries ==
    ASSUME NEW a, NEW b
    PROVE  /\ Between(a, b).of = section
           /\ b \in {Between(a, b).lo, Between(a, b).hi}
           /\ Between(a, a).lo = a /\ Between(a, a).hi = a
BY DEF Between

\* What the signal at the head of the queue says of the worker.
LEMMA Heads ==
    ASSUME DInv, NEW kind, NEW what, IsNext(kind, what)
    PROVE  /\ worker.kind = kind /\ ~Idle(worker)
           /\ what = "result" => /\ phase = "emitted" /\ Unhandled
                                 /\ events' = <<Signal("quit")>>
           /\ what = "quit" => phase = "emitted" /\ events' = <<>> /\ ~Unhandled
           /\ what = "finished" => phase = "over" /\ events' = <<>> /\ ~Unhandled
<1> USE DEF DInv, Queue, Slot, IsNext, Signal, Unhandled
<1>1. CASE phase = "emitted" /\ events = <<Signal("result"), Signal("quit")>>
  BY <1>1, QueueFacts
<1>2. CASE phase = "emitted" /\ events = <<Signal("quit")>>
  BY <1>2, QueueFacts
<1>3. CASE phase = "over"
  <2>1. events = <<[kind |-> worker.kind, what |-> "finished"]>> /\ ~Idle(worker)
    BY <1>3
  <2>2. Head(events) = [kind |-> worker.kind, what |-> "finished"] /\ Tail(events) = <<>>
    BY <2>1, QueueFacts
  <2>3. worker.kind = kind /\ what = "finished" /\ events' = <<>>
    BY <2>2
  <2> QED BY <1>3, <2>1, <2>3
<1> QED BY <1>1, <1>2, <1>3

\* A line is requested with the slot empty, and the controls name it.
LEMMA Requests ==
    ASSUME DInv, NEW l, NEW o \in Orientations, NEW now, Idle(now),
           RequestLine(l, o, now), events' = <<>>,
           orientation' = o, spin' = l, UNCHANGED section, pendingLine' = FALSE
    PROVE  DInv'
<1> DEFINE asked == [orientation |-> o, line |-> l, load |-> loads + 1]
<1>1. /\ worker' = Worker("section", loads + 1, asked, NoRegion)
      /\ phase' = "starting" /\ nav' = FALSE /\ UNCHANGED aborted
  BY FreeSlot DEF RequestLine
<1>2. /\ worker'.kind = "section" /\ worker'.request = loads + 1 /\ worker'.section = asked
      /\ worker' # NoWorker
  BY <1>1, Workers
<1>3. /\ loads' = loads + 1 /\ pendingSection' = loads + 1 /\ regions' = regions
      /\ region' = NoRegion /\ regional' = NoRegion /\ start' = 0
      /\ pendingRegion' = 0 /\ pendingClick' = 0
  BY DEF RequestLine, ClearRegion, Cleared
<1>4. Control'
  BY <1>1, <1>3 DEF DInv, Control
<1>9. Queue'
  BY <1>1 DEF Queue
<1>8. Slot'
  BY <1>1, <1>2 DEF DInv, Slot, Idle
<1>5. Awaited'
  BY <1>2, <1>3 DEF Awaited
<1>6. Loading'
  BY <1>1, <1>2, <1>3 DEF Loading, Named, Unhandled
<1>7. ShownBelongsTogether'
  BY <1>3 DEF ShownBelongsTogether
<1> QED BY <1>4, <1>5, <1>6, <1>7, <1>8, <1>9 DEF DInv

\* A boundary is analysed with the slot empty.
LEMMA Analyses ==
    ASSUME DInv, NEW p \in Positions, NEW now, Idle(now), NEW n,
           Analyse(p, now, n), events' = <<>>,
           ~Unhandled, worker.kind \in {"none", "region"},
           UNCHANGED <<orientation, lines, spin, section, failed, loads>>,
           pendingClick' = 0, pendingLine' = FALSE
    PROVE  DInv' /\ p \in {region'.lo, region'.hi}
<1> DEFINE r == IF start = 0 THEN Between(p, p) ELSE Between(start, p)
<1>1. pendingRegion = 0
  BY DEF DInv, Awaited
<1>2. r.of = section /\ p \in {r.lo, r.hi} /\ (start = 0 => r.lo = p /\ r.hi = p)
  <2>1. CASE start = 0
    <3>1. r = Between(p, p)
      BY <2>1
    <3> QED BY <3>1, Boundaries
  <2>2. CASE start # 0
    <3>1. r = Between(start, p)
      BY <2>2
    <3> QED BY <2>2, <3>1, Boundaries
  <2> QED BY <2>1, <2>2
<1> HIDE DEF r
<1>4. /\ region' = r /\ regional' = NoRegion
      /\ start' = IF start = 0 THEN p ELSE 0
  BY DEF Analyse, Forgotten, r
<1>5. ShownBelongsTogether'
  BY <1>2, <1>4 DEF ShownBelongsTogether
<1>6. CASE IsValid(r)
  <2> DEFINE w == Worker("region", regions + 1, section, r)
  <2>0. StartWorker(w, now) /\ regions' = regions + 1 /\ pendingRegion' = regions + 1
    BY <1>6 DEF Analyse, r
  <2>1. /\ worker' = w /\ phase' = "starting" /\ nav' = FALSE /\ UNCHANGED aborted
        /\ regions' = regions + 1 /\ pendingRegion' = regions + 1
    BY <2>0, FreeSlot
  <2>2. /\ worker'.kind = "region" /\ worker'.request = regions + 1 /\ worker'.region = r
        /\ worker' # NoWorker
    BY <2>1, Workers
  <2> HIDE DEF w
  <2>3. Control'
    BY <2>1 DEF DInv, Control
  <2>4. Slot'
    BY <2>1, <2>2 DEF DInv, Slot, Idle
  <2>5. Queue'
    BY <2>1 DEF Queue
  <2>8. r # NoRegion
    BY <1>6, PositionsAssumption DEF IsValid, NoRegion
  <2>9. regions + 1 # 0
    BY DEF DInv, Control
  <2>6. Awaited'
    BY <1>4, <2>1, <2>2, <2>8, <2>9 DEF Awaited, Unhandled
  <2>7. Loading'
    BY <2>2 DEF DInv, Loading, Named
  <2> QED BY <1>2, <1>4, <1>5, <2>3, <2>4, <2>5, <2>6, <2>7 DEF DInv
<1>7. CASE ~IsValid(r)
  <2>1. /\ worker' = NoWorker /\ phase' = "none" /\ nav' = n
        /\ UNCHANGED <<regions, pendingRegion, aborted>>
    BY <1>7 DEF Analyse, r, Idle
  <2>2. worker'.kind = "none"
    BY <2>1 DEF NoWorker
  <2>3. Control'
    BY <2>1 DEF DInv, Control
  <2>4. Slot'
    BY <2>1, <2>2 DEF DInv, Slot, Idle
  <2>5. Queue'
    BY <2>1 DEF Queue
  <2>6. Awaited'
    BY <1>1, <2>1, <2>2 DEF Awaited
  <2>7. Loading'
    BY <2>2 DEF DInv, Loading, Named
  <2> QED BY <1>2, <1>4, <1>5, <2>3, <2>4, <2>5, <2>6, <2>7 DEF DInv
<1> QED BY <1>6, <1>7

-----------------------------------------------------------------------------
(* The dialog: DInv is inductive.                                          *)

LEMMA DInitially == ASSUME Init PROVE DInv
<1>1. worker.kind = "index" /\ worker # NoWorker
  BY Workers DEF Init
<1>2. Control /\ Slot /\ Queue
  BY <1>1 DEF Init, Control, Slot, Queue, Orientations, Idle
<1>3. Awaited /\ Loading /\ ShownBelongsTogether
  BY <1>1 DEF Init, Awaited, Loading, ShownBelongsTogether
<1> QED BY <1>2, <1>3 DEF DInv

\* What only looks on.
LEMMA DStutters == ASSUME DInv, UNCHANGED vars PROVE DInv'
BY DEF DInv, Control, Slot, Queue, Awaited, Loading, ShownBelongsTogether, Unhandled, Named,
       Signal, Idle, vars, viewVars, regionVars, idVars, workVars

\* Without a worker nothing is awaited or kept.
LEMMA FreeFacts ==
    ASSUME DInv, ThreadFree
    PROVE  /\ worker.kind = "none" /\ phase = "none" /\ events = <<>> /\ ~Unhandled
           /\ pendingRegion = 0 /\ pendingClick = 0 /\ pendingLine = FALSE
BY DEF DInv, Slot, Queue, Awaited, Unhandled, ThreadFree

LEMMA UserKeeps == ASSUME DInv, UserStep PROVE DInv'
<1>1. ASSUME NEW l \in Lines, ChooseLine(l) PROVE DInv'
  <2>1. ThreadFree
    BY <1>1 DEF ChooseLine, DInv, Slot, ThreadFree
  <2>2. CASE lines # {}
    BY <1>1, <2>1, <2>2, FreeFacts, Requests DEF ChooseLine, ThreadFree, DInv, Control
  <2>3. CASE lines = {}
    <3>1. UNCHANGED <<orientation, lines, section, failed, regionVars, idVars, workVars,
                      pendingLine, events>>
      BY <1>1, <2>3 DEF ChooseLine
    <3>2. pendingLine = FALSE /\ worker.kind = "none"
      BY <2>1, FreeFacts
    <3> QED
      BY <2>3, <3>1, <3>2 DEF DInv, Control, Slot, Queue, Awaited, Loading,
         ShownBelongsTogether, Unhandled, Signal, Idle, regionVars, idVars, workVars
  <2> QED BY <2>2, <2>3
<1>2. ASSUME NEW o \in Orientations, ChangeOrientation(o) PROVE DInv'
  <2>1. ThreadFree
    BY <1>2 DEF ChangeOrientation, DInv, Slot, ThreadFree
  <2>2. PICK found \in SUBSET Lines :
           /\ lines' = found
           /\ IF found = {}
              THEN failed' = FALSE /\ UNCHANGED <<spin, regionVars, idVars, workVars>>
              ELSE spin' = First(found) /\ RequestLine(First(found), o, worker)
    BY <1>2, <2>1 DEF ChangeOrientation
  <2>3. /\ orientation' = o /\ UNCHANGED <<section, pendingLine, events>>
        /\ pendingLine = FALSE /\ worker.kind = "none" /\ events = <<>>
    BY <1>2, <2>1, FreeFacts DEF ChangeOrientation
  <2>4. CASE found # {}
    <3>1. spin' = First(found) /\ RequestLine(First(found), o, worker)
      BY <2>2, <2>4
    <3> QED BY <2>1, <2>3, <3>1, Requests DEF ThreadFree
  <2>5. CASE found = {}
    <3>1. lines' = {} /\ failed' = FALSE /\ UNCHANGED <<spin, regionVars, idVars, workVars>>
      BY <2>2, <2>5
    <3> QED
      BY <2>3, <3>1 DEF DInv, Control, Slot, Queue, Awaited, Loading, ShownBelongsTogether,
         Unhandled, Signal, Idle, regionVars, idVars, workVars
  <2> QED BY <2>4, <2>5
<1>3. ASSUME NEW p \in Positions, Click(p) PROVE DInv'
  <2>1. CASE ThreadFree
    <3>1. Analyse(p, worker, nav) /\ UNCHANGED <<orientation, lines, spin, section, failed,
                                                 loads, pendingClick, pendingLine, events>>
      BY <1>3, <2>1 DEF Click, viewVars
    <3> QED BY <2>1, <3>1, FreeFacts, Analyses DEF ThreadFree
  <2>2. CASE ~ThreadFree
    <3>1. /\ worker.kind = "region" /\ pendingClick' = p
          /\ UNCHANGED <<start, region, regional, pendingRegion, regions, workVars, viewVars,
                         loads, pendingSection, pendingLine, answer, events, open>>
      BY <1>3, <2>2 DEF Click
    <3> QED
      BY <3>1 DEF DInv, Control, Slot, Queue, Awaited, Loading, ShownBelongsTogether, Named,
                  Unhandled, Signal, Idle, viewVars, workVars
  <2> QED BY <2>1, <2>2
<1>4. CASE Close
  BY <1>4 DEF Close, DInv, Control, Slot, Queue, Awaited, Loading, ShownBelongsTogether, Named,
              Unhandled, Signal, Idle, viewVars, regionVars, idVars, workVars
<1> QED BY <1>1, <1>2, <1>3, <1>4 DEF UserStep

LEMMA WorkerKeeps == ASSUME DInv, WorkerRuns \/ ThreadEnds PROVE DInv'
<1>1. CASE WorkerRuns
  <2>1. /\ phase = "starting" /\ phase' = "emitted" /\ events = <<>>
        /\ events' = <<Signal("result"), Signal("quit")>>
    BY <1>1, QueueFacts DEF WorkerRuns, DInv, Queue
  <2>2. Unhandled /\ Unhandled'
    BY <2>1, QueueFacts DEF Unhandled
  <2> QED
    BY <1>1, <2>1, <2>2 DEF WorkerRuns, DInv, Control, Slot, Queue, Awaited, Loading,
       ShownBelongsTogether, Named, Signal, Idle, viewVars, regionVars, idVars
<1>2. CASE ThreadEnds
  <2>1. /\ phase = "quitting" /\ phase' = "over" /\ events = <<>>
        /\ events' = <<Signal("finished")>>
    BY <1>2, QueueFacts DEF ThreadEnds, DInv, Queue
  <2>2. ~Unhandled /\ ~Unhandled'
    BY <2>1 DEF Unhandled
  <2> QED
    BY <1>2, <2>1, <2>2 DEF ThreadEnds, DInv, Control, Slot, Queue, Awaited, Loading,
       ShownBelongsTogether, Named, Signal, Idle, viewVars, regionVars, idVars
<1> QED BY <1>1, <1>2

\* After the handler of a result: the queue and the slot.
LEMMA ResultHandled ==
    ASSUME DInv, NEW kind, IsNext(kind, "result"), UNCHANGED workVars
    PROVE  Slot' /\ Queue' /\ ~Unhandled' /\ worker' = worker /\ worker.kind = kind /\ Unhandled
<1>1. /\ worker.kind = kind /\ phase = "emitted" /\ Unhandled
      /\ events' = <<Signal("quit")>>
  BY Heads
<1>2. worker' = worker /\ phase' = phase /\ nav' = nav /\ aborted' = aborted
  BY DEF workVars
<1>3. Queue' /\ ~Unhandled'
  BY <1>1, <1>2, QueueFacts DEF Queue, Unhandled, Signal
<1>4. Slot'
  BY <1>2 DEF DInv, Slot, Idle
<1> QED BY <1>1, <1>2, <1>3, <1>4

LEMMA HandlerKeeps == ASSUME DInv, HandleEvent PROVE DInv'
<1> USE DEF DInv, Control, viewVars, regionVars, idVars
<1>1. CASE OnIndexed
  <2>1. /\ IsNext("index", "result") /\ UNCHANGED workVars
        /\ \/ lines' = {} /\ UNCHANGED <<spin, pendingLine>>
           \/ lines' # {} /\ spin' = First(lines') /\ pendingLine' = TRUE
        /\ UNCHANGED <<orientation, section, failed, start, region, regional, pendingRegion,
                       pendingClick, loads, pendingSection, regions>>
    BY <1>1 DEF OnIndexed
  <2>2. /\ Slot' /\ Queue' /\ ~Unhandled' /\ worker' = worker /\ worker.kind = "index"
        /\ Unhandled /\ nav' = nav
    BY <2>1, ResultHandled DEF workVars
  <2>3. Control'
    BY <2>1, <2>2
  <2>4. ~pendingLine
    BY <2>2 DEF Awaited
  <2>5. Awaited' /\ Loading' /\ ShownBelongsTogether'
    BY <2>1, <2>2, <2>4 DEF Awaited, Loading, ShownBelongsTogether
  <2> QED BY <2>2, <2>3, <2>5
<1>2. CASE OnLoadFailed
  <2>1. PICK kind \in {"index", "section"} : IsNext(kind, "result")
    BY <1>2 DEF OnLoadFailed
  <2>2. /\ pendingSection' = 0 /\ ClearRegion /\ failed' = TRUE /\ UNCHANGED workVars
        /\ UNCHANGED <<orientation, lines, spin, section, loads, regions, pendingLine>>
    BY <1>2 DEF OnLoadFailed
  <2>3. /\ Slot' /\ Queue' /\ ~Unhandled' /\ worker' = worker /\ worker.kind = kind
        /\ nav' = nav
    BY <2>1, <2>2, ResultHandled DEF workVars
  <2>4. Control'
    BY <2>2, <2>3
  <2>5. Awaited' /\ Loading' /\ ShownBelongsTogether'
    BY <2>1, <2>2, <2>3 DEF Awaited, Loading, ShownBelongsTogether, ClearRegion, Cleared, Named
  <2> QED BY <2>3, <2>4, <2>5
<1>3. CASE OnSection
  <2>1. /\ IsNext("section", "result") /\ UNCHANGED workVars
        /\ UNCHANGED <<orientation, lines, spin, failed, loads, regions, pendingLine>>
    BY <1>3 DEF OnSection
  <2>2. /\ Slot' /\ Queue' /\ ~Unhandled' /\ worker' = worker /\ worker.kind = "section"
        /\ Unhandled /\ nav' = nav
    BY <2>1, ResultHandled DEF workVars
  <2>3. worker.request = pendingSection
    BY <2>2 DEF Loading
  <2>4. section' = worker.section /\ ClearRegion
    BY <1>3, <2>3 DEF OnSection
  <2>5. Control'
    BY <2>1, <2>2
  <2>6. Awaited' /\ Loading' /\ ShownBelongsTogether'
    BY <2>1, <2>2, <2>4 DEF Awaited, Loading, ShownBelongsTogether, ClearRegion, Cleared, Named
  <2> QED BY <2>2, <2>5, <2>6
<1>4. CASE OnRegional
  <2>1. /\ IsNext("region", "result") /\ UNCHANGED workVars
        /\ UNCHANGED <<orientation, lines, spin, section, failed, start, region, pendingClick,
                       loads, pendingSection, regions, pendingLine>>
    BY <1>4 DEF OnRegional
  <2>2. /\ Slot' /\ Queue' /\ ~Unhandled' /\ worker' = worker /\ worker.kind = "region"
        /\ Unhandled /\ nav' = nav
    BY <2>1, ResultHandled DEF workVars
  <2>3. Control' /\ Loading'
    BY <2>1, <2>2 DEF Loading, Named
  <2>4. CASE pendingRegion # 0
    <3>1. regional' = region /\ pendingRegion' = 0
      BY <1>4, <2>4 DEF OnRegional, Awaited
    <3> QED BY <2>1, <2>2, <2>3, <3>1 DEF Awaited, ShownBelongsTogether
  <2>5. CASE pendingRegion = 0
    <3>1. UNCHANGED <<regional, pendingRegion>>
      BY <1>4, <2>2, <2>5 DEF OnRegional, Awaited
    <3> QED BY <2>1, <2>2, <2>3, <2>5, <3>1 DEF Awaited, ShownBelongsTogether
  <2> QED BY <2>4, <2>5
<1>5. CASE OnRegionalFailed
  <2>1. /\ IsNext("region", "result") /\ UNCHANGED workVars
        /\ UNCHANGED <<orientation, lines, spin, section, failed, loads, pendingSection,
                       regions, pendingLine>>
    BY <1>5 DEF OnRegionalFailed
  <2>2. /\ Slot' /\ Queue' /\ ~Unhandled' /\ worker' = worker /\ worker.kind = "region"
        /\ Unhandled /\ nav' = nav
    BY <2>1, ResultHandled DEF workVars
  <2>3. Control' /\ Loading'
    BY <2>1, <2>2 DEF Loading, Named
  <2>4. /\ regional' = NoRegion \/ regional' = regional
        /\ pendingRegion' = 0
        /\ UNCHANGED <<start, region, pendingClick>>
    BY <1>5, <2>2 DEF OnRegionalFailed, DropSpectrum, Awaited
  <2> QED BY <2>1, <2>2, <2>3, <2>4 DEF Awaited, ShownBelongsTogether
<1>6. CASE OnQuit
  <2>1. /\ IsNext(worker.kind, "quit") /\ phase = "emitted" /\ phase' = "quitting"
        /\ UNCHANGED <<orientation, lines, spin, section, failed, start, region, regional,
                       pendingRegion, pendingClick, loads, pendingSection, regions,
                       pendingLine, worker, nav, aborted>>
    BY <1>6 DEF OnQuit
  <2>2. events' = <<>> /\ ~Unhandled /\ ~Unhandled'
    BY <2>1, Heads DEF Unhandled
  <2>3. Control' /\ Slot' /\ Queue'
    BY <2>1, <2>2 DEF Slot, Queue, Idle
  <2>4. Awaited' /\ Loading' /\ ShownBelongsTogether'
    BY <2>1, <2>2 DEF Awaited, Loading, ShownBelongsTogether, Named
  <2> QED BY <2>3, <2>4
<1>7. CASE OnFinished
  <2>1. /\ IsNext(worker.kind, "finished") /\ pendingLine' = FALSE
    BY <1>7 DEF OnFinished
  <2>2. events' = <<>> /\ phase = "over" /\ ~Unhandled
    BY <2>1, Heads
  <2>3. Idle(NoWorker)
    BY DEF Idle
  <2>4. CASE pendingLine
    <3>1. /\ RequestLine(First(lines), orientation, NoWorker)
          /\ UNCHANGED <<orientation, lines, spin, section>>
      BY <1>7, <2>4 DEF OnFinished
    <3>2. spin = First(lines)
      BY <2>4 DEF Awaited
    <3> QED BY <2>1, <2>2, <2>3, <3>1, <3>2, Requests
  <2>5. CASE ~pendingLine /\ pendingClick # 0
    <3>1. /\ Analyse(pendingClick, NoWorker, Restored) /\ pendingClick' = 0
          /\ UNCHANGED <<orientation, lines, spin, section, failed, loads>>
      BY <1>7, <2>5 DEF OnFinished
    <3>2. pendingClick \in Positions /\ worker.kind = "region"
      BY <2>5 DEF Awaited
    <3> QED BY <2>1, <2>2, <2>3, <3>1, <3>2, Analyses
  <2>6. CASE ~pendingLine /\ pendingClick = 0
    <3>1. /\ worker' = NoWorker /\ phase' = "none" /\ nav' = Restored
          /\ UNCHANGED <<orientation, lines, spin, section, failed, start, region, regional,
                         pendingRegion, pendingClick, loads, pendingSection, regions, aborted>>
      BY <1>7, <2>6 DEF OnFinished
    <3>2. worker'.kind = "none" /\ Idle(worker')
      BY <3>1 DEF NoWorker, Idle
    <3>3. Control'
      BY <3>1 DEF Restored
    <3>4. Slot' /\ Queue'
      BY <2>2, <3>1, <3>2 DEF Slot, Queue
    <3>5. Awaited' /\ ShownBelongsTogether'
      BY <2>1, <2>2, <2>6, <3>1, <3>2 DEF Awaited, ShownBelongsTogether
    <3>6. Loading'
      BY <2>2, <3>1, <3>2 DEF Loading, Named, Slot
    <3> QED BY <3>3, <3>4, <3>5, <3>6
  <2> QED BY <2>4, <2>5, <2>6
<1> QED BY <1>1, <1>2, <1>3, <1>4, <1>5, <1>6, <1>7 DEF HandleEvent

LEMMA DStep == ASSUME DInv, [Next]_vars PROVE DInv'
BY UserKeeps, WorkerKeeps, HandlerKeeps, DStutters DEF Next

\* A kept click becomes a boundary, or another takes its place.
LEMMA ClickStep ==
    ASSUME DInv, [Next]_vars, pendingClick # 0, pendingClick' = 0
    PROVE  pendingClick \in {region'.lo, region'.hi}
<1>1. worker.kind = "region" /\ ~Idle(worker) /\ ~nav /\ ~pendingLine
  BY DEF DInv, Slot, Awaited
<1>2. pendingClick' # pendingClick
  OBVIOUS
<1>3. ASSUME NEW l \in Lines, ChooseLine(l) PROVE FALSE
  BY <1>1, <1>3 DEF ChooseLine
<1>4. ASSUME NEW o \in Orientations, ChangeOrientation(o) PROVE FALSE
  BY <1>1, <1>4 DEF ChangeOrientation
<1>5. ASSUME NEW p \in Positions, Click(p) PROVE FALSE
  <2>1. pendingClick' \in {pendingClick, p}
    BY <1>5 DEF Click
  <2> QED BY <2>1, <1>5, PositionsAssumption
<1>6. ~Close /\ ~WorkerRuns /\ ~ThreadEnds /\ ~UNCHANGED vars
  BY <1>2 DEF Close, WorkerRuns, ThreadEnds, vars, regionVars
<1>7. ~OnIndexed /\ ~OnRegional /\ ~OnQuit
  BY <1>2 DEF OnIndexed, OnRegional, OnQuit, regionVars
<1>8. ~OnRegionalFailed
  BY <1>2 DEF OnRegionalFailed, DropSpectrum, regionVars
<1>9. ~OnLoadFailed /\ ~OnSection
  BY <1>1, Heads DEF OnLoadFailed, OnSection
<1>10. OnFinished
  BY <1>3, <1>4, <1>5, <1>6, <1>7, <1>8, <1>9 DEF Next, UserStep, HandleEvent
<1>11. /\ Analyse(pendingClick, NoWorker, Restored)
       /\ IsNext(worker.kind, "finished") /\ pendingLine' = FALSE
       /\ UNCHANGED <<orientation, lines, spin, section, failed, loads>>
  BY <1>1, <1>10 DEF OnFinished, viewVars
<1>12. events' = <<>> /\ ~Unhandled /\ pendingClick \in Positions
  BY <1>11, Heads DEF DInv, Awaited
<1>13. Idle(NoWorker)
  BY DEF Idle
<1> QED BY <1>1, <1>11, <1>12, <1>13, Analyses

-----------------------------------------------------------------------------
(* The screen only adds to the dialog.                                     *)

LEMMA DialogIsKept == ASSUME [ScreenNext]_allVars PROVE [Next]_vars
<1>1. CASE ScreenUser
  <2>1. ASSUME Presents PROVE UNCHANGED vars
    BY <2>1 DEF Presents
  <2> QED
    BY <1>1, <2>1 DEF ScreenUser, Next, UserStep, ScreenChooseLine, ScreenChangeOrientation,
       ScreenClick, ScreenClose, ChangeSettings, ChangeRenderer, ChangeLook, OpenWindow,
       ChangeWindow, CloseWindow
<1>2. CASE ScreenWorker
  BY <1>2 DEF ScreenWorker, Next
<1>3. CASE ScreenHandler
  BY <1>3 DEF ScreenHandler, ScreenOnSection, ScreenOnRegional, ScreenOnRegionalFailed,
     ScreenOnFinished, Next, HandleEvent
<1> QED BY <1>1, <1>2, <1>3 DEF ScreenNext, allVars

\* The viewer with its drawing is a SeismicViewer: what is shown never decides
\* what the dialog does.
THEOREM ScreenIsAViewer == ScreenSpec => Spec
<1>1. ScreenInit => Init
  BY DEF ScreenInit
<1>2. [ScreenNext]_allVars => [Next]_vars
  BY DialogIsKept
<1> QED BY <1>1, <1>2, PTL DEF ScreenSpec, Spec

\* Worker slot, queue of signals, requests and what is kept agree as DInv says,
\* in every reachable state of the dialog.
THEOREM DialogInvariant == Spec => []DInv
<1>1. Init => DInv
  BY DInitially
<1>2. DInv /\ [Next]_vars => DInv'
  BY DStep
<1> QED BY <1>1, <1>2, PTL DEF Spec

\* Two workers never share the slot: the assertion of _start_worker() holds,
\* whatever is clicked while a finished handler starts what was kept.
THEOREM OneWorkerAtATime == ScreenSpec => []NeverAborts
<1>1. DInv => NeverAborts
  BY DEF DInv, Slot, NeverAborts
<1> QED BY <1>1, ScreenIsAViewer, DialogInvariant, PTL

\* Section, region and spectrum on the screen always belong together.
THEOREM ShownIsConsistent == ScreenSpec => []ShownBelongsTogether
<1>1. DInv => ShownBelongsTogether
  BY DEF DInv
<1> QED BY <1>1, ScreenIsAViewer, DialogInvariant, PTL

\* With nothing in flight, and lines found by the last lookup, the controls name
\* the section shown, unless the last load failed.
THEOREM ControlsAreHonest == ScreenSpec => []ControlsNameTheSection
<1>1. DInv => ControlsNameTheSection
  BY DEF DInv, Slot, Loading, Named, ControlsNameTheSection, ThreadFree
<1> QED BY <1>1, ScreenIsAViewer, DialogInvariant, PTL

\* A click kept during a computation is applied when it ends.
THEOREM ClicksAreApplied == ScreenSpec => KeptClickIsApplied
<1>1. DInv /\ [Next]_vars
        => [pendingClick # 0 /\ pendingClick' = 0
              => pendingClick \in {region'.lo, region'.hi}]_vars
  BY ClickStep
<1> QED BY <1>1, ScreenIsAViewer, DialogInvariant, PTL DEF Spec, KeptClickIsApplied

-----------------------------------------------------------------------------
(* The screen: SInv is inductive, given DInv.                              *)

LEMMA WindowRedraws ==
    ASSUME NEW w, IsWindow(w)
    PROVE  LET v == WindowRedrawn(w) IN
           /\ IsWindow(v)
           /\ v.open = w.open /\ v.regional = w.regional /\ v.look = w.look
           /\ v.plot.of = w.regional /\ v.plot.look.scale = w.look.scale
           /\ v.plot.look.response => w.regional # NoRegion
<1> DEFINE how == [w.look EXCEPT !.response = @ /\ w.regional # NoRegion]
<1>1. how.scale = w.look.scale /\ (how.response => w.regional # NoRegion)
  BY DEF IsWindow, Looks
<1> HIDE DEF how
<1>2. WindowPlot(w) = [of |-> w.regional, look |-> how]
  BY DEF WindowPlot, Displayed, how
<1>3. WindowRedrawn(w) = [open |-> w.open, regional |-> w.regional, renderer |-> w.renderer,
                          look |-> w.look, plot |-> WindowPlot(w)]
  BY DEF WindowRedrawn, IsWindow
<1> QED BY <1>1, <1>2, <1>3 DEF IsWindow

\* _draw_region() on the canvas that shows the section.
LEMMA RegionDrawn ==
    ASSUME IsCanvas(canvas), CanvasShows, canvas' = DrawRegion(canvas, region'),
           UNCHANGED <<section, settings, open>>
    PROVE  IsCanvas(canvas)' /\ CanvasShows'
BY DEF IsCanvas, CanvasShows, DrawRegion

\* _redraw(), with either renderer and whatever it drew before.
LEMMA AllDrawn ==
    ASSUME NEW c, IsCanvas(c), NEW name, canvas' = Redrawn(c, name, settings')
    PROVE  IsCanvas(canvas)' /\ CanvasShows'
<1> DEFINE shown == ShowSection(c, name, section', settings')
<1>1. /\ IsCanvas(shown) /\ shown.section = section'
      /\ section' # NoSection =>
           /\ shown.mode = settings'.mode /\ shown.wiggle = settings'.wiggle
           /\ ~settings'.wiggle => shown.colormap = settings'.colormap
  BY DEF IsCanvas, ShowSection, Blank, Reused, Fresh, SameLayout
<1>2. canvas' = DrawRegion(shown, region')
  BY DEF Redrawn
<1> HIDE DEF shown
<1> QED BY <1>1, <1>2 DEF IsCanvas, CanvasShows, DrawRegion

\* Nothing is drawn, and nothing that is shown has changed.
LEMMA ScreenUnchanged ==
    ASSUME SInv, ScreenStays, UNCHANGED <<section, region, regional, open>>
    PROVE  SInv'
BY DEF SInv, ScreenFields, HandedOver, ScreenShowsState, WindowFollowsRegion, ScreenStays,
       screenVars, IsCanvas, IsWindow

\* _refresh_spectrum(), whatever was done to the canvas.
LEMMA SpectrumRefreshed ==
    ASSUME SInv, NEW how \in Looks, RefreshSpectrum(how), look' = how,
           UNCHANGED <<settings, open>>, IsCanvas(canvas)', CanvasShows'
    PROVE  SInv'
<1>1. display' = Displayed(regional, look)' /\ plot' = display'
  BY DEF RefreshSpectrum, Displayed
<1>2. ScreenShowsState'
  BY <1>1 DEF ScreenShowsState, CanvasShows, Displayed
<1>3. CASE window.open
  <2> DEFINE w == [window EXCEPT !.regional = regional']
  <2>0. w = [open |-> window.open, regional |-> regional', renderer |-> window.renderer,
             look |-> window.look, plot |-> window.plot]
    BY DEF SInv, ScreenFields, IsWindow
  <2>1. IsWindow(w) /\ w.open = window.open /\ w.regional = regional' /\ open
    BY <1>3, <2>0 DEF SInv, ScreenFields, IsWindow, WindowFollowsRegion
  <2>2. window' = WindowRedrawn(w)
    BY <1>3 DEF RefreshSpectrum
  <2> HIDE DEF w
  <2>3. IsWindow(window)' /\ WindowFollowsRegion' /\ window'.regional = regional'
    BY <2>1, <2>2, WindowRedraws DEF WindowFollowsRegion, IsWindow
  <2> QED BY <1>1, <1>2, <2>3 DEF SInv, ScreenFields, HandedOver
<1>4. CASE ~window.open
  <2>1. window' = window
    BY <1>4 DEF RefreshSpectrum
  <2> QED
    BY <1>1, <1>2, <1>4, <2>1 DEF SInv, ScreenFields, HandedOver, WindowFollowsRegion, IsWindow
<1> QED BY <1>3, <1>4

\* The region and the spectrum have gone, or a boundary has been chosen.
LEMMA RegionChanged ==
    ASSUME SInv, (ScreenCleared /\ region' = NoRegion) \/ ScreenSelected,
           UNCHANGED <<section, open>>
    PROVE  SInv'
<1>1. canvas' = DrawRegion(canvas, region') /\ RefreshSpectrum(look)
      /\ UNCHANGED <<settings, look>>
  BY DEF ScreenCleared, ScreenSelected
<1> QED
  BY <1>1, RegionDrawn, SpectrumRefreshed DEF SInv, ScreenFields, ScreenShowsState, CanvasShows

\* The detached window is redrawn, and nothing else.
LEMMA NewWindow ==
    ASSUME SInv, NEW w, IsWindow(w), w.open, w.regional = regional, window' = WindowRedrawn(w),
           open,
           UNCHANGED <<section, region, regional, open, settings, canvas, look, display, plot>>
    PROVE  SInv'
<1>1. IsWindow(window)' /\ WindowFollowsRegion' /\ window'.regional = regional'
  BY WindowRedraws DEF WindowFollowsRegion, IsWindow
<1> QED
  BY <1>1 DEF SInv, ScreenFields, HandedOver, ScreenShowsState, IsCanvas

LEMMA SInitially == ASSUME ScreenInit PROVE SInv
<1>1. (CHOOSE c \in Colormaps : TRUE) \in Colormaps
  BY ColormapsAssumption
<1> QED
  BY <1>1 DEF ScreenInit, Init, SInv, ScreenFields, HandedOver, ScreenShowsState,
     WindowFollowsRegion, IsCanvas, IsWindow, Blank, NoPlot, NoWindow, Looks, Modes, Displayed

LEMMA UserDraws == ASSUME DInv, SInv, ScreenUser PROVE SInv'
<1>1. ASSUME NEW l \in Lines, ScreenChooseLine(l) PROVE SInv'
  <2>1. ChooseLine(l) /\ UNCHANGED <<section, open>>
    BY <1>1 DEF ScreenChooseLine, ChooseLine
  <2>2. CASE LineRequested
    <3>1. region' = NoRegion
      BY <2>1, <2>2 DEF ChooseLine, RequestLine, ClearRegion, Cleared, LineRequested, idVars
    <3> QED BY <1>1, <2>1, <2>2, <3>1, RegionChanged DEF ScreenChooseLine
  <2>3. CASE ~LineRequested
    <3>1. UNCHANGED <<region, regional>>
      BY <2>1, <2>3 DEF ChooseLine, RequestLine, LineRequested, regionVars, DInv, Control
    <3> QED BY <1>1, <2>1, <2>3, <3>1, ScreenUnchanged DEF ScreenChooseLine
  <2> QED BY <2>2, <2>3
<1>2. ASSUME NEW o \in Orientations, ScreenChangeOrientation(o) PROVE SInv'
  <2>1. ChangeOrientation(o) /\ UNCHANGED <<section, open>>
    BY <1>2 DEF ScreenChangeOrientation, ChangeOrientation
  <2>2. CASE LineRequested
    <3>1. region' = NoRegion
      BY <2>1, <2>2 DEF ChangeOrientation, RequestLine, ClearRegion, Cleared, LineRequested, idVars
    <3> QED BY <1>2, <2>1, <2>2, <3>1, RegionChanged DEF ScreenChangeOrientation
  <2>3. CASE ~LineRequested
    <3>1. PICK found \in SUBSET Lines :
             \/ UNCHANGED regionVars
             \/ RequestLine(First(found), o, worker)
      BY <2>1 DEF ChangeOrientation
    <3>2. UNCHANGED <<region, regional>>
      BY <2>3, <3>1 DEF RequestLine, LineRequested, regionVars, DInv, Control
    <3> QED BY <1>2, <2>1, <2>3, <3>2, ScreenUnchanged DEF ScreenChangeOrientation
  <2> QED BY <2>2, <2>3
<1>3. ASSUME NEW p \in Positions, ScreenClick(p) PROVE SInv'
  <2>1. Click(p) /\ UNCHANGED <<section, open>>
    BY <1>3 DEF ScreenClick, Click, viewVars
  <2>2. CASE ThreadFree
    BY <1>3, <2>1, <2>2, RegionChanged DEF ScreenClick
  <2>3. CASE ~ThreadFree
    BY <1>3, <2>1, <2>3, ScreenUnchanged DEF ScreenClick, Click
  <2> QED BY <2>2, <2>3
<1>4. CASE ScreenClose
  <2>1. open' = FALSE /\ canvas' = Blank /\ window' = NoWindow /\ UNCHANGED <<settings, look>>
    BY <1>4 DEF ScreenClose, Close
  <2>2. IsCanvas(canvas)' /\ IsWindow(window)' /\ ~window'.open
    BY <2>1 DEF IsCanvas, Blank, IsWindow, NoWindow, NoPlot, Looks
  <2> QED
    BY <2>1, <2>2 DEF SInv, ScreenFields, HandedOver, ScreenShowsState, WindowFollowsRegion
<1>5. ASSUME Presents
      PROVE  UNCHANGED <<section, region, regional, open>> /\ open
  BY <1>5 DEF Presents, vars, viewVars, regionVars
<1>6. CASE ChangeSettings
  <2>1. settings' \in [mode : Modes, wiggle : BOOLEAN, colormap : Colormaps]
    BY <1>6 DEF ChangeSettings, SInv, ScreenFields
  <2>2. IsCanvas(canvas)' /\ CanvasShows'
    BY <1>6, AllDrawn DEF ChangeSettings, SInv, ScreenFields
  <2>3. UNCHANGED <<section, region, regional, open, look, display, plot, window>>
    BY <1>5, <1>6 DEF ChangeSettings
  <2> QED
    BY <2>1, <2>2, <2>3 DEF SInv, ScreenFields, HandedOver, ScreenShowsState, CanvasShows,
       WindowFollowsRegion, IsWindow
<1>7. CASE ChangeRenderer
  <2>1. UNCHANGED <<section, region, regional, open, settings, look, display, window>> /\ open
    BY <1>5, <1>7 DEF ChangeRenderer
  <2>2. IsCanvas(canvas)' /\ CanvasShows'
    <3>1. IsCanvas(Blank)
      BY DEF IsCanvas, Blank
    <3> QED BY <1>7, <2>1, <3>1, AllDrawn DEF ChangeRenderer
  <2>3. plot' = display
    BY <1>7, <2>1 DEF ChangeRenderer, SInv, HandedOver, Displayed, ScreenFields, Looks
  <2> QED
    BY <2>1, <2>2, <2>3 DEF SInv, ScreenFields, HandedOver, ScreenShowsState, CanvasShows,
       WindowFollowsRegion, IsWindow, Displayed
<1>8. CASE ChangeLook
  <2>1. UNCHANGED <<section, region, regional, open, settings, canvas>>
    BY <1>5, <1>8 DEF ChangeLook
  <2>2. IsCanvas(canvas)' /\ CanvasShows'
    BY <2>1 DEF SInv, ScreenFields, ScreenShowsState, IsCanvas, CanvasShows
  <2>3. look' \in Looks /\ RefreshSpectrum(look')
    BY <1>8 DEF ChangeLook
  <2> QED BY <2>1, <2>2, <2>3, SpectrumRefreshed
<1>9. CASE OpenWindow
  <2> DEFINE w == [open |-> TRUE, regional |-> regional, renderer |-> renderer,
                   look |-> [scale |-> look.scale, response |-> FALSE], plot |-> NoPlot]
  <2>1. IsWindow(w) /\ w.open /\ w.regional = regional
    <3>1. w.look \in Looks
      BY DEF Looks, SInv, ScreenFields
    <3> QED BY <3>1 DEF IsWindow
  <2>2. window' = WindowRedrawn(w)
    BY <1>9 DEF OpenWindow
  <2> HIDE DEF w
  <2>3. UNCHANGED <<section, region, regional, open, settings, canvas, look, display, plot>>
        /\ open
    BY <1>5, <1>9 DEF OpenWindow
  <2> QED BY <2>1, <2>2, <2>3, NewWindow
<1>10. CASE ChangeWindow
  <2>1. UNCHANGED <<section, region, regional, open, settings, canvas, look, display, plot>>
        /\ open /\ window.open
    BY <1>5, <1>10 DEF ChangeWindow
  <2>2. CASE \E how \in Looks \ {window.look} :
               window' = WindowRedrawn([window EXCEPT !.look = how])
    <3>1. PICK how \in Looks : window' = WindowRedrawn([window EXCEPT !.look = how])
      BY <2>2
    <3> DEFINE w == [window EXCEPT !.look = how]
    <3>2. w = [open |-> window.open, regional |-> window.regional,
               renderer |-> window.renderer, look |-> how, plot |-> window.plot]
      BY DEF SInv, ScreenFields, IsWindow
    <3>3. IsWindow(w) /\ w.open /\ w.regional = regional
      BY <2>1, <3>2 DEF IsWindow, SInv, HandedOver
    <3> QED BY <2>1, <3>1, <3>3, NewWindow
  <2>3. CASE \E name \in Renderers \ {window.renderer} :
               window' = WindowRedrawn([window EXCEPT !.renderer = name])
    <3>1. PICK name \in Renderers : window' = WindowRedrawn([window EXCEPT !.renderer = name])
      BY <2>3
    <3> DEFINE w == [window EXCEPT !.renderer = name]
    <3>2. w = [open |-> window.open, regional |-> window.regional, renderer |-> name,
               look |-> window.look, plot |-> window.plot]
      BY DEF SInv, ScreenFields, IsWindow
    <3>3. IsWindow(w) /\ w.open /\ w.regional = regional
      BY <2>1, <3>2 DEF IsWindow, SInv, HandedOver, ScreenFields
    <3> QED BY <2>1, <3>1, <3>3, NewWindow
  <2> QED BY <1>10, <2>2, <2>3 DEF ChangeWindow
<1>11. CASE CloseWindow
  <2>1. UNCHANGED <<section, region, regional, open, settings, canvas, look, display, plot>>
        /\ window' = NoWindow
    BY <1>5, <1>11 DEF CloseWindow
  <2>2. IsWindow(NoWindow) /\ ~NoWindow.open
    BY DEF IsWindow, NoWindow, NoPlot, Looks
  <2> QED
    BY <2>1, <2>2 DEF SInv, ScreenFields, HandedOver, ScreenShowsState, WindowFollowsRegion,
       IsCanvas
<1> QED
  BY <1>1, <1>2, <1>3, <1>4, <1>6, <1>7, <1>8, <1>9, <1>10, <1>11 DEF ScreenUser

LEMMA HandlerDraws == ASSUME DInv, SInv, ScreenHandler PROVE SInv'
<1>1. CASE OnIndexed /\ ScreenStays
  <2>1. UNCHANGED <<section, region, regional, open>>
    BY <1>1 DEF OnIndexed, regionVars
  <2> QED BY <1>1, <2>1, ScreenUnchanged
<1>2. CASE OnLoadFailed /\ ScreenCleared
  <2>1. region' = NoRegion /\ UNCHANGED <<section, open>>
    BY <1>2 DEF OnLoadFailed, ClearRegion, Cleared
  <2> QED BY <1>2, <2>1, RegionChanged
<1>3. CASE ScreenOnSection
  <2>1. CASE worker.request = pendingSection
    <3>1. canvas' = Redrawn(canvas, renderer, settings) /\ RefreshSpectrum(look)
          /\ UNCHANGED <<settings, look, open>>
      BY <1>3, <2>1 DEF ScreenOnSection, ScreenLoaded, OnSection
    <3>2. IsCanvas(canvas)' /\ CanvasShows'
      BY <3>1, AllDrawn DEF SInv, ScreenFields
    <3> QED BY <3>1, <3>2, SpectrumRefreshed DEF SInv, ScreenFields
  <2>2. CASE worker.request # pendingSection
    <3>1. UNCHANGED <<section, region, regional, open>> /\ ScreenStays
      BY <1>3, <2>2 DEF ScreenOnSection, OnSection, regionVars
    <3> QED BY <3>1, ScreenUnchanged
  <2> QED BY <2>1, <2>2
<1>4. ASSUME ScreenSpectrum, UNCHANGED <<section, region, open>> PROVE SInv'
  <2>1. IsCanvas(canvas)' /\ CanvasShows'
    BY <1>4 DEF ScreenSpectrum, SInv, ScreenFields, ScreenShowsState, IsCanvas, CanvasShows
  <2> QED BY <1>4, <2>1, SpectrumRefreshed DEF ScreenSpectrum, SInv, ScreenFields
<1>5. CASE ScreenOnRegional
  <2>1. UNCHANGED <<section, region, open>>
    BY <1>5 DEF ScreenOnRegional, OnRegional, viewVars
  <2>2. CASE worker.request = pendingRegion /\ region # NoRegion
    BY <1>4, <1>5, <2>1, <2>2 DEF ScreenOnRegional
  <2>3. CASE ~(worker.request = pendingRegion /\ region # NoRegion)
    <3>1. regional' = regional /\ ScreenStays
      BY <1>5, <2>3 DEF ScreenOnRegional, OnRegional
    <3> QED BY <2>1, <3>1, ScreenUnchanged
  <2> QED BY <2>2, <2>3
<1>6. CASE ScreenOnRegionalFailed
  <2>1. UNCHANGED <<section, region, open>>
    BY <1>6 DEF ScreenOnRegionalFailed, OnRegionalFailed, DropSpectrum, viewVars, regionVars
  <2>2. CASE worker.request = pendingRegion
    BY <1>4, <1>6, <2>1, <2>2 DEF ScreenOnRegionalFailed
  <2>3. CASE worker.request # pendingRegion
    <3>1. regional' = regional /\ ScreenStays
      BY <1>6, <2>3 DEF ScreenOnRegionalFailed, OnRegionalFailed, regionVars
    <3> QED BY <2>1, <3>1, ScreenUnchanged
  <2> QED BY <2>2, <2>3
<1>7. CASE OnQuit /\ ScreenStays
  <2>1. UNCHANGED <<section, region, regional, open>>
    BY <1>7 DEF OnQuit, viewVars, regionVars
  <2> QED BY <1>7, <2>1, ScreenUnchanged
<1>8. CASE ScreenOnFinished
  <2>1. UNCHANGED <<section, open>>
    BY <1>8 DEF ScreenOnFinished, OnFinished, viewVars
  <2>2. CASE pendingLine
    <3>1. region' = NoRegion /\ ScreenCleared
      BY <1>8, <2>2 DEF ScreenOnFinished, OnFinished, RequestLine, ClearRegion, Cleared
    <3> QED BY <2>1, <3>1, RegionChanged
  <2>3. CASE ~pendingLine /\ pendingClick # 0
    BY <1>8, <2>1, <2>3, RegionChanged DEF ScreenOnFinished
  <2>4. CASE ~pendingLine /\ pendingClick = 0
    <3>1. UNCHANGED <<region, regional>> /\ ScreenStays
      BY <1>8, <2>4 DEF ScreenOnFinished, OnFinished, regionVars
    <3> QED BY <2>1, <3>1, ScreenUnchanged
  <2> QED BY <2>2, <2>3, <2>4
<1> QED BY <1>1, <1>2, <1>3, <1>5, <1>6, <1>7, <1>8 DEF ScreenHandler

LEMMA SStep == ASSUME DInv, SInv, [ScreenNext]_allVars PROVE SInv'
<1>1. CASE ScreenWorker
  <2>1. UNCHANGED <<section, region, regional, open>> /\ ScreenStays
    BY <1>1 DEF ScreenWorker, WorkerRuns, ThreadEnds, viewVars, regionVars
  <2> QED BY <2>1, ScreenUnchanged
<1>2. CASE UNCHANGED allVars
  <2>1. UNCHANGED <<section, region, regional, open>> /\ ScreenStays
    BY <1>2 DEF allVars, ScreenStays, vars, viewVars, regionVars
  <2> QED BY <2>1, ScreenUnchanged
<1> QED BY <1>1, <1>2, UserDraws, HandlerDraws DEF ScreenNext

\* The two invariants together, for the viewer as it is drawn.
THEOREM ScreenInvariant == ScreenSpec => [](DInv /\ SInv)
<1>1. ScreenInit => DInv /\ SInv
  BY DInitially, SInitially DEF ScreenInit
<1>2. DInv /\ SInv /\ [ScreenNext]_allVars => (DInv /\ SInv)'
  BY DialogIsKept, DStep, SStep
<1> QED BY <1>1, <1>2, PTL DEF ScreenSpec

\* The renderers show the state of the viewer: no exchange of a renderer, reuse
\* of images or change of a setting, at whatever moment, leaves something old.
THEOREM ScreenIsCurrent == ScreenSpec => []ScreenShowsState
<1>1. SInv => ScreenShowsState
  BY DEF SInv
<1> QED BY <1>1, ScreenInvariant, PTL

\* The detached window shows the viewer's spectrum or none, and never outlives it.
THEOREM WindowIsCurrent == ScreenSpec => []WindowFollowsRegion
<1>1. SInv => WindowFollowsRegion
  BY DEF SInv
<1> QED BY <1>1, ScreenInvariant, PTL

-----------------------------------------------------------------------------
(* The types of the dialog.                                                *)

\* A region of which there is, or may be, a spectrum: some trace is inside.
IsSpectral(r) == IsRegion(r) /\ (r = NoRegion \/ IsValid(r))

DTypes ==
    /\ lines \subseteq Lines /\ spin \in Lines \cup {NoLine} /\ section \in Sections
    /\ IsRegion(region) /\ IsSpectral(regional) /\ IsSpectral(worker.region)
    /\ start \in Positions \cup {0} /\ pendingClick \in Positions \cup {0}
    /\ loads \in 0 .. MaxLoads /\ pendingSection \in 0 .. MaxLoads
    /\ regions \in 0 .. MaxRegions /\ pendingRegion \in 0 .. MaxRegions
    /\ answer \in {"none", "done", "raised"}
    /\ nav \in BOOLEAN /\ failed \in BOOLEAN /\ pendingLine \in BOOLEAN /\ open \in BOOLEAN
    /\ aborted \in BOOLEAN
    \* No section is asked for before the index is there, and none is asked for
    \* or analysed that is not of the survey; a kept click has its analysis left.
    /\ worker.kind = "index" => loads = 0
    /\ worker.kind = "section" => worker.section \in Sections \ {NoSection}
    /\ worker.kind = "region" => section # NoSection
    /\ pendingClick # 0 => regions < MaxRegions

\* The first of some lines is one of them.
LEMMA FirstIsALine ==
    ASSUME NEW S \in SUBSET Lines, S # {}
    PROVE  First(S) \in S /\ First(S) \in Lines
<1> DEFINE below == OpToRel(<, Nat)
<1>0. S \subseteq Nat
  BY LinesAssumption
<1>1. below = {pair \in Nat \X Nat : pair[1] < pair[2]}
  BY DEF OpToRel
<1>2. IsWellFoundedOn(below, Nat)
  BY NatLessThanWellFounded
<1> HIDE DEF below
<1>3. PICK l \in S : \A k \in S : ~(<<k, l>> \in below)
  BY <1>0, <1>2, WFMin
<1>4. ASSUME NEW k \in S, k < l PROVE FALSE
  <2>1. <<k, l>> \in Nat \X Nat /\ <<k, l>>[1] < <<k, l>>[2]
    BY <1>0, <1>4
  <2>2. <<k, l>> \in {pair \in Nat \X Nat : pair[1] < pair[2]}
    BY <2>1
  <2>3. <<k, l>> \in below
    BY <1>1, <2>2, Zenon
  <2> QED BY <1>3, <2>3, Zenon
<1>5. ASSUME NEW k \in S PROVE l <= k
  <2>1. k \in Nat /\ l \in Nat
    BY <1>0
  <2>2. ~(k < l)
    BY <1>4
  <2> QED BY <2>1, <2>2
<1>6. \E f \in S : \A k \in S : f <= k
  BY <1>5
<1>7. First(S) \in S
  BY <1>6 DEF First
<1> QED BY <1>7

\* Two positions of the axis bound a region of the section shown.
LEMMA RegionBetween ==
    ASSUME NEW a \in Positions, NEW b \in Positions, section \in Sections \ {NoSection}
    PROVE  IsRegion(Between(a, b))
<1>1. a \in Nat /\ b \in Nat
  BY PositionsAssumption
<1> DEFINE t == Between(a, b)
<1>2. t.of = section /\ {t.lo, t.hi} \subseteq Positions /\ t.lo <= t.hi
  BY <1>1 DEF Between
<1> HIDE DEF t
<1> QED BY <1>2 DEF IsRegion, t

LEMMA RequestTypes ==
    ASSUME DInv, DTypes, NEW l \in Lines, NEW o \in Orientations, NEW now, Idle(now),
           loads < MaxLoads, RequestLine(l, o, now),
           lines' \subseteq Lines, spin' \in Lines \cup {NoLine},
           pendingLine' \in BOOLEAN, answer' \in {"none", "done", "raised"},
           UNCHANGED <<section, open>>
    PROVE  DTypes'
<1> DEFINE asked == [orientation |-> o, line |-> l, load |-> loads + 1]
<1>1. /\ worker' = Worker("section", loads + 1, asked, NoRegion)
      /\ nav' = FALSE /\ aborted' = aborted
  BY FreeSlot DEF RequestLine
<1>2. worker'.kind = "section" /\ worker'.section = asked /\ worker'.region = NoRegion
  BY <1>1, Workers
<1>3. /\ loads' = loads + 1 /\ pendingSection' = loads + 1 /\ regions' = regions
      /\ region' = NoRegion /\ regional' = NoRegion /\ start' = 0
      /\ pendingRegion' = 0 /\ pendingClick' = 0 /\ failed' = FALSE
  BY DEF RequestLine, ClearRegion, Cleared
<1>4. loads + 1 \in 1 .. MaxLoads /\ MaxLoads \in Nat /\ MaxRegions \in Nat
  BY BoundsAssumption DEF DTypes
<1>5. asked \in Sections /\ asked # NoSection
  <2>1. asked.load = loads + 1 /\ NoSection.load = 0 /\ loads + 1 # 0
    BY <1>4 DEF NoSection
  <2>2. asked \in Sections
    BY <1>4 DEF Sections
  <2> QED BY <2>1, <2>2
<1>6. IsSpectral(NoRegion) /\ IsRegion(NoRegion)
  BY DEF IsSpectral, IsRegion
<1> HIDE DEF asked
<1>7. regions' \in 0 .. MaxRegions /\ section' \in Sections /\ open' \in BOOLEAN
      /\ aborted' \in BOOLEAN
  BY <1>1, <1>3 DEF DTypes
<1>8. IsRegion(region)' /\ IsSpectral(regional)' /\ IsSpectral(worker.region)'
  BY <1>2, <1>3, <1>6
<1>9. /\ start' \in Positions \cup {0} /\ pendingClick' \in Positions \cup {0}
      /\ loads' \in 0 .. MaxLoads /\ pendingSection' \in 0 .. MaxLoads
      /\ pendingRegion' \in 0 .. MaxRegions
  <2>1. 1 .. MaxLoads \subseteq 0 .. MaxLoads /\ 0 \in 0 .. MaxRegions
    BY <1>4
  <2> QED BY <1>3, <1>4, <2>1
<1>11. nav' \in BOOLEAN /\ failed' \in BOOLEAN
  BY <1>1, <1>3
<1>10. worker'.section \in Sections \ {NoSection}
  BY <1>2, <1>5
<1> QED BY <1>2, <1>3, <1>7, <1>8, <1>9, <1>10, <1>11 DEF DTypes

LEMMA AnalysisTypes ==
    ASSUME DInv, DTypes, NEW p \in Positions, NEW now, Idle(now), NEW n \in BOOLEAN,
           regions < MaxRegions, section # NoSection, Analyse(p, now, n),
           pendingClick' = 0, pendingLine' \in BOOLEAN, answer' \in {"none", "done", "raised"},
           UNCHANGED <<lines, spin, section, failed, loads, pendingSection, open>>
    PROVE  DTypes'
<1> DEFINE r == IF start = 0 THEN Between(p, p) ELSE Between(start, p)
<1>1. IsRegion(r)
  <2>1. section \in Sections \ {NoSection} /\ start \in Positions \cup {0}
    BY DEF DTypes
  <2>2. CASE start = 0
    BY <2>1, <2>2, RegionBetween
  <2>3. CASE start # 0
    BY <2>1, <2>3, RegionBetween
  <2> QED BY <2>2, <2>3
<1>2. /\ region' = r /\ regional' = NoRegion
      /\ start' \in Positions \cup {0}
  BY DEF Analyse, Forgotten
<1> HIDE DEF r
<1>3. IsSpectral(NoRegion) /\ IsRegion(NoRegion)
  BY DEF IsSpectral, IsRegion
<1>4. regions + 1 \in 0 .. MaxRegions /\ MaxRegions \in Nat
  BY BoundsAssumption DEF DTypes
<1>5. CASE IsValid(r)
  <2> DEFINE w == Worker("region", regions + 1, section, r)
  <2>0. StartWorker(w, now) /\ regions' = regions + 1 /\ pendingRegion' = regions + 1
    BY <1>5 DEF Analyse, r
  <2>1. /\ worker' = w /\ nav' = FALSE /\ aborted' = aborted
        /\ regions' = regions + 1 /\ pendingRegion' = regions + 1
    BY <2>0, FreeSlot
  <2>2. worker'.kind = "region" /\ worker'.region = r
    BY <2>1, Workers
  <2>3. IsSpectral(r)
    BY <1>1, <1>5 DEF IsSpectral
  <2> HIDE DEF w
  <2> QED BY <1>1, <1>2, <1>3, <1>4, <2>1, <2>2, <2>3 DEF DTypes
<1>6. CASE ~IsValid(r)
  <2>1. worker' = NoWorker /\ nav' = n /\ UNCHANGED <<regions, pendingRegion, aborted>>
    BY <1>6 DEF Analyse, r, Idle
  <2>2. worker'.kind = "none" /\ worker'.region = NoRegion
    BY <2>1 DEF NoWorker
  <2> QED BY <1>1, <1>2, <1>3, <2>1, <2>2 DEF DTypes
<1> QED BY <1>5, <1>6

LEMMA UserTypes ==
    ASSUME DInv, DTypes, UserStep
    PROVE  DTypes'
<1>0. orientation \in Orientations
  BY DEF DInv, Control
<1>1. ASSUME NEW l \in Lines, ChooseLine(l) PROVE DTypes'
  <2>1. ThreadFree
    BY <1>1 DEF ChooseLine, DInv, Slot, ThreadFree
  <2>2. CASE lines # {}
    <3>1. /\ RequestLine(l, orientation, worker) /\ spin' = l /\ loads < MaxLoads
          /\ UNCHANGED <<lines, section, pendingLine, answer, open>>
      BY <1>1, <2>1, <2>2 DEF ChooseLine
    <3>2. lines' \subseteq Lines /\ pendingLine' \in BOOLEAN
          /\ answer' \in {"none", "done", "raised"} /\ spin' \in Lines \cup {NoLine}
      BY <3>1 DEF DTypes
    <3> QED BY <1>0, <2>1, <3>1, <3>2, RequestTypes DEF ThreadFree
  <2>3. CASE lines = {}
    <3>1. spin' = l /\ UNCHANGED <<orientation, lines, section, failed, regionVars, idVars,
                                    workVars, pendingLine, answer, open>>
      BY <1>1, <2>3 DEF ChooseLine
    <3> QED BY <3>1 DEF DTypes, regionVars, idVars, workVars, IsSpectral, IsRegion, IsValid
  <2> QED BY <2>2, <2>3
<1>2. ASSUME NEW o \in Orientations, ChangeOrientation(o) PROVE DTypes'
  <2>1. ThreadFree
    BY <1>2 DEF ChangeOrientation, DInv, Slot, ThreadFree
  <2>2. PICK found \in SUBSET Lines :
           /\ lines' = found
           /\ IF found = {}
              THEN failed' = FALSE /\ UNCHANGED <<spin, regionVars, idVars, workVars>>
              ELSE spin' = First(found) /\ RequestLine(First(found), o, worker)
    BY <1>2, <2>1 DEF ChangeOrientation
  <2>3. loads < MaxLoads /\ UNCHANGED <<section, pendingLine, answer, open>>
    BY <1>2 DEF ChangeOrientation
  <2>4. pendingLine' \in BOOLEAN /\ answer' \in {"none", "done", "raised"}
    BY <2>3 DEF DTypes
  <2>5. CASE found # {}
    <3>1. RequestLine(First(found), o, worker) /\ lines' \subseteq Lines
          /\ First(found) \in Lines /\ spin' \in Lines \cup {NoLine}
      BY <2>2, <2>5, FirstIsALine
    <3> QED BY <2>1, <2>3, <2>4, <3>1, RequestTypes DEF ThreadFree
  <2>6. CASE found = {}
    <3>1. lines' = {} /\ failed' = FALSE /\ UNCHANGED <<spin, regionVars, idVars, workVars>>
      BY <2>2, <2>6
    <3>2. IsSpectral(worker.region)' /\ IsSpectral(regional)' /\ IsRegion(region)'
      BY <3>1 DEF DTypes, regionVars, workVars, IsSpectral, IsRegion, IsValid
    <3> QED BY <2>3, <3>1, <3>2 DEF DTypes, regionVars, idVars, workVars
  <2> QED BY <2>5, <2>6
<1>3. ASSUME NEW p \in Positions, Click(p) PROVE DTypes'
  <2>1. /\ section # NoSection /\ regions < MaxRegions
        /\ UNCHANGED <<lines, spin, section, failed, loads, pendingSection, pendingLine,
                       answer, open>>
    BY <1>3 DEF Click, viewVars
  <2>2. CASE ThreadFree
    <3>1. Analyse(p, worker, nav) /\ pendingClick' = pendingClick /\ pendingClick = 0
      BY <1>3, <2>2, FreeFacts DEF Click
    <3>2. pendingLine' \in BOOLEAN /\ answer' \in {"none", "done", "raised"} /\ nav \in BOOLEAN
      BY <2>1 DEF DTypes
    <3> QED BY <2>1, <2>2, <3>1, <3>2, AnalysisTypes DEF ThreadFree
  <2>3. CASE ~ThreadFree
    <3>1. pendingClick' = p /\ UNCHANGED <<start, region, regional, pendingRegion, regions,
                                           workVars>>
      BY <1>3, <2>3 DEF Click
    <3> QED BY <2>1, <3>1 DEF DTypes, workVars, IsSpectral, IsRegion, IsValid
  <2> QED BY <2>2, <2>3
<1>4. CASE Close
  <2>1. /\ open' = FALSE
        /\ UNCHANGED <<lines, spin, section, failed, start, region, regional, pendingRegion,
                       pendingClick, loads, pendingSection, regions, pendingLine, worker,
                       nav, aborted, answer>>
    BY <1>4 DEF Close, viewVars, regionVars, idVars, workVars
  <2>2. IsRegion(region)' /\ IsSpectral(regional)' /\ IsSpectral(worker.region)'
    BY <2>1 DEF DTypes
  <2> QED BY <2>1, <2>2 DEF DTypes
<1> QED BY <1>1, <1>2, <1>3, <1>4 DEF UserStep

LEMMA HandlerTypes ==
    ASSUME DInv, DTypes, HandleEvent
    PROVE  DTypes'
<1> USE DEF viewVars, regionVars, idVars, workVars
<1>0. IsSpectral(NoRegion) /\ IsRegion(NoRegion) /\ MaxLoads \in Nat /\ MaxRegions \in Nat
  BY BoundsAssumption DEF IsSpectral, IsRegion
<1>1. CASE OnIndexed
  <2>1. /\ lines' \subseteq Lines
        /\ UNCHANGED <<section, failed, start, region, regional, pendingRegion, pendingClick,
                       loads, pendingSection, regions, worker, nav, aborted, answer, open>>
    BY <1>1 DEF OnIndexed
  <2>2. spin' \in Lines \cup {NoLine} /\ pendingLine' \in BOOLEAN
    <3>1. CASE lines' = {}
      BY <1>1, <3>1 DEF OnIndexed, DTypes
    <3>2. CASE lines' # {}
      BY <1>1, <2>1, <3>2, FirstIsALine DEF OnIndexed
    <3> QED BY <3>1, <3>2
  <2> QED BY <2>1, <2>2 DEF DTypes, IsSpectral, IsRegion, IsValid
<1>2. CASE OnLoadFailed
  <2>1. /\ region' = NoRegion /\ regional' = NoRegion /\ start' = 0
        /\ pendingRegion' = 0 /\ pendingClick' = 0 /\ failed' = TRUE /\ pendingSection' = 0
        /\ UNCHANGED <<lines, spin, section, loads, regions, pendingLine, worker, nav, aborted,
                       answer, open>>
    BY <1>2 DEF OnLoadFailed, ClearRegion, Cleared
  <2>2. IsSpectral(worker.region)' /\ IsSpectral(regional)' /\ IsRegion(region)'
    BY <1>0, <2>1 DEF DTypes, IsSpectral, IsRegion, IsValid
  <2> QED BY <1>0, <2>1, <2>2 DEF DTypes
<1>3. CASE OnSection
  <2>1. worker.kind = "section"
    BY <1>3, Heads DEF OnSection
  <2>2. UNCHANGED <<lines, spin, failed, loads, regions, pendingLine, worker, nav, aborted, answer,
                       open>>
    BY <1>3 DEF OnSection
  <2>3. CASE worker.request = pendingSection
    <3>1. /\ region' = NoRegion /\ regional' = NoRegion /\ start' = 0
          /\ pendingRegion' = 0 /\ pendingClick' = 0 /\ pendingSection' = 0
          /\ section' = worker.section
      BY <1>3, <2>3 DEF OnSection, ClearRegion, Cleared
    <3>2. IsSpectral(worker.region)' /\ IsSpectral(regional)' /\ IsRegion(region)'
      BY <1>0, <2>2, <3>1 DEF DTypes, IsSpectral, IsRegion, IsValid
    <3> QED BY <1>0, <2>1, <2>2, <3>1, <3>2 DEF DTypes
  <2>4. CASE worker.request # pendingSection
    BY <1>3, <2>2, <2>4 DEF OnSection, DTypes, IsSpectral, IsRegion, IsValid
  <2> QED BY <2>3, <2>4
<1>4. CASE OnRegional
  <2>1. /\ regional' \in {regional, worker.region} /\ pendingRegion' \in {0, pendingRegion}
        /\ UNCHANGED <<lines, spin, section, failed, start, region, pendingClick, loads,
                       pendingSection, regions, pendingLine, worker, nav, aborted, answer,
                       open>>
    BY <1>4 DEF OnRegional
  <2>2. IsSpectral(worker.region)' /\ IsSpectral(regional)' /\ IsRegion(region)'
    BY <2>1 DEF DTypes, IsSpectral, IsRegion, IsValid
  <2> QED BY <1>0, <2>1, <2>2 DEF DTypes
<1>5. CASE OnRegionalFailed
  <2>1. /\ regional' \in {regional, NoRegion} /\ pendingRegion' \in {0, pendingRegion}
        /\ UNCHANGED <<lines, spin, section, failed, start, region, pendingClick, loads,
                       pendingSection, regions, pendingLine, worker, nav, aborted, answer,
                       open>>
    BY <1>5 DEF OnRegionalFailed, DropSpectrum
  <2>2. IsSpectral(worker.region)' /\ IsSpectral(regional)' /\ IsRegion(region)'
    BY <1>0, <2>1 DEF DTypes, IsSpectral, IsRegion, IsValid
  <2> QED BY <1>0, <2>1, <2>2 DEF DTypes
<1>6. CASE OnQuit
  BY <1>6 DEF OnQuit, DTypes, IsSpectral, IsRegion, IsValid
<1>7. CASE OnFinished
  <2>0. answer' \in {"none", "done", "raised"} /\ pendingLine' \in BOOLEAN /\ Idle(NoWorker)
        /\ orientation \in Orientations /\ Restored \in BOOLEAN /\ open' = open
    BY <1>7 DEF OnFinished, Idle, DInv, Control, Restored
  <2>1. CASE pendingLine
    <3>1. RequestLine(First(lines), orientation, NoWorker) /\ UNCHANGED <<lines, spin, section>>
      BY <1>7, <2>1 DEF OnFinished
    <3>2. worker.kind = "index" /\ loads = 0
      BY <2>1 DEF DInv, Awaited, DTypes
    <3>3. loads < MaxLoads /\ lines' \subseteq Lines /\ spin' \in Lines \cup {NoLine}
      BY <3>1, <3>2, BoundsAssumption DEF DTypes
    <3>4. First(lines) \in Lines
      BY <2>1, FirstIsALine DEF DInv, Awaited, DTypes
    <3> QED BY <2>0, <3>1, <3>3, <3>4, RequestTypes
  <2>2. CASE ~pendingLine /\ pendingClick # 0
    <3>1. Analyse(pendingClick, NoWorker, Restored) /\ pendingClick' = 0
          /\ UNCHANGED <<lines, spin, section, failed, loads, pendingSection>>
      BY <1>7, <2>2 DEF OnFinished
    <3>2. pendingClick \in Positions /\ regions < MaxRegions /\ section # NoSection
      BY <2>2 DEF DInv, Awaited, DTypes
    <3> QED BY <2>0, <3>1, <3>2, AnalysisTypes
  <2>3. CASE ~pendingLine /\ pendingClick = 0
    <3>1. worker' = NoWorker /\ nav' = Restored
          /\ UNCHANGED <<lines, spin, section, failed, start, region, regional, pendingRegion,
                         pendingClick, loads, pendingSection, regions, aborted>>
      BY <1>7, <2>3 DEF OnFinished
    <3>2. worker'.kind = "none" /\ worker'.region = NoRegion
      BY <3>1 DEF NoWorker
    <3>3. IsSpectral(worker.region)' /\ IsSpectral(regional)' /\ IsRegion(region)'
      BY <1>0, <3>1, <3>2 DEF DTypes, IsSpectral, IsRegion, IsValid
    <3> QED BY <1>0, <2>0, <3>1, <3>2, <3>3 DEF DTypes
  <2> QED BY <2>1, <2>2, <2>3
<1> QED BY <1>1, <1>2, <1>3, <1>4, <1>5, <1>6, <1>7 DEF HandleEvent

LEMMA DialogTypes ==
    ASSUME DInv, DTypes, [Next]_vars
    PROVE  DTypes'
<1>1. CASE WorkerRuns \/ ThreadEnds
  BY <1>1 DEF WorkerRuns, ThreadEnds, DTypes, viewVars, regionVars, idVars, IsSpectral,
              IsRegion, IsValid
<1>2. CASE UNCHANGED vars
  BY <1>2 DEF vars, viewVars, regionVars, idVars, workVars, DTypes, IsSpectral, IsRegion,
              IsValid
<1> QED BY <1>1, <1>2, UserTypes, HandlerTypes DEF Next

LEMMA TypesInitially == ASSUME Init PROVE DTypes
<1>1. worker.kind = "index" /\ worker.region = NoRegion
  BY Workers DEF Init
<1>2. IsRegion(region) /\ IsSpectral(regional) /\ IsSpectral(worker.region)
  BY <1>1 DEF Init, IsSpectral, IsRegion
<1>3. section \in Sections
  BY DEF Init, Sections
<1>4. MaxLoads \in Nat /\ MaxRegions \in Nat
  BY BoundsAssumption
<1>5. /\ loads \in 0 .. MaxLoads /\ pendingSection \in 0 .. MaxLoads
      /\ regions \in 0 .. MaxRegions /\ pendingRegion \in 0 .. MaxRegions
      /\ loads = 0 /\ pendingClick = 0
  BY <1>4 DEF Init
<1>6. /\ lines \subseteq Lines /\ spin \in Lines \cup {NoLine}
      /\ start \in Positions \cup {0} /\ pendingClick \in Positions \cup {0}
      /\ answer \in {"none", "done", "raised"}
      /\ nav \in BOOLEAN /\ failed \in BOOLEAN /\ pendingLine \in BOOLEAN
      /\ open \in BOOLEAN /\ aborted \in BOOLEAN
  BY DEF Init
<1> QED BY <1>1, <1>2, <1>3, <1>5, <1>6 DEF DTypes

-----------------------------------------------------------------------------
(* The types of the screen.                                                *)

CanvasTypes(c) ==
    /\ c.section \in Sections /\ c.mode \in Modes \cup {"none"}
    /\ c.bounds \in {NoBounds} \cup (Positions \X Positions)

PanelTypes ==
    /\ display.look \in Looks /\ plot.look \in Looks
    /\ IsSpectral(display.of) /\ IsSpectral(plot.of)

WindowTypes ==
    /\ window.renderer \in Renderers /\ window.open \in BOOLEAN
    /\ IsSpectral(window.regional)
    /\ window.plot.look \in Looks /\ IsSpectral(window.plot.of)

STypes ==
    /\ renderer \in Renderers /\ changes \in 0 .. MaxChanges
    /\ CanvasTypes(canvas) /\ PanelTypes /\ WindowTypes

LEMMA RegionDrawnTypes ==
    ASSUME NEW c, IsCanvas(c), CanvasTypes(c), NEW r, IsRegion(r)
    PROVE  CanvasTypes(DrawRegion(c, r))
<1> DEFINE d == DrawRegion(c, r)
<1>1. /\ d.section = c.section /\ d.mode = c.mode
      /\ d.bounds = IF r = NoRegion THEN NoBounds ELSE <<r.lo, r.hi>>
  BY DEF DrawRegion, IsCanvas
<1>2. r # NoRegion => r.lo \in Positions /\ r.hi \in Positions
  BY DEF IsRegion
<1> HIDE DEF d
<1>3. d.bounds \in {NoBounds} \cup (Positions \X Positions)
  BY <1>1, <1>2
<1> QED BY <1>1, <1>3 DEF CanvasTypes, d

LEMMA AllDrawnTypes ==
    ASSUME NEW c, NEW name, canvas' = Redrawn(c, name, settings'),
           settings' \in [mode : Modes, wiggle : BOOLEAN, colormap : Colormaps],
           section' \in Sections, IsRegion(region')
    PROVE  CanvasTypes(canvas)'
<1> DEFINE shown == ShowSection(c, name, section', settings')
<1>1. IsCanvas(shown) /\ shown.section = section' /\ shown.mode \in Modes \cup {"none"}
      /\ shown.bounds = NoBounds
  <2>1. IsCanvas(Blank) /\ Blank.section = NoSection /\ Blank.mode = "none"
        /\ Blank.bounds = NoBounds
    BY DEF IsCanvas, Blank
  <2>2. ASSUME NEW f, f \in {Fresh(section', settings'),
                             [Fresh(section', settings') EXCEPT !.colormap = c.colormap]}
        PROVE  /\ IsCanvas(f) /\ f.section = section' /\ f.mode = settings'.mode
               /\ f.bounds = NoBounds
    BY <2>2 DEF Fresh, IsCanvas
  <2>3. shown \in {Blank, Fresh(section', settings'),
                   [Fresh(section', settings') EXCEPT !.colormap = c.colormap]}
        /\ (section' = NoSection <=> shown = Blank)
    <3>1. Fresh(section', settings').section = section'
      BY DEF Fresh
    <3>2. [Fresh(section', settings') EXCEPT !.colormap = c.colormap].section = section'
      BY DEF Fresh
    <3> QED BY <2>1, <3>1, <3>2 DEF ShowSection, Reused
  <2>4. settings'.mode \in Modes
    OBVIOUS
  <2> HIDE DEF shown
  <2>5. CASE shown = Blank
    BY <2>1, <2>3, <2>5
  <2>6. CASE shown # Blank
    BY <2>2, <2>3, <2>4, <2>6
  <2> QED BY <2>5, <2>6
<1>2. canvas' = DrawRegion(shown, region')
  BY DEF Redrawn
<1> HIDE DEF shown
<1>3. CanvasTypes(shown)
  BY <1>1 DEF CanvasTypes
<1>4. CanvasTypes(canvas')
  BY <1>1, <1>2, <1>3, RegionDrawnTypes
<1> QED BY <1>4

LEMMA WindowRedrawnTypes ==
    ASSUME NEW w, IsWindow(w), w.renderer \in Renderers, w.open \in BOOLEAN,
           IsSpectral(w.regional), window' = WindowRedrawn(w)
    PROVE  WindowTypes'
<1> DEFINE how == [w.look EXCEPT !.response = @ /\ w.regional # NoRegion]
<1>1. how \in Looks
  BY DEF IsWindow, Looks
<1> HIDE DEF how
<1>2. WindowPlot(w) = [of |-> w.regional, look |-> how]
  BY DEF WindowPlot, Displayed, how
<1>3. WindowRedrawn(w) = [open |-> w.open, regional |-> w.regional, renderer |-> w.renderer,
                          look |-> w.look, plot |-> WindowPlot(w)]
  BY DEF WindowRedrawn, IsWindow
<1>4. /\ window'.open = w.open /\ window'.regional = w.regional
      /\ window'.renderer = w.renderer
      /\ window'.plot.of = w.regional /\ window'.plot.look = how
  BY <1>2, <1>3
<1> QED BY <1>1, <1>4 DEF WindowTypes

LEMMA RefreshTypes ==
    ASSUME SInv, STypes, NEW how \in Looks, RefreshSpectrum(how), IsSpectral(regional')
    PROVE  PanelTypes' /\ WindowTypes'
<1>1. display' = [of |-> regional', look |-> how] /\ plot' = display'
  BY DEF RefreshSpectrum, Displayed
<1>2. PanelTypes'
  BY <1>1 DEF PanelTypes
<1>3. CASE window.open
  <2> DEFINE w == [window EXCEPT !.regional = regional']
  <2>1. w = [open |-> window.open, regional |-> regional', renderer |-> window.renderer,
             look |-> window.look, plot |-> window.plot]
    BY DEF SInv, ScreenFields, IsWindow
  <2>2. IsWindow(w) /\ w.renderer \in Renderers /\ w.open \in BOOLEAN /\ IsSpectral(w.regional)
    BY <2>1 DEF SInv, ScreenFields, IsWindow, STypes, WindowTypes
  <2>3. window' = WindowRedrawn(w)
    BY <1>3 DEF RefreshSpectrum
  <2> HIDE DEF w
  <2> QED BY <1>2, <2>2, <2>3, WindowRedrawnTypes
<1>4. CASE ~window.open
  <2>1. window' = window
    BY <1>4 DEF RefreshSpectrum
  <2> QED BY <1>2, <2>1 DEF STypes, WindowTypes
<1> QED BY <1>3, <1>4

LEMMA StaysTypes ==
    ASSUME STypes, ScreenStays
    PROVE  STypes'
BY DEF ScreenStays, screenVars, STypes, CanvasTypes, PanelTypes, WindowTypes

\* The region and the spectrum have gone, a boundary has been chosen, or a
\* section or a spectrum has come.
LEMMA DrawingTypes ==
    ASSUME SInv, SInv', STypes, DTypes',
           ScreenCleared \/ ScreenSelected \/ ScreenLoaded \/ ScreenSpectrum
    PROVE  STypes'
<1>1. RefreshSpectrum(look) /\ UNCHANGED <<settings, renderer, look, changes>>
  BY DEF ScreenCleared, ScreenSelected, ScreenLoaded, ScreenSpectrum
<1>2. PanelTypes' /\ WindowTypes'
  BY <1>1, RefreshTypes DEF SInv, ScreenFields, DTypes
<1>3. IsRegion(region') /\ IsRegion(NoRegion) /\ section' \in Sections
  BY DEF DTypes, IsRegion
<1>4. IsCanvas(canvas) /\ CanvasTypes(canvas)
  BY DEF SInv, ScreenFields, STypes
<1>5. CanvasTypes(canvas')
  <2>1. CASE ScreenCleared
    BY <1>3, <1>4, <2>1, RegionDrawnTypes DEF ScreenCleared
  <2>2. CASE ScreenSelected
    BY <1>3, <1>4, <2>2, RegionDrawnTypes DEF ScreenSelected
  <2>3. CASE ScreenLoaded
    <3>1. canvas' = Redrawn(canvas, renderer, settings')
      BY <1>1, <2>3 DEF ScreenLoaded
    <3>2. settings' \in [mode : Modes, wiggle : BOOLEAN, colormap : Colormaps]
      BY DEF SInv, ScreenFields
    <3>3. CanvasTypes(canvas)'
      BY <1>3, <3>1, <3>2, AllDrawnTypes
    <3> QED BY <3>3
  <2>4. CASE ScreenSpectrum
    BY <1>4, <2>4 DEF ScreenSpectrum
  <2> QED BY <2>1, <2>2, <2>3, <2>4
<1> QED BY <1>1, <1>2, <1>5 DEF STypes

LEMMA UserDrawsTypes ==
    ASSUME SInv, SInv', STypes, DTypes, DTypes', ScreenUser
    PROVE  STypes'
<1>1. ASSUME NEW l \in Lines, ScreenChooseLine(l) PROVE STypes'
  BY <1>1, DrawingTypes, StaysTypes DEF ScreenChooseLine
<1>2. ASSUME NEW o \in Orientations, ScreenChangeOrientation(o) PROVE STypes'
  BY <1>2, DrawingTypes, StaysTypes DEF ScreenChangeOrientation
<1>3. ASSUME NEW p \in Positions, ScreenClick(p) PROVE STypes'
  BY <1>3, DrawingTypes, StaysTypes DEF ScreenClick
<1>4. IsSpectral(NoRegion) /\ IsRegion(NoRegion)
  BY DEF IsSpectral, IsRegion
<1>5. /\ NoPlot.look \in Looks /\ NoPlot.of = NoRegion
      /\ NoWindow.renderer \in Renderers /\ NoWindow.open = FALSE
      /\ NoWindow.regional = NoRegion /\ NoWindow.plot = NoPlot
  BY DEF NoPlot, NoWindow, Looks, Renderers
<1>6. ASSUME Presents
      PROVE  /\ UNCHANGED <<section, region, regional, open>> /\ open
             /\ changes' \in 0 .. MaxChanges
  <2>1. changes' \in 0 .. MaxChanges
    BY <1>6, ChunkAssumption DEF Presents, STypes
  <2> QED BY <1>6, <2>1 DEF Presents, vars, viewVars, regionVars
<1>7. CASE ScreenClose
  <2>1. /\ canvas' = Blank /\ plot' = NoPlot /\ window' = NoWindow
        /\ UNCHANGED <<renderer, display, changes>>
    BY <1>7 DEF ScreenClose
  <2>2. CanvasTypes(canvas)'
    BY <2>1 DEF CanvasTypes, Blank, Sections
  <2>3. PanelTypes' /\ WindowTypes'
    BY <1>4, <1>5, <2>1 DEF STypes, PanelTypes, WindowTypes
  <2> QED BY <2>1, <2>2, <2>3 DEF STypes
<1>8. section' \in Sections /\ IsRegion(region') /\ IsSpectral(regional')
      /\ settings' \in [mode : Modes, wiggle : BOOLEAN, colormap : Colormaps]
      /\ look \in Looks /\ look' \in Looks
  BY DEF DTypes, SInv, ScreenFields
<1>9. CASE ChangeSettings
  <2>1. /\ canvas' = Redrawn(canvas, renderer, settings')
        /\ UNCHANGED <<renderer, display, plot, window>> /\ changes' \in 0 .. MaxChanges
    BY <1>6, <1>9 DEF ChangeSettings
  <2>2. CanvasTypes(canvas)'
    BY <1>8, <2>1, AllDrawnTypes
  <2> QED BY <2>1, <2>2 DEF STypes, PanelTypes, WindowTypes
<1>10. CASE ChangeRenderer
  <2>1. /\ canvas' = Redrawn(Blank, renderer', settings')
        /\ UNCHANGED <<display, window, look>> /\ changes' \in 0 .. MaxChanges
        /\ renderer' \in Renderers
        /\ plot' = [display EXCEPT !.look.response = look.response]
    BY <1>6, <1>10 DEF ChangeRenderer
  <2>2. plot' = display
    BY <1>6, <1>8, <1>10, <2>1 DEF ChangeRenderer, SInv, HandedOver, Displayed, Looks
  <2>3. CanvasTypes(canvas)'
    BY <1>8, <2>1, AllDrawnTypes
  <2> QED BY <2>1, <2>2, <2>3 DEF STypes, PanelTypes, WindowTypes
<1>11. CASE ChangeLook
  <2>1. RefreshSpectrum(look') /\ UNCHANGED <<renderer, canvas>> /\ changes' \in 0 .. MaxChanges
    BY <1>6, <1>11 DEF ChangeLook
  <2>2. PanelTypes' /\ WindowTypes'
    BY <1>8, <2>1, RefreshTypes
  <2> QED BY <2>1, <2>2 DEF STypes, CanvasTypes
<1>12. ASSUME UNCHANGED <<renderer, canvas, display, plot>>, Presents, WindowTypes'
       PROVE  STypes'
  BY <1>6, <1>12 DEF STypes, CanvasTypes, PanelTypes
<1>13. CASE OpenWindow
  <2> DEFINE w == [open |-> TRUE, regional |-> regional, renderer |-> renderer,
                   look |-> [scale |-> look.scale, response |-> FALSE], plot |-> NoPlot]
  <2>1. IsWindow(w) /\ w.open = TRUE /\ w.regional = regional /\ w.renderer = renderer
    <3>1. w.look \in Looks
      BY <1>8 DEF Looks
    <3> QED BY <3>1 DEF IsWindow
  <2>2. window' = WindowRedrawn(w)
    BY <1>13 DEF OpenWindow
  <2> HIDE DEF w
  <2>3. WindowTypes'
    BY <2>1, <2>2, WindowRedrawnTypes DEF STypes, DTypes
  <2> QED BY <1>12, <1>13, <2>3 DEF OpenWindow
<1>14. CASE ChangeWindow
  <2>1. ASSUME NEW w, window' = WindowRedrawn(w), NEW how \in Looks, NEW name \in Renderers,
               w = [open |-> window.open, regional |-> window.regional, renderer |-> name,
                    look |-> how, plot |-> window.plot]
        PROVE  WindowTypes'
    <3>1. IsWindow(w) /\ w.open \in BOOLEAN /\ IsSpectral(w.regional) /\ w.renderer = name
      BY <2>1 DEF IsWindow, STypes, WindowTypes
    <3> QED BY <2>1, <3>1, WindowRedrawnTypes
  <2>2. /\ window = [open |-> window.open, regional |-> window.regional,
                     renderer |-> window.renderer, look |-> window.look, plot |-> window.plot]
        /\ window.look \in Looks /\ window.renderer \in Renderers
    BY DEF SInv, ScreenFields, IsWindow, STypes, WindowTypes
  <2>3. CASE \E how \in Looks \ {window.look} :
               window' = WindowRedrawn([window EXCEPT !.look = how])
    <3>1. PICK how \in Looks : window' = WindowRedrawn([window EXCEPT !.look = how])
      BY <2>3
    <3>2. [window EXCEPT !.look = how]
            = [open |-> window.open, regional |-> window.regional,
               renderer |-> window.renderer, look |-> how, plot |-> window.plot]
      BY <2>2
    <3>3. WindowTypes'
      BY <2>1, <2>2, <3>1, <3>2
    <3> QED BY <1>12, <1>14, <3>3 DEF ChangeWindow
  <2>4. CASE \E name \in Renderers \ {window.renderer} :
               window' = WindowRedrawn([window EXCEPT !.renderer = name])
    <3>1. PICK name \in Renderers : window' = WindowRedrawn([window EXCEPT !.renderer = name])
      BY <2>4
    <3>2. [window EXCEPT !.renderer = name]
            = [open |-> window.open, regional |-> window.regional, renderer |-> name,
               look |-> window.look, plot |-> window.plot]
      BY <2>2
    <3>3. WindowTypes'
      BY <2>1, <2>2, <3>1, <3>2
    <3> QED BY <1>12, <1>14, <3>3 DEF ChangeWindow
  <2> QED BY <1>14, <2>3, <2>4 DEF ChangeWindow
<1>15. CASE CloseWindow
  <2>1. WindowTypes'
    BY <1>4, <1>5, <1>15 DEF CloseWindow, WindowTypes
  <2> QED BY <1>12, <1>15, <2>1 DEF CloseWindow
<1> QED
  BY <1>1, <1>2, <1>3, <1>7, <1>9, <1>10, <1>11, <1>13, <1>14, <1>15 DEF ScreenUser

LEMMA ScreenTypes ==
    ASSUME DInv, SInv, SInv', STypes, DTypes, DTypes', [ScreenNext]_allVars
    PROVE  STypes'
<1>1. CASE ScreenWorker
  BY <1>1, StaysTypes DEF ScreenWorker
<1>2. CASE UNCHANGED allVars
  BY <1>2, StaysTypes DEF allVars, ScreenStays
<1>3. CASE ScreenHandler
  BY <1>3, StaysTypes, DrawingTypes
  DEF ScreenHandler, ScreenOnSection, ScreenOnRegional, ScreenOnRegionalFailed, ScreenOnFinished
<1> QED BY <1>1, <1>2, <1>3, UserDrawsTypes DEF ScreenNext

LEMMA ScreenTypesInitially == ASSUME ScreenInit PROVE STypes
<1>1. IsSpectral(NoRegion)
  BY DEF IsSpectral, IsRegion
<1>2. CanvasTypes(canvas)
  BY DEF ScreenInit, CanvasTypes, Blank, Sections
<1>3. PanelTypes /\ WindowTypes
  BY <1>1 DEF ScreenInit, PanelTypes, WindowTypes, NoPlot, NoWindow, Looks, Renderers
<1> QED BY <1>2, <1>3, ChunkAssumption DEF ScreenInit, STypes, Renderers

\* The types of the dialog and of what is drawn, beside the two invariants.
THEOREM ScreenTypeInvariant == ScreenSpec => [](DTypes /\ STypes)
<1>1. ScreenInit => DTypes /\ STypes
  BY TypesInitially, ScreenTypesInitially DEF ScreenInit
<1>2. DInv /\ SInv /\ (DInv /\ SInv)' /\ DTypes /\ STypes /\ [ScreenNext]_allVars
        => (DTypes /\ STypes)'
  <2> SUFFICES ASSUME DInv, SInv, SInv', DTypes, STypes, [ScreenNext]_allVars
               PROVE  DTypes' /\ STypes'
    OBVIOUS
  <2>1. DTypes'
    BY DialogIsKept, DialogTypes
  <2> QED BY <2>1, ScreenTypes
<1> QED BY <1>1, <1>2, ScreenInvariant, PTL DEF ScreenSpec

\* Every variable of the viewer has its type: no more than two signals are ever
\* queued, every section shown is one of the survey that was asked for, and
\* every region that is analysed or drawn lies on its axis, bounds in order.
THEOREM ScreenTypeCorrect == ScreenSpec => []ScreenTypeOK
<1>1. ASSUME DInv, SInv, DTypes, STypes PROVE ScreenTypeOK
  <2>1. Len(events) <= 2
    <3>1. \/ events = <<>> \/ events = <<Signal("result"), Signal("quit")>>
          \/ events = <<Signal("quit")>> \/ events = <<Signal("finished")>>
      BY <1>1 DEF DInv, Slot, Queue
    <3>2. PICK n \in 0 .. 2 : Len(events) = n
      BY <3>1, QueueFacts
    <3>3. n <= 2
      OBVIOUS
    <3> QED BY <3>2, <3>3, Zenon
  <2>2. TypeOK
    <3>1. IsRegion(region) /\ IsRegion(regional) /\ IsRegion(worker.region)
      BY <1>1 DEF DTypes, IsSpectral
    <3>2. {start, pendingClick} \subseteq Positions \cup {0}
          /\ {nav, failed, pendingLine, open, aborted} \subseteq BOOLEAN
      BY <1>1 DEF DTypes, DInv, Slot
    <3>3. /\ orientation \in Orientations
          /\ worker.kind \in {"none", "index", "section", "region"}
          /\ phase \in {"none", "starting", "emitted", "quitting", "over"}
      BY <1>1 DEF DInv, Control, Slot
    <3> QED BY <1>1, <2>1, <3>1, <3>2, <3>3 DEF DTypes, TypeOK
  <2>3. \A r \in {display.of, plot.of, window.regional, window.plot.of} : IsRegion(r)
    BY <1>1 DEF STypes, PanelTypes, WindowTypes, IsSpectral
  <2>4. {look, display.look, plot.look, window.look, window.plot.look} \subseteq Looks
    BY <1>1 DEF STypes, PanelTypes, WindowTypes, SInv, ScreenFields, IsWindow
  <2> QED
    BY <1>1, <2>2, <2>3, <2>4
    DEF STypes, PanelTypes, WindowTypes, CanvasTypes, SInv, ScreenFields, ScreenTypeOK
<1> QED BY <1>1, ScreenInvariant, ScreenTypeInvariant, PTL

-----------------------------------------------------------------------------
(* The spectrum of a region.                                               *)

\* A finite set of numbers can be listed in their order.
LEMMA InOrder ==
    ASSUME NEW S, S \subseteq Nat, IsFiniteSet(S)
    PROVE  \E rows \in [1 .. Cardinality(S) -> S] :
             \A i, j \in 1 .. Cardinality(S) : i < j => rows[i] < rows[j]
<1> DEFINE n       == Cardinality(S)
           upTo(p) == {q \in S : q <= p}
           rank    == [p \in S |-> Cardinality(upTo(p))]
<1>1. n \in Nat
  BY FS_CardinalityType
<1>2. ASSUME NEW p \in S
      PROVE  /\ IsFiniteSet(upTo(p)) /\ Cardinality(upTo(p)) \in 1 .. n
  <2>1. upTo(p) \subseteq S /\ p \in upTo(p)
    OBVIOUS
  <2>2. IsFiniteSet(upTo(p)) /\ Cardinality(upTo(p)) <= n
    BY <2>1, FS_Subset
  <2>3. Cardinality(upTo(p)) \in Nat /\ Cardinality(upTo(p)) # 0
    BY <2>1, <2>2, FS_CardinalityType, FS_EmptySet
  <2> HIDE DEF upTo, n
  <2> QED BY <1>1, <2>2, <2>3
<1>3. ASSUME NEW p \in S, NEW q \in S, p < q
      PROVE  Cardinality(upTo(p)) < Cardinality(upTo(q))
  <2>1. upTo(p) \subseteq upTo(q) /\ q \in upTo(q) /\ q \notin upTo(p)
    <3>1. p \in Nat /\ q \in Nat /\ \A s \in S : s \in Nat
      OBVIOUS
    <3>2. \A s \in S : s <= p => s <= q
      BY <1>3, <3>1
    <3>3. q <= q /\ ~(q <= p)
      BY <1>3, <3>1
    <3> QED BY <3>2, <3>3
  <2>2. upTo(p) # upTo(q) /\ IsFiniteSet(upTo(q)) /\ upTo(p) \in SUBSET upTo(q)
    BY <1>2, <2>1
  <2>3. /\ Cardinality(upTo(p)) <= Cardinality(upTo(q))
        /\ Cardinality(upTo(p)) # Cardinality(upTo(q))
    <3> HIDE DEF upTo
    <3> QED BY <2>2, FS_Subset
  <2>4. Cardinality(upTo(p)) \in Nat /\ Cardinality(upTo(q)) \in Nat
    BY <1>2
  <2> HIDE DEF upTo
  <2> QED BY <2>3, <2>4
<1>4. rank \in [S -> 1 .. n] /\ \A p \in S : rank[p] \in Nat
  <2> HIDE DEF upTo, n
  <2> QED BY <1>2
<1>5. \A p, q \in S : p < q => rank[p] < rank[q]
  <2> HIDE DEF upTo
  <2> QED BY <1>3
<1> HIDE DEF rank
<1>6. \A p, q \in S : rank[p] = rank[q] => p = q
  BY <1>4, <1>5
<1>7. rank \in Injection(S, 1 .. n)
  BY <1>4, <1>6 DEF Injection, IsInjective
<1>8. IsFiniteSet(1 .. n) /\ Cardinality(1 .. n) = n
  <2>1. IsFiniteSet(1 .. n) /\ Cardinality(1 .. n) = IF 1 > n THEN 0 ELSE n - 1 + 1
    BY <1>1, FS_Interval
  <2> HIDE DEF n
  <2> QED BY <1>1, <2>1
<1>9. rank \in Surjection(S, 1 .. n)
  BY <1>7, <1>8, FS_Injection
<1>10. \A k \in 1 .. n : \E p \in S : rank[p] = k
  BY <1>9 DEF Surjection
<1> DEFINE rows == [k \in 1 .. n |-> CHOOSE p \in S : rank[p] = k]
<1>11. ASSUME NEW k \in 1 .. n PROVE rows[k] \in S /\ rank[rows[k]] = k
  BY <1>10
<1>12. rows \in [1 .. n -> S]
  BY <1>11
<1>13. ASSUME NEW i \in 1 .. n, NEW j \in 1 .. n, i < j PROVE rows[i] < rows[j]
  <2>1. /\ rows[i] \in S /\ rows[j] \in S /\ rank[rows[i]] = i /\ rank[rows[j]] = j
        /\ i \in Nat /\ j \in Nat
    BY <1>1, <1>11
  <2>2. rows[i] \in Nat /\ rows[j] \in Nat
    BY <2>1
  <2> HIDE DEF rows
  <2>3. ~(rows[j] < rows[i])
    <3>1. ~(j < i)
      BY <1>13, <2>1
    <3> QED BY <1>5, <2>1, <3>1
  <2>4. rows[j] # rows[i]
    BY <1>13, <2>1
  <2> QED BY <2>2, <2>3, <2>4
<1> HIDE DEF rows
<1> QED BY <1>12, <1>13

\* Each row falls into exactly one batch.
LEMMA OneBatch ==
    ASSUME NEW rows, Len(rows) \in Nat, NEW k \in 1 .. Len(rows)
    PROVE  Cardinality({i \in Starts(rows) : i < k /\ k <= BatchStop(i, rows)}) = 1
<1> DEFINE n       == Len(rows)
           size    == ChunkTraces
           batches == {i \in Starts(rows) : i < k /\ k <= BatchStop(i, rows)}
           i0      == size * ((k - 1) \div size)
<1>1. size \in Nat \ {0} /\ n \in Nat /\ k \in Nat /\ 1 <= k /\ k <= n
  BY ChunkAssumption
<1> HIDE DEF size, n
<1>2. ASSUME NEW i \in Nat
      PROVE  /\ i \div size \in Nat /\ i % size \in 0 .. size - 1
             /\ i = size * (i \div size) + (i % size)
  <2>1. i \div size \in Nat /\ i % size \in 0 .. size - 1
    BY <1>1
  <2>2. i = size * (i \div size) + (i % size)
    BY <1>1, Z3
  <2> QED BY <2>1, <2>2
<1>3. i0 \in Nat /\ i0 <= k - 1 /\ k - 1 < i0 + size
  <2>1. k - 1 \in Nat
    BY <1>1
  <2>2. /\ (k - 1) \div size \in Nat /\ (k - 1) % size \in 0 .. size - 1
        /\ k - 1 = i0 + ((k - 1) % size)
    BY <1>2, <2>1
  <2>3. i0 \in Nat
    BY <1>1, <2>2
  <2> HIDE DEF i0
  <2> QED BY <1>1, <2>1, <2>2, <2>3
<1>4. i0 % size = 0
  <2>1. (k - 1) \div size \in Nat
    <3>1. k - 1 \in Nat
      BY <1>1
    <3> QED BY <1>2, <3>1
  <2> QED BY <1>1, <2>1, Z3
<1> HIDE DEF i0
<1>5. i0 \in batches
  BY <1>1, <1>3, <1>4 DEF Starts, BatchStop, size, n
<1>6. ASSUME NEW i \in batches PROVE i = i0
  <2>1. i \in Nat /\ i % size = 0 /\ i < k /\ k <= i + size
    BY <1>1, <1>6 DEF Starts, BatchStop, size, n
  <2> DEFINE a == i \div size
             b == i0 \div size
  <2>2. a \in Nat /\ b \in Nat /\ i = size * a /\ i0 = size * b
    <3>1. a \in Nat /\ i = size * a + 0
      BY <1>2, <2>1
    <3>2. b \in Nat /\ i0 = size * b + 0
      BY <1>2, <1>3, <1>4
    <3> QED BY <1>1, <3>1, <3>2
  <2> HIDE DEF a, b
  <2>3. ASSUME NEW x \in Nat, NEW y \in Nat, x < y PROVE size * x + size <= size * y
    <3>1. PICK z \in Nat : y = x + 1 + z
      <4>1. y - x - 1 \in Nat /\ y = x + 1 + (y - x - 1)
        BY <2>3
      <4> QED BY <4>1
    <3>2. size * y = size * x + size + size * z /\ size * z \in Nat
      BY <1>1, <3>1
    <3> QED BY <1>1, <3>2
  <2>4. ~(a < b)
    BY <1>1, <1>3, <2>1, <2>2, <2>3
  <2>5. ~(b < a)
    BY <1>1, <1>3, <2>1, <2>2, <2>3
  <2> QED BY <2>2, <2>4, <2>5
<1>7. batches = {i0}
  <2> HIDE DEF batches
  <2> QED BY <1>5, <1>6
<1> QED BY <1>7, FS_Singleton

\* The traces of a region that resolve() finds, in order.
LEMMA ResolvedRows ==
    ASSUME NEW r, IsRegion(r), r # NoRegion
    PROVE  /\ IsFiniteSet(Inside(r)) /\ Cardinality(Inside(r)) \in Nat
           /\ Resolved(r) \in [1 .. Cardinality(Inside(r)) -> Inside(r)]
           /\ Len(Resolved(r)) = Cardinality(Inside(r))
           /\ \A i, j \in 1 .. Cardinality(Inside(r)) :
                i < j => Resolved(r)[i] < Resolved(r)[j]
<1> DEFINE S == Inside(r)
           n == Cardinality(S)
           ordered(rows) == \A i, j \in DOMAIN rows : i < j => rows[i] < rows[j]
<1>1. r.lo \in Nat /\ r.hi \in Nat
  BY PositionsAssumption DEF IsRegion
<1>2. S \subseteq Nat /\ S \subseteq r.lo .. r.hi
  <2>1. ASSUME NEW p \in S PROVE p \in Nat /\ p \in r.lo .. r.hi
    <3>1. p \in Positions /\ r.lo <= p /\ p <= r.hi
      BY <2>1 DEF Inside
    <3>2. p \in Nat
      BY <3>1, PositionsAssumption
    <3> QED BY <1>1, <3>1, <3>2
  <2> QED BY <2>1
<1>3. IsFiniteSet(S) /\ n \in Nat
  <2>1. IsFiniteSet(r.lo .. r.hi)
    BY <1>1, FS_Interval
  <2>2. IsFiniteSet(S)
    BY <1>2, <2>1, FS_Subset
  <2> QED BY <2>2, FS_CardinalityType
<1> HIDE DEF S
<1>4. PICK rows \in [1 .. n -> S] : \A i, j \in 1 .. n : i < j => rows[i] < rows[j]
  BY <1>2, <1>3, InOrder
<1>5. \E s \in [1 .. n -> S] : ordered(s)
  BY <1>4
<1>6. Resolved(r) = CHOOSE s \in [1 .. n -> S] : ordered(s)
  BY DEF Resolved, S
<1> HIDE DEF ordered
<1>7. Resolved(r) \in [1 .. n -> S] /\ ordered(Resolved(r))
  BY <1>5, <1>6
<1> DEFINE s == Resolved(r)
<1> HIDE DEF s, n
<1>8. s \in [1 .. n -> S] /\ DOMAIN s = 1 .. n /\ n \in Nat /\ ordered(s)
  BY <1>3, <1>7 DEF s, n
<1>9. s \in Seq(S) /\ Len(s) = n
  BY <1>8
<1>10. \A i, j \in 1 .. n : i < j => s[i] < s[j]
  BY <1>8 DEF ordered
<1> QED BY <1>3, <1>8, <1>9, <1>10 DEF s, n, S

\* What regional_spectrum() adds up and divides by, for a valid region.
LEMMA EachTraceOnce ==
    ASSUME NEW r, IsSpectral(r), r # NoRegion
    PROVE  /\ Summed(r).times = [p \in Positions |-> IF p \in Inside(r) THEN 1 ELSE 0]
           /\ Summed(r).count = Cardinality(Inside(r)) /\ Summed(r).count > 0
           /\ IF Summed(r).count = 1 THEN Summed(r).waveform \in Inside(r)
                                     ELSE Summed(r).waveform = 0
<1> DEFINE S       == Inside(r)
           n       == Cardinality(S)
           rows    == Resolved(r)
           into(k) == Cardinality({i \in Starts(rows) : i < k /\ k <= BatchStop(i, rows)})
           at(p)   == IF \E k \in DOMAIN rows : rows[k] = p
                      THEN into(CHOOSE k \in DOMAIN rows : rows[k] = p) ELSE 0
<1>1. Summed(r) = [times    |-> [p \in Positions |-> at(p)],
                   count    |-> Len(rows),
                   waveform |-> IF Len(rows) = 1 THEN rows[1] ELSE 0]
  BY DEF Summed
<1>2. /\ IsFiniteSet(S) /\ n \in Nat /\ rows \in [1 .. n -> S] /\ Len(rows) = n
      /\ \A i, j \in 1 .. n : i < j => rows[i] < rows[j]
  BY ResolvedRows DEF IsSpectral
<1>3. S # {} /\ S \subseteq Positions /\ S \subseteq Nat
  BY PositionsAssumption DEF IsSpectral, IsValid, Inside
<1>4. \A k \in 1 .. n : into(k) = 1
  <2> HIDE DEF rows, S
  <2> QED BY <1>2, OneBatch
<1> HIDE DEF S, rows, into
<1>5. n > 0
  BY <1>2, <1>3, FS_EmptySet
<1>6. \A p \in S : \E k \in 1 .. n : rows[k] = p
  <2>1. \A i, j \in 1 .. n : rows[i] = rows[j] => i = j
    <3> SUFFICES ASSUME NEW i \in 1 .. n, NEW j \in 1 .. n, rows[i] = rows[j]
                 PROVE  i = j
      OBVIOUS
    <3>1. rows[i] \in Nat /\ i \in Nat /\ j \in Nat
      <4>1. rows[i] \in S
        BY <1>2
      <4>2. rows[i] \in Nat
        BY <1>3, <4>1
      <4>3. i \in Nat /\ j \in Nat
        OBVIOUS
      <4> QED BY <4>2, <4>3
    <3>2. ~(rows[i] < rows[j]) /\ ~(rows[j] < rows[i])
      BY <3>1
    <3>3. ~(i < j) /\ ~(j < i)
      BY <1>2, <3>2
    <3> QED BY <3>1, <3>3
  <2>2. rows \in Injection(1 .. n, S)
    BY <1>2, <2>1 DEF Injection, IsInjective
  <2>3. IsFiniteSet(1 .. n) /\ Cardinality(1 .. n) = n
    <3>1. IsFiniteSet(1 .. n) /\ Cardinality(1 .. n) = IF 1 > n THEN 0 ELSE n - 1 + 1
      BY <1>2, FS_Interval
    <3> HIDE DEF n
    <3> QED BY <1>2, <3>1
  <2>4. rows \in Surjection(1 .. n, S)
    BY <1>2, <2>2, <2>3, FS_Injection
  <2> QED BY <2>4 DEF Surjection
<1>7. ASSUME NEW p \in Positions PROVE at(p) = IF p \in S THEN 1 ELSE 0
  <2>1. DOMAIN rows = 1 .. n
    BY <1>2
  <2>2. CASE p \in S
    <3> DEFINE found == CHOOSE k \in 1 .. n : rows[k] = p
    <3>1. found \in 1 .. n /\ \E k \in 1 .. n : rows[k] = p
      BY <1>6, <2>2
    <3>2. at(p) = into(found)
      BY <2>1, <3>1
    <3> QED BY <1>4, <2>2, <3>1, <3>2
  <2>3. CASE p \notin S
    <3>1. ~\E k \in DOMAIN rows : rows[k] = p
      BY <1>2, <2>1, <2>3
    <3> QED BY <2>3, <3>1
  <2> QED BY <2>2, <2>3
<1> HIDE DEF at
<1>8. Summed(r).times = [p \in Positions |-> IF p \in S THEN 1 ELSE 0]
  BY <1>1, <1>7
<1>9. Summed(r).count = n /\ Summed(r).waveform = IF n = 1 THEN rows[1] ELSE 0
  BY <1>1, <1>2
<1>10. n = 1 => rows[1] \in S
  BY <1>2
<1> QED BY <1>5, <1>8, <1>9, <1>10 DEF S

\* The spectrum that is shown is the mean over all traces of its region, each
\* of them counted once, and divided by a number that is never 0.
THEOREM SpectrumIsOfEachTrace == ScreenSpec => []SpectrumCountsEachTraceOnce
<1>1. ASSUME STypes PROVE SpectrumCountsEachTraceOnce
  <2> SUFFICES ASSUME plot.of # NoRegion
               PROVE  LET sums == Summed(plot.of) inside == Inside(plot.of)
                      IN /\ sums.times = [p \in Positions |-> IF p \in inside THEN 1 ELSE 0]
                         /\ sums.count = Cardinality(inside) /\ sums.count > 0
                         /\ IF sums.count = 1 THEN sums.waveform \in inside
                                              ELSE sums.waveform = 0
    BY DEF SpectrumCountsEachTraceOnce, Inside
  <2>1. IsSpectral(plot.of)
    BY <1>1 DEF STypes, PanelTypes
  <2> QED BY <2>1, EachTraceOnce
<1> QED BY <1>1, ScreenTypeInvariant, PTL
=============================================================================
