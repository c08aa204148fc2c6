----------------------------- MODULE ViewerScreen -----------------------------
(***************************************************************************)
(* What a SeismicViewer shows: ui/seismic_viewer.py (renderer lifecycle,   *)
(* drawing, spectrum panel), the section renderers, the spectrum renderers *)
(* and ui/region_spectrum_window.py, over the dialog of SeismicViewer.     *)
(*                                                                         *)
(* The renderers hold what they drew last, and each handler says itself    *)
(* what is to be drawn again; nothing is bound.  A renderer is exchanged,  *)
(* a setting changed or the detached window opened and closed at any time, *)
(* also while a worker runs.                                               *)
(*                                                                         *)
(* Gain, clip and the visibility of the two magnitude curves are left out: *)
(* they are handed over with the mode and the response.                    *)
(***************************************************************************)
EXTENDS SeismicViewer, FiniteSets

CONSTANTS
    Colormaps,      \* names of colormaps
    ChunkTraces,    \* chunk_traces of regional_spectrum()
    MaxChanges      \* bound: changes of what only concerns the presentation

ASSUME ColormapsAssumption == Colormaps # {}
ASSUME ChunkAssumption     == ChunkTraces \in Nat \ {0} /\ MaxChanges \in Nat

VARIABLES
    settings,   \* mode, wiggle and colormap of the controls
    renderer,   \* the renderer combo box: the family installed
    canvas,     \* what the section renderer has drawn
    look,       \* scale and response of the spectrum panel's controls
    display,    \* _display: the spectrum transformed
    plot,       \* what the panel's spectrum renderer has drawn
    window,     \* _region_window
    changes     \* changes made

screenVars == <<settings, renderer, canvas, look, display, plot, window, changes>>
allVars    == <<vars, screenVars>>

Modes     == {"Original", "Filtered", "Side-by-side"}
Renderers == {"PyQtGraph", "Matplotlib"}
Looks     == [scale : {"Linear", "dB"}, response : BOOLEAN]
NoBounds  == <<>>
Blank     == [section |-> NoSection, mode |-> "none", wiggle |-> FALSE, colormap |-> "none",
              bounds |-> NoBounds]

-----------------------------------------------------------------------------
(* regional_spectrum().                                                    *)

\* The positions of a region that have a trace.
Inside(r) == {p \in Positions \ Gaps : r.lo <= p /\ p <= r.hi}

\* resolve(): all of them, in the order of the axis.
Resolved(r) ==
    CHOOSE rows \in [1 .. Cardinality(Inside(r)) -> Inside(r)] :
        \A i, j \in DOMAIN rows : i < j => rows[i] < rows[j]

BadBatchStop(first, rows) == first + ChunkTraces + 1   \* one row of the next batch

\* rows[start : start + chunk_traces], which ends where the rows do.
BatchStop(first, rows) ==
    IF first + ChunkTraces <= Len(rows) THEN first + ChunkTraces ELSE Len(rows)

Starts(rows) == {i \in 0 .. Len(rows) - 1 : i % ChunkTraces = 0}

\* How often each position is added to the sums, and what they are divided by;
\* a single trace has its waveform too.
Summed(r) ==
    LET rows == Resolved(r)
        into(k) == Cardinality({i \in Starts(rows) : i < k /\ k <= BatchStop(i, rows)})
    IN [times    |-> [p \in Positions |->
                        IF \E k \in DOMAIN rows : rows[k] = p
                        THEN into(CHOOSE k \in DOMAIN rows : rows[k] = p) ELSE 0],
        count    |-> Len(rows),
        waveform |-> IF Len(rows) = 1 THEN rows[1] ELSE 0]

-----------------------------------------------------------------------------
(* The section renderers.                                                  *)

\* panels_for_mode().
PanelCount(mode) == IF mode = "Side-by-side" THEN 2 ELSE 1

BadSameLayout(c, set) ==   \* _images_key without the colormap
    c.section # NoSection /\ ~c.wiggle /\ PanelCount(c.mode) = PanelCount(set.mode)

\* _images_key: there are images, as many, of this colormap.
SameLayout(c, set) ==
    /\ c.section # NoSection /\ ~c.wiggle
    /\ PanelCount(c.mode) = PanelCount(set.mode) /\ c.colormap = set.colormap

\* show_section() of PyQtGraph: all is drawn anew.
Fresh(s, set) ==
    [section |-> s, mode |-> set.mode, wiggle |-> set.wiggle, colormap |-> set.colormap,
     bounds |-> NoBounds]

\* show_section() of Matplotlib: images of the same layout are given new data, and
\* keep their colormap.
Reused(c, s, set) ==
    IF ~set.wiggle /\ SameLayout(c, set) THEN [Fresh(s, set) EXCEPT !.colormap = c.colormap]
    ELSE Fresh(s, set)

ShowSection(c, name, s, set) ==
    IF s = NoSection THEN Blank
    ELSE IF name = "Matplotlib" THEN Reused(c, s, set) ELSE Fresh(s, set)

\* _draw_region(): show_region(), or clear_region() without a region.
DrawRegion(c, r) ==
    [c EXCEPT !.bounds = IF r = NoRegion THEN NoBounds ELSE <<r.lo, r.hi>>]

\* _redraw().
Redrawn(c, name, set) == DrawRegion(ShowSection(c, name, section', set), region')

-----------------------------------------------------------------------------
(* The spectrum panel and the detached window.                             *)

NoPlot   == [of |-> NoRegion, look |-> [scale |-> "Linear", response |-> FALSE]]
NoWindow == [open |-> FALSE, regional |-> NoRegion, renderer |-> "PyQtGraph",
             look |-> NoPlot.look, plot |-> NoPlot]

\* regional_spectrum_for_display(), and None for None.
Displayed(r, how) == [of |-> r, look |-> how]

BadWindowPlot(w) ==   \* what was drawn stays when the spectrum goes
    IF w.regional = NoRegion THEN w.plot ELSE Displayed(w.regional, w.look)

\* RegionSpectrumWindow._redraw(): the response is shown if it is selected and
\* its check box is enabled, that is, with a spectrum.
WindowPlot(w) ==
    Displayed(w.regional, [w.look EXCEPT !.response = @ /\ w.regional # NoRegion])

\* set_regional() and what changes in the window.
WindowRedrawn(w) == [w EXCEPT !.plot = WindowPlot(w)]

\* _refresh_spectrum() with the spectrum that the viewer has from now on.
RefreshSpectrum(how) ==
    /\ display' = Displayed(regional', how)
    /\ plot' = display'
    /\ window' = IF window.open THEN WindowRedrawn([window EXCEPT !.regional = regional'])
                                ELSE window

\* _clear_region().
ScreenCleared ==
    /\ canvas' = DrawRegion(canvas, NoRegion)
    /\ RefreshSpectrum(look)
    /\ UNCHANGED <<settings, renderer, look, changes>>

\* select_coordinate() past its guards.
ScreenSelected ==
    /\ canvas' = DrawRegion(canvas, region')
    /\ RefreshSpectrum(look)
    /\ UNCHANGED <<settings, renderer, look, changes>>

\* _on_section_loaded().
ScreenLoaded ==
    /\ canvas' = Redrawn(canvas, renderer, settings)
    /\ RefreshSpectrum(look)
    /\ UNCHANGED <<settings, renderer, look, changes>>

\* _set_regional() alone.
ScreenSpectrum ==
    /\ RefreshSpectrum(look)
    /\ UNCHANGED <<settings, renderer, canvas, look, changes>>

ScreenStays == UNCHANGED screenVars

-----------------------------------------------------------------------------
(* What the user changes of the presentation.                              *)

Presents ==
    /\ open /\ ~aborted
    /\ changes < MaxChanges /\ changes' = changes + 1
    /\ UNCHANGED vars

\* The mode, the wiggle check box or the colormap: _redraw().
ChangeSettings ==
    /\ Presents
    /\ \/ \E m \in Modes \ {settings.mode} : settings' = [settings EXCEPT !.mode = m]
       \/ settings' = [settings EXCEPT !.wiggle = ~@]
       \/ \E c \in Colormaps \ {settings.colormap} : settings' = [settings EXCEPT !.colormap = c]
    /\ canvas' = Redrawn(canvas, renderer, settings')
    /\ UNCHANGED <<renderer, look, display, plot, window>>

\* _on_renderer_changed(): both renderers are disposed of, and the new ones are
\* given the section, the region and the display of now.
ChangeRenderer ==
    /\ Presents
    /\ renderer' \in Renderers \ {renderer}
    /\ canvas' = Redrawn(Blank, renderer', settings)
    /\ plot' = [display EXCEPT !.look.response = look.response]
    /\ UNCHANGED <<settings, look, display, window>>

\* _on_spectrum_settings_changed().
ChangeLook ==
    /\ Presents
    /\ look' \in Looks \ {look}
    /\ RefreshSpectrum(look')
    /\ UNCHANGED <<settings, renderer, canvas>>

\* _open_region_window(), whose button needs a spectrum.
OpenWindow ==
    /\ Presents
    /\ regional # NoRegion /\ ~window.open
    /\ window' = WindowRedrawn(
         [open |-> TRUE, regional |-> regional, renderer |-> renderer,
          look |-> [scale |-> look.scale, response |-> FALSE], plot |-> NoPlot])
    /\ UNCHANGED <<settings, renderer, canvas, look, display, plot>>

\* The window's own controls: _redraw(), or _change_renderer().
ChangeWindow ==
    /\ Presents
    /\ window.open
    /\ \/ \E how \in Looks \ {window.look} :
            /\ how.response # window.look.response => window.regional # NoRegion
            /\ window' = WindowRedrawn([window EXCEPT !.look = how])
       \/ \E name \in Renderers \ {window.renderer} :
            window' = WindowRedrawn([window EXCEPT !.renderer = name])
    /\ UNCHANGED <<settings, renderer, canvas, look, display, plot>>

\* done() of the window, then _on_region_window_closed().
CloseWindow ==
    /\ Presents
    /\ window.open
    /\ window' = NoWindow
    /\ UNCHANGED <<settings, renderer, canvas, look, display, plot>>

-----------------------------------------------------------------------------
(* The dialog's handlers, with what each draws.                            *)

\* _request_line() was called.
LineRequested == loads' # loads

ScreenChooseLine(l) ==
    ChooseLine(l) /\ IF LineRequested THEN ScreenCleared ELSE ScreenStays

ScreenChangeOrientation(o) ==
    ChangeOrientation(o) /\ IF LineRequested THEN ScreenCleared ELSE ScreenStays

ScreenClick(p) ==
    Click(p) /\ IF ThreadFree THEN ScreenSelected ELSE ScreenStays

\* closeEvent(), accepted: the window is closed, the renderers disposed of.
ScreenClose ==
    /\ Close
    /\ canvas' = Blank /\ plot' = NoPlot /\ window' = NoWindow
    /\ UNCHANGED <<settings, renderer, look, display, changes>>

ScreenOnSection ==
    OnSection /\ IF worker.request = pendingSection THEN ScreenLoaded ELSE ScreenStays

\* The result of a region that is no longer the current one draws nothing.
ScreenOnRegional ==
    /\ OnRegional
    /\ IF worker.request = pendingRegion /\ region # NoRegion THEN ScreenSpectrum
       ELSE ScreenStays

ScreenOnRegionalFailed ==
    OnRegionalFailed /\ IF worker.request = pendingRegion THEN ScreenSpectrum ELSE ScreenStays

ScreenOnFinished ==
    /\ OnFinished
    /\ IF pendingLine THEN ScreenCleared
       ELSE IF pendingClick # 0 THEN ScreenSelected ELSE ScreenStays

ScreenHandler ==
    \/ OnIndexed /\ ScreenStays
    \/ OnLoadFailed /\ ScreenCleared
    \/ ScreenOnSection
    \/ ScreenOnRegional
    \/ ScreenOnRegionalFailed
    \/ OnQuit /\ ScreenStays
    \/ ScreenOnFinished

ScreenWorker == (WorkerRuns \/ ThreadEnds) /\ ScreenStays

ScreenUser ==
    \/ \E l \in Lines : ScreenChooseLine(l)
    \/ \E o \in Orientations : ScreenChangeOrientation(o)
    \/ \E p \in Positions : ScreenClick(p)
    \/ ScreenClose
    \/ ChangeSettings
    \/ ChangeRenderer
    \/ ChangeLook
    \/ OpenWindow
    \/ ChangeWindow
    \/ CloseWindow

\* A viewer of a job's output opens on the filtered section.
ScreenInit ==
    /\ Init
    /\ settings = [mode |-> "Filtered", wiggle |-> FALSE, colormap |-> CHOOSE c \in Colormaps : TRUE]
    /\ renderer = "PyQtGraph"
    /\ canvas = Blank
    /\ look = NoPlot.look /\ display = NoPlot /\ plot = NoPlot
    /\ window = NoWindow
    /\ changes = 0

ScreenNext == ScreenUser \/ ScreenWorker \/ ScreenHandler

ScreenSpec == ScreenInit /\ [][ScreenNext]_allVars

\* The thread's work ends, and the event loop turns.
ScreenFairness == WF_allVars(ScreenWorker) /\ WF_allVars(ScreenHandler)

FairScreenSpec == ScreenSpec /\ ScreenFairness

-----------------------------------------------------------------------------
(* Properties.                                                             *)

ScreenTypeOK ==
    /\ TypeOK
    /\ settings \in [mode : Modes, wiggle : BOOLEAN, colormap : Colormaps]
    /\ {renderer, window.renderer} \subseteq Renderers
    /\ canvas.section \in Sections /\ canvas.mode \in Modes \cup {"none"}
    /\ canvas.bounds \in {NoBounds} \cup (Positions \X Positions)
    /\ {look, display.look, plot.look, window.look, window.plot.look} \subseteq Looks
    /\ \A r \in {display.of, plot.of, window.regional, window.plot.of} : IsRegion(r)
    /\ window.open \in BOOLEAN /\ changes \in 0 .. MaxChanges

\* The renderers show the viewer's state, whatever was drawn before, exchanged or
\* changed meanwhile: the section with the settings of now (a wiggle has no
\* colormap) and its region, and the spectrum with the scale and the curves of
\* now; "presentation only: the section, region and regional spectrum are
\* already in memory and are handed to the new renderers as-is"
\* (ui/seismic_viewer.py:448-449).
ScreenShowsState ==
    open =>
      /\ canvas.section = section
      /\ section # NoSection =>
           /\ canvas.mode = settings.mode /\ canvas.wiggle = settings.wiggle
           /\ ~settings.wiggle => canvas.colormap = settings.colormap
      /\ canvas.bounds = IF region = NoRegion THEN NoBounds ELSE <<region.lo, region.hi>>
      /\ plot = [of |-> regional, look |-> look]

\* The detached window never outlives the viewer and shows the viewer's spectrum
\* in its own scale, or nothing once the region has changed: "None empties the
\* window (stale guard)" (ui/region_spectrum_window.py:149).
WindowFollowsRegion ==
    window.open =>
      /\ open
      /\ window.plot.of = regional /\ window.plot.look.scale = window.look.scale
      /\ window.plot.look.response => regional # NoRegion

\* The mean that is shown is over every trace of the region, each counted once,
\* whatever their number leaves over in the last batch, and a waveform is shown
\* just for a single trace: "every physically present trace in the region"
\* (application/seismic_viewer.py:339-340).
SpectrumCountsEachTraceOnce ==
    plot.of # NoRegion =>
      LET sums   == Summed(plot.of)
          inside == {p \in Positions \ Gaps : plot.of.lo <= p /\ p <= plot.of.hi}
      IN /\ sums.times = [p \in Positions |-> IF p \in inside THEN 1 ELSE 0]
         /\ sums.count = Cardinality(inside) /\ sums.count > 0
         /\ IF sums.count = 1 THEN sums.waveform \in inside ELSE sums.waveform = 0

\* While the last lookup found lines, disabled controls come back: a worker that
\* ends in any way, and a kept line or click, leaves them enabled in the end.
\* Without lines they need not: _on_thread_finished() enables them "if
\* self._line_numbers" (lines 332-333).
NavigationComesBack == (lines # {} /\ ~nav) ~> nav
=============================================================================
