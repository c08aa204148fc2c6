----------------------------- MODULE SectionLoad -----------------------------
(***************************************************************************)
(* application/seismic_viewer.py: the sections that SeismicViewerService   *)
(* assembles from the geometry index, the SEG-Y file and a job's HDF5      *)
(* output, for the viewers whose builds GeometryIndex runs.                *)
(*                                                                         *)
(* load_section() is no transaction: the traces of the line, the axis, the *)
(* original and the filtered amplitudes are read one after the other, with *)
(* builds of other viewers and changes of the file in between.             *)
(*                                                                         *)
(* A batch of the index is one trace here, numbered from 1 in physical     *)
(* order; 0 stands for the index -1 of a gap.  Amplitudes are known by the *)
(* version of the file they come from.  A dataset has one job, and a       *)
(* viewer loads one section.                                               *)
(***************************************************************************)
EXTENDS GeometryIndex

CONSTANTS
    Header,            \* Header[v][k]: inline and crossline of trace k of version v
    MaxSectionTraces,  \* max_section_traces
    MaxLoads           \* bound: sections loaded since the start of the process

ASSUME HeaderAssumption ==
    \A v \in Versions : Header[v] \in [1 .. BatchesOf[v] -> [inline : Nat, crossline : Nat]]
ASSUME LimitsAssumption == MaxSectionTraces \in Nat /\ MaxLoads \in Nat

VARIABLES
    output,      \* output[d]: version that the job of d has filtered
    load,        \* load[b]: step of load_section(), or how it ended
    request,     \* request[b]: what it was called with
    present,     \* present[b]: coordinates of the line's traces
    section      \* section[b]: the section, as far as it is assembled

loadVars == <<output, load, request, present, section>>
allVars  == <<vars, loadVars>>

Orientations == {"inline", "crossline"}
Preview      == "preview"   \* a FilterPreview; else the viewer shows a job
NoRequest    == [target |-> Preview, orientation |-> "inline", line |-> 0]
NoSection    == [physical |-> <<>>, original |-> NoVersion, filtered |-> NoVersion]

LoadInit ==
    /\ Init
    /\ output   = [d \in Ids |-> NoVersion]
    /\ load     = [b \in Builders |-> "none"]
    /\ request  = [b \in Builders |-> NoRequest]
    /\ present  = [b \in Builders |-> <<>>]
    /\ section  = [b \in Builders |-> NoSection]

LoadAt(b, s)   == load[b] = s
LoadGoto(b, s) == load' = [load EXCEPT ![b] = s]

-----------------------------------------------------------------------------
(* The queries on trace_geometry.                                          *)

Place(d, k) == Header[index[d][k]][k]

Across(o) == IF o = "inline" THEN "crossline" ELSE "inline"

\* inline_numbers() and crossline_numbers(): distinct.
LineNumbers(d, o) == {Place(d, k)[o] : k \in Stored(d)}

BadAxis(d, o, found) == {found[k] : k \in DOMAIN found}   \* only the line's own traces

\* All coordinates of the survey, not only those of the line.
Axis(d, o, found) == {Place(d, k)[Across(o)] : k \in Stored(d)}

-----------------------------------------------------------------------------
(* load_section().                                                         *)

\* A job that was run on d completes: it has compared the trace counts only.
JobCompletes(d) ==
    /\ output[d] = NoVersion /\ file # NoVersion
    /\ BatchesOf[file] = NTraces(d)
    /\ output' = [output EXCEPT ![d] = file]
    /\ UNCHANGED <<vars, load, request, present, section>>

\* context(): a job must be COMPLETED and have an output.
Viewable(b, target) == target = Preview \/ output[dataset[b]] # NoVersion

\* The index is there, and a line of it is asked for.
BeginLoad(b) ==
    /\ LoadAt(b, "none") /\ At(b, "whole")
    /\ Cardinality({c \in Builders : ~LoadAt(c, "none")}) < MaxLoads
    /\ \E target \in {Preview, "job"}, o \in Orientations :
         /\ Viewable(b, target)
         /\ \E l \in LineNumbers(dataset[b], o) :
              request' = [request EXCEPT ![b] = [target |-> target, orientation |-> o, line |-> l]]
    /\ LoadGoto(b, "present")
    /\ UNCHANGED <<vars, output, present, section>>

\* traces_for_inline(), traces_for_crossline().
QueryPresent(b) ==
    LET d == dataset[b]  o == request[b].orientation IN
    /\ LoadAt(b, "present")
    /\ present' = [present EXCEPT ![b] =
                     [k \in {k \in Stored(d) : Place(d, k)[o] = request[b].line}
                        |-> Place(d, k)[Across(o)]]]
    /\ LoadGoto(b, "axis")
    /\ UNCHANGED <<vars, output, request, section>>

\* The traces found at c: one of them gets the place.
Candidates(found, c) == {k \in DOMAIN found : found[k] = c}

\* crossline_numbers(), inline_numbers(): SectionTooLargeError, or every trace
\* at its coordinate and 0 at the others.
QueryAxis(b) ==
    LET axis == Axis(dataset[b], request[b].orientation, present[b]) IN
    /\ LoadAt(b, "axis")
    /\ \/ /\ Cardinality(axis) > MaxSectionTraces
          /\ LoadGoto(b, "failed") /\ UNCHANGED section
       \/ /\ Cardinality(axis) <= MaxSectionTraces
          /\ \E physical \in [axis -> 0 .. MaxBatches] :
               /\ \A c \in axis : IF Candidates(present[b], c) = {} THEN physical[c] = 0
                                  ELSE physical[c] \in Candidates(present[b], c)
               /\ section' = [section EXCEPT ![b].physical = physical]
          /\ LoadGoto(b, "original")
    /\ UNCHANGED <<vars, output, request, present>>

IsPresent(s, c) == s.physical[c] # 0
Indices(s)      == {s.physical[c] : c \in {c \in DOMAIN s.physical : IsPresent(s, c)}}

\* _read(): opened, bounds tested, read and closed.
Readable(s, traceCount) == \A k \in Indices(s) : k <= traceCount

\* The SEG-Y, as it is now.
ReadOriginal(b) ==
    /\ LoadAt(b, "original")
    /\ \/ /\ Indices(section[b]) = {}
          /\ LoadGoto(b, "shown") /\ UNCHANGED section
       \/ /\ Indices(section[b]) # {}
          /\ IF file # NoVersion /\ Readable(section[b], BatchesOf[file])
             THEN section' = [section EXCEPT ![b].original = file] /\ LoadGoto(b, "filtered")
             ELSE LoadGoto(b, "failed") /\ UNCHANGED section
    /\ UNCHANGED <<vars, output, request, present>>

\* The filter in memory, or the rows of the output.
ReadFiltered(b) ==
    LET s == section[b]  done == output[dataset[b]] IN
    /\ LoadAt(b, "filtered")
    /\ \/ /\ request[b].target = Preview
          /\ section' = [section EXCEPT ![b].filtered = s.original] /\ LoadGoto(b, "shown")
       \/ /\ request[b].target = "job"
          /\ IF Readable(s, BatchesOf[done])
             THEN section' = [section EXCEPT ![b].filtered = done] /\ LoadGoto(b, "shown")
             ELSE LoadGoto(b, "failed") /\ UNCHANGED section
    /\ UNCHANGED <<vars, output, request, present>>

\* A repository or a reader raises by itself.
LoadFails(b) ==
    /\ load[b] \in {"present", "axis", "original", "filtered"}
    /\ LoadGoto(b, "failed")
    /\ UNCHANGED <<vars, output, request, present, section>>

LoadStep(b) ==
    \/ BeginLoad(b) \/ QueryPresent(b) \/ QueryAxis(b) \/ ReadOriginal(b) \/ ReadFiltered(b)
    \/ LoadFails(b)

\* Kill, for the loads: only the output survives.
LoadKill ==
    /\ Kill
    /\ load'     = [b \in Builders |-> "none"]
    /\ request'  = [b \in Builders |-> NoRequest]
    /\ present'  = [b \in Builders |-> <<>>]
    /\ section'  = [b \in Builders |-> NoSection]
    /\ UNCHANGED output

LoadNext ==
    \/ ImportNext /\ UNCHANGED <<indexVars, loadVars>>
    \/ \E b \in Builders : BuildStep(b) /\ UNCHANGED loadVars
    \/ \E b \in Builders : LoadStep(b)
    \/ \E d \in DOMAIN datasets : JobCompletes(d)
    \/ LoadKill

LoadSpec == LoadInit /\ [][LoadNext]_allVars

-----------------------------------------------------------------------------
(* Properties.                                                             *)

LoadTypeOK ==
    /\ TypeOK
    /\ output \in [Ids -> Found]
    /\ load \in [Builders -> {"none", "present", "axis", "original", "filtered", "shown",
                              "failed"}]
    /\ \A b \in Builders :
         /\ request[b].target \in {Preview, "job"} /\ request[b].orientation \in Orientations
         /\ {section[b].original, section[b].filtered} \subseteq Found
         /\ Indices(section[b]) \subseteq Batches

Shown(b) == LoadAt(b, "shown")

\* The traces of version v at coordinate c of the requested line.
TracesAt(v, q, c) ==
    {k \in 1 .. BatchesOf[v] :
        Header[v][k] = IF q.orientation = "inline" THEN [inline |-> q.line, crossline |-> c]
                                                   ELSE [inline |-> c, crossline |-> q.line]}

\* What has been built, indexed and read is all of version v.
AllOf(b, v) ==
    /\ Sources(dataset[b]) \subseteq {v}
    /\ \A k \in Stored(dataset[b]) : index[dataset[b]][k] = v
    /\ section[b].original \in {v, NoVersion}

\* The file fits the dataset, and no other build has deleted anything of the
\* index since the start of the process.
Undisturbed(b, v) ==
    /\ BatchesOf[v] = NTraces(dataset[b])
    /\ \A c \in Of(dataset[b]) \ {b} :
         pc[c] \in {"count", "delete", "whole"} /\ opened[c] = NoVersion

\* Every trace of a section stands at its own coordinate of the survey's axis:
\* "a missing (inline, crossline) position stays a gap [...] and neighbouring
\* traces never shift" (application/seismic_viewer.py:94-96).  While the file is
\* the same that is so even if another viewer deletes and rebuilds the index
\* between the two queries; and unless one does, and if the file fits the
\* dataset, the axis is the whole survey's and a gap is one in the file too, also
\* after a kill that left half an index.
SectionIsOfTheFile ==
    \A b \in Builders : Shown(b) =>
        \A v \in Versions : AllOf(b, v) =>
            LET s == section[b]  q == request[b] IN
            /\ \A c \in DOMAIN s.physical :
                 /\ IsPresent(s, c) => s.physical[c] \in TracesAt(v, q, c)
                 /\ Undisturbed(b, v) => (IsPresent(s, c) <=> TracesAt(v, q, c) # {})
            /\ Undisturbed(b, v) =>
                 DOMAIN s.physical =
                     {Header[v][k][Across(q.orientation)] : k \in 1 .. BatchesOf[v]}
=============================================================================
