---------------------------- MODULE GeometryIndex ----------------------------
(***************************************************************************)
(* application/geometry_index.py: BuildGeometryIndexUseCase, over the      *)
(* trace_geometry table, beside the imports of DatasetImport.              *)
(*                                                                         *)
(* Every viewer builds the index of its dataset on a thread of its own, so *)
(* several builds of one dataset may interleave.  Each repository call is  *)
(* one transaction.  Trace headers come in batches, the unit of the index  *)
(* here; a file that is being read stays readable when it is replaced.     *)
(***************************************************************************)
EXTENDS DatasetImport

CONSTANTS
    Builders,      \* the threads of the viewers
    BatchesOf,     \* BatchesOf[v]: header batches of a version of the file
    MaxKills       \* bound: kills of the process

MaxBatches == CHOOSE m \in {BatchesOf[v] : v \in Versions} :
                 \A v \in Versions : BatchesOf[v] <= m

ASSUME BatchesAssumption == BatchesOf \in [Versions -> Nat \ {0}]
ASSUME KillsAssumption   == MaxKills \in Nat
ASSUME LargestAssumption ==      \* files have a largest size
    \E m \in {BatchesOf[v] : v \in Versions} : \A v \in Versions : BatchesOf[v] <= m

VARIABLES
    index,         \* index[d][k]: version that batch k of dataset d was read from
    pc,            \* pc[b]: step of the build, or how it ended
    dataset,       \* dataset[b]: id of the dataset it was called with
    opened,        \* opened[b]: version it is reading
    written,       \* written[b]: batches it has added
    kills          \* kills of the process so far

indexVars == <<index, pc, dataset, opened, written, kills>>
vars == <<importVars, indexVars>>

Ids     == 1 .. MaxDatasets
Batches == 1 .. MaxBatches
Ended   == {"idle", "whole", "conflict", "mismatch", "failed"}

Stored(d)   == {k \in Batches : index[d][k] # NoVersion}
NTraces(d)  == BatchesOf[datasets[d].metadata]
Complete(d) == Cardinality(Stored(d)) = NTraces(d)   \* count() == n_traces

Nothing == [k \in Batches |-> NoVersion]

Init ==
    /\ ImportInit
    /\ index   = [d \in Ids |-> Nothing]
    /\ pc      = [b \in Builders |-> "idle"]
    /\ dataset = [b \in Builders |-> 0]
    /\ opened  = [b \in Builders |-> NoVersion]
    /\ written = [b \in Builders |-> 0]
    /\ kills   = 0

At(b, from)  == pc[b] = from
Goto(b, to)  == pc' = [pc EXCEPT ![b] = to]

\* A viewer opens, on any persisted dataset.
Begin(b) ==
    /\ At(b, "idle")
    /\ \E d \in DOMAIN datasets : dataset' = [dataset EXCEPT ![b] = d]
    /\ Goto(b, "count")
    /\ UNCHANGED <<importVars, index, opened, written, kills>>

Count(b) ==
    /\ At(b, "count")
    /\ Goto(b, IF Complete(dataset[b]) THEN "whole" ELSE "delete")
    /\ UNCHANGED <<importVars, index, dataset, opened, written, kills>>

BadDropped(rows) == rows      \* a partial index is kept and added to

Dropped(rows) == Nothing      \* delete_for_dataset()

Delete(b) ==
    /\ At(b, "delete")
    /\ index' = [index EXCEPT ![dataset[b]] = Dropped(@)]
    /\ Goto(b, "open")
    /\ UNCHANGED <<importVars, dataset, opened, written, kills>>

\* The generator opens the file when its first batch is asked for.
Open(b) ==
    /\ At(b, "open")
    /\ file # NoVersion
    /\ opened' = [opened EXCEPT ![b] = file]
    /\ Goto(b, "add")
    /\ UNCHANGED <<importVars, index, dataset, written, kills>>

BadMore(n, total) == n <= total   \* one slice too many

\* Is there another slice of headers?
More(n, total) == n < total

\* add_batch(): the constraint uq_trace_geometry_trace rejects a batch that is
\* there already, and the build raises.
AddBatch(b) ==
    LET k == written[b] + 1 IN
    /\ At(b, "add") /\ More(written[b], BatchesOf[opened[b]])
    /\ IF k \in Stored(dataset[b])
       THEN Goto(b, "conflict") /\ UNCHANGED <<index, written>>
       ELSE /\ index' = [index EXCEPT ![dataset[b]][k] = opened[b]]
            /\ written' = [written EXCEPT ![b] = k]
            /\ UNCHANGED pc
    /\ UNCHANGED <<importVars, dataset, opened, kills>>

BadVerdict(n, expected) == "whole"   \* the written headers are not counted

Verdict(n, expected) == IF n = expected THEN "whole" ELSE "mismatch"

\* The file is exhausted: IncompleteGeometryIndexError unless the counts agree.
Finish(b) ==
    /\ At(b, "add") /\ ~More(written[b], BatchesOf[opened[b]])
    /\ Goto(b, Verdict(written[b], NTraces(dataset[b])))
    /\ UNCHANGED <<importVars, index, dataset, opened, written, kills>>

\* The repository or the header reader raises; earlier batches stay.
BuildFails(b) ==
    /\ pc[b] \notin Ended
    /\ Goto(b, "failed")
    /\ UNCHANGED <<importVars, index, dataset, opened, written, kills>>

\* The process is killed and started again: only the tables survive.
Kill ==
    /\ kills < MaxKills
    /\ kills' = kills + 1
    /\ pc'      = [b \in Builders |-> "idle"]
    /\ dataset' = [b \in Builders |-> 0]
    /\ opened'  = [b \in Builders |-> NoVersion]
    /\ written' = [b \in Builders |-> 0]
    /\ step' = "idle" /\ returned' = 0
    /\ UNCHANGED <<file, edits, datasets, fingerprint, metadata, index>>

BuildStep(b) == Begin(b) \/ Count(b) \/ Delete(b) \/ Open(b) \/ AddBatch(b)
                \/ Finish(b) \/ BuildFails(b)

Next == \/ ImportNext /\ UNCHANGED indexVars
        \/ Kill
        \/ \E b \in Builders : BuildStep(b)

Spec == Init /\ [][Next]_vars

-----------------------------------------------------------------------------
(* Properties.                                                             *)

TypeOK ==
    /\ ImportTypeOK
    /\ index \in [Ids -> [Batches -> Found]]
    /\ pc \in [Builders -> {"count", "delete", "open", "add"} \cup Ended]
    /\ dataset \in [Builders -> 0 .. MaxDatasets]
    /\ opened \in [Builders -> Found]
    /\ written \in [Builders -> 0 .. MaxBatches]
    /\ kills \in 0 .. MaxKills

Of(d)      == {b \in Builders : dataset[b] = d}
Sources(d) == {opened[b] : b \in Of(d)} \ {NoVersion}

\* All the builds of d that began since the start of the process have ended,
\* at least one did, and none of them because a call raised by itself.
Settled(d) == Of(d) # {} /\ \A b \in Of(d) : pc[b] \in Ended \ {"idle", "failed"}

\* However the builds of one dataset interleave, deleting each other's batches
\* and running into each other's, they leave a whole index of one version of
\* the file between them, if the file they read fits the dataset: whoever fails
\* on a batch has left it to another that goes on.
SettledIndexIsWhole ==
    \A d \in DOMAIN datasets : \A v \in Versions :
        Settled(d) /\ Sources(d) = {v} /\ BatchesOf[v] = NTraces(d)
            => index[d] = [k \in Batches |-> IF k <= NTraces(d) THEN v ELSE NoVersion]

\* A file that does not fit is never left as a whole index: "leave it clearly
\* incomplete (count != n_traces)" (geometry_index.py:66-67), and no build that
\* read it reports success.
MisfitIsVisible ==
    \A d \in DOMAIN datasets : \A v \in Versions :
        Settled(d) /\ Sources(d) = {v} /\ BatchesOf[v] # NTraces(d)
            => ~Complete(d) /\ \A b \in Of(d) : pc[b] = "whole" => opened[b] = NoVersion
=============================================================================
