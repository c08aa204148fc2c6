---------------------------- MODULE DatasetImport ----------------------------
(***************************************************************************)
(* application/dataset_import.py: ImportDatasetUseCase over the datasets   *)
(* table, for one resolved source path (rows of other paths are never      *)
(* looked at).                                                             *)
(*                                                                         *)
(* A version of the source file stands for its size, its modification time *)
(* and its headers: the fingerprint tells versions apart.  The file belongs *)
(* to the user, who may replace or remove it between any two steps.  One   *)
(* import runs at a time (MainWindow: one import thread).                  *)
(***************************************************************************)
EXTENDS Sequences, FiniteSets, Naturals

CONSTANTS
    Versions,      \* what may be found at the path
    NoVersion,     \* nothing there: stat and open fail; an unknown fingerprint
    MaxDatasets,   \* bound: rows inserted
    MaxEdits       \* bound: changes of the file

ASSUME VersionsAssumption == NoVersion \notin Versions
ASSUME BoundsAssumption   == MaxDatasets \in Nat /\ MaxEdits \in Nat

VARIABLES
    file,          \* what is at the path now
    edits,         \* changes of the file so far
    datasets,      \* the table, in the order of its ids
    step,          \* where the import is: "idle", "find", "read" or "add"
    fingerprint,   \* read_source_fingerprint(resolved)
    metadata,      \* the version whose headers read_metadata() read
    returned       \* id of the dataset that the last import returned, or 0

importVars == <<file, edits, datasets, step, fingerprint, metadata, returned>>

Found == {NoVersion} \cup Versions
Datasets == [fingerprint : Found, metadata : Versions]

ImportInit ==
    /\ file \in Versions
    /\ edits = 0
    /\ datasets = <<>>
    /\ step = "idle"
    /\ fingerprint = NoVersion /\ metadata = NoVersion
    /\ returned = 0

\* The user replaces or removes the file.
EditFile ==
    /\ edits < MaxEdits
    /\ edits' = edits + 1
    /\ file' \in Found \ {file}
    /\ UNCHANGED <<datasets, step, fingerprint, metadata, returned>>

\* An import begins: os.stat().
Stat ==
    /\ step = "idle"
    /\ fingerprint' = file
    /\ step' = "find" /\ metadata' = NoVersion /\ returned' = 0
    /\ UNCHANGED <<file, edits, datasets>>

BadReusable(rows) ==   \* the oldest row is reused whatever its fingerprint
    rows # <<>>

\* find_by_source_path() yields the oldest row; __call__ compares its
\* fingerprint, and never trusts an unknown one.
Reusable(rows) ==
    /\ rows # <<>>
    /\ fingerprint # NoVersion
    /\ rows[1].fingerprint = fingerprint

Find ==
    /\ step = "find"
    /\ IF Reusable(datasets) THEN step' = "idle" /\ returned' = 1
                             ELSE step' = "read" /\ UNCHANGED returned
    /\ UNCHANGED <<file, edits, datasets, fingerprint, metadata>>

ReadMetadata ==
    /\ step = "read" /\ Len(datasets) < MaxDatasets
    /\ file # NoVersion
    /\ metadata' = file
    /\ step' = "add"
    /\ UNCHANGED <<file, edits, datasets, fingerprint, returned>>

\* replace(unpersisted, source_fingerprint=fingerprint), datasets.add().
Add ==
    /\ step = "add"
    /\ datasets' = Append(datasets, [fingerprint |-> fingerprint, metadata |-> metadata])
    /\ returned' = Len(datasets')
    /\ step' = "idle"
    /\ UNCHANGED <<file, edits, fingerprint, metadata>>

\* The repository or the header reader raises: nothing has been written.
ImportFails ==
    /\ step # "idle"
    /\ step' = "idle"
    /\ UNCHANGED <<file, edits, datasets, fingerprint, metadata, returned>>

ImportStep == Stat \/ Find \/ ReadMetadata \/ Add \/ ImportFails

ImportNext == EditFile \/ ImportStep

-----------------------------------------------------------------------------
(* Properties.                                                             *)

ImportTypeOK ==
    /\ file \in Found /\ edits \in 0 .. MaxEdits
    /\ datasets \in Seq(Datasets) /\ Len(datasets) <= MaxDatasets
    /\ step \in {"idle", "find", "read", "add"}
    /\ fingerprint \in Found /\ metadata \in Found
    /\ returned \in 0 .. Len(datasets)

\* An import hands back a row that carries the fingerprint it took: never an
\* older row of the same path, whatever happened to the file since
\* (dataset_import.py:33-38).
ReturnedAsFingerprinted ==
    returned # 0 => datasets[returned].fingerprint = fingerprint

\* "Importing a path that is already persisted with the same fingerprint
\* returns the existing entity without [...] inserting a duplicate row"
\* (dataset_import.py:31-34), taken at its word: no two rows have the same known
\* fingerprint.  find_by_source_path() looks at the oldest row only, so that
\* after one change of the file every import of it inserts one more row.
OneRowPerFingerprint ==
    \A d, e \in DOMAIN datasets :
        datasets[d].fingerprint = datasets[e].fingerprint
            => d = e \/ datasets[d].fingerprint = NoVersion
=============================================================================
