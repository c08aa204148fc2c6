------------------------------ MODULE IndexProofs ------------------------------
(***************************************************************************)
(* Proofs about DatasetImport and GeometryIndex, as SectionLoad runs them: *)
(* for every set of builders, versions and sizes of the file, and bound on *)
(* rows, changes and kills.                                                *)
(***************************************************************************)
EXTENDS SectionLoad, FiniteSetTheorems, TLAPS

-----------------------------------------------------------------------------
(* The inductive invariant.                                                *)

\* An import under way has returned nothing; one that has, as fingerprinted.
ImportInv ==
    /\ ImportTypeOK
    /\ step = "add" => metadata \in Versions /\ Len(datasets) < MaxDatasets
    /\ step # "idle" => returned = 0
    /\ ReturnedAsFingerprinted

\* What each step of a build knows of what it has read and added.
BuildInv ==
    /\ index \in [Ids -> [Batches -> Found]]
    /\ pc \in [Builders -> {"count", "delete", "open", "add"} \cup Ended]
    /\ dataset \in [Builders -> 0 .. Len(datasets)]
    /\ opened \in [Builders -> Found]
    /\ written \in [Builders -> Nat]
    /\ kills \in 0 .. MaxKills
    /\ \A b \in Builders :
         /\ pc[b] = "idle" <=> dataset[b] = 0
         /\ pc[b] \in {"idle", "count", "delete", "open"} => opened[b] = NoVersion
         /\ pc[b] = "add" => opened[b] # NoVersion
         /\ opened[b] = NoVersion => written[b] = 0
         /\ opened[b] # NoVersion => written[b] <= BatchesOf[opened[b]]
         /\ pc[b] = "whole" /\ opened[b] # NoVersion =>
              NTraces(dataset[b]) = BatchesOf[opened[b]]
              /\ written[b] = BatchesOf[opened[b]]
    /\ \A d \in Ids, k \in Batches :
         index[d][k] # NoVersion => k <= BatchesOf[index[d][k]]

Active(b)  == pc[b] \in {"delete", "open", "add"}
Deleted(d) == \E b \in Of(d) : pc[b] = "open" \/ opened[b] # NoVersion
Healthy(d) == \A b \in Of(d) : pc[b] # "failed"

\* A build at work that will come from batch j to batch k.
Coming(d, j, k) == \E b \in Of(d) : Active(b) /\ j <= written[b] /\ written[b] < k

\* Since the first delete, whoever ran into a batch has left what follows it to
\* another build: from each batch that is there, some build is on its way to
\* the next one that is not.
Covered(d, v) ==
    Deleted(d) /\ Healthy(d) /\ Sources(d) \subseteq {v} =>
      /\ \A k \in Batches : \/ index[d][k] = NoVersion
                            \/ (index[d][k] = v /\ k <= BatchesOf[v])
      /\ \A k \in Batches, j \in 0 .. MaxBatches :
           /\ k <= BatchesOf[v] /\ index[d][k] = NoVersion
           /\ j < k /\ (j # 0 => index[d][j] # NoVersion)
           => Coming(d, j, k)

CoverInv == \A d \in DOMAIN datasets, v \in Versions : Covered(d, v)

IInv == ImportInv /\ BuildInv /\ CoverInv

-----------------------------------------------------------------------------
(* Imports.                                                                *)

LEMMA LargestSize ==
    /\ MaxBatches \in Nat
    /\ \A v \in Versions : BatchesOf[v] \in 1 .. MaxBatches
<1> DEFINE sizes == {BatchesOf[v] : v \in Versions}
           P(m) == \A v \in Versions : BatchesOf[v] <= m
<1>1. \E m \in sizes : P(m)
  BY LargestAssumption
<1>2. MaxBatches = CHOOSE m \in sizes : P(m)
  BY DEF MaxBatches
<1>3. MaxBatches \in sizes /\ P(MaxBatches)
  <2> HIDE DEF sizes, P
  <2> QED BY <1>1, <1>2
<1> QED BY <1>3, BatchesAssumption

LEMMA ImportStarts ==
    ASSUME ImportInit
    PROVE  ImportInv
BY BoundsAssumption
DEF ImportInit, ImportInv, ImportTypeOK, Found, Datasets, ReturnedAsFingerprinted

\* The table only grows at its end.
LEMMA ImportMoves ==
    ASSUME ImportInv, ImportNext
    PROVE  /\ ImportInv'
           /\ \/ datasets' = datasets
              \/ /\ Len(datasets') = Len(datasets) + 1
                 /\ \A d \in 1 .. Len(datasets) : datasets'[d] = datasets[d]
<1> USE DEF ImportInv, ImportTypeOK
<1>1. CASE EditFile
  BY <1>1, BoundsAssumption DEF EditFile, Found, ReturnedAsFingerprinted
<1>2. CASE Stat
  BY <1>2 DEF Stat, Found, ReturnedAsFingerprinted
<1>3. CASE Find
  <2>1. Reusable(datasets) => 1 \in 0 .. Len(datasets)
    BY DEF Reusable
  <2> QED BY <1>3, <2>1 DEF Find, Reusable, ReturnedAsFingerprinted
<1>4. CASE ReadMetadata
  BY <1>4 DEF ReadMetadata, Found, ReturnedAsFingerprinted
<1>5. CASE Add
  <2> DEFINE r == [fingerprint |-> fingerprint, metadata |-> metadata]
             n == Len(datasets)
  <2>1. r \in Datasets /\ r.fingerprint = fingerprint
    BY <1>5 DEF Add, Datasets
  <2>2. /\ datasets' \in Seq(Datasets) /\ Len(datasets') = n + 1 /\ n \in Nat
        /\ \A d \in 1 .. n : datasets'[d] = datasets[d]
        /\ datasets'[n + 1] = r
    <3> HIDE DEF r
    <3> QED BY <1>5, <2>1 DEF Add, r
  <2>3. n + 1 <= MaxDatasets
    BY <1>5, BoundsAssumption DEF Add
  <2> QED BY <1>5, <2>1, <2>2, <2>3, BoundsAssumption DEF Add, ReturnedAsFingerprinted
<1>6. CASE ImportFails
  BY <1>6 DEF ImportFails, ReturnedAsFingerprinted
<1> QED BY <1>1, <1>2, <1>3, <1>4, <1>5, <1>6 DEF ImportNext, ImportStep

-----------------------------------------------------------------------------
(* Builds.                                                                 *)

\* What Covered looks at.
LEMMA CoveredStays ==
    ASSUME UNCHANGED <<index, pc, dataset, opened, written>>
    PROVE  \A d, v : Covered(d, v)' <=> Covered(d, v)
BY DEF Covered, Deleted, Healthy, Sources, Of, Coming, Active

\* A dataset that nobody has begun to index.
LEMMA NobodyCovers ==
    ASSUME NEW d, Of(d) = {}
    PROVE  \A v : Covered(d, v)
BY DEF Covered, Deleted

LEMMA IndexStarts ==
    ASSUME Init
    PROVE  IInv
<1>1. ImportInv /\ datasets = <<>>
  BY ImportStarts DEF Init, ImportInit
<1>2. BuildInv
  BY <1>1, KillsAssumption DEF Init, BuildInv, Ended, Nothing, Found
<1>3. CoverInv
  BY <1>1 DEF CoverInv
<1> QED BY <1>1, <1>2, <1>3 DEF IInv

LEMMA ImportKeeps ==
    ASSUME IInv, ImportNext, UNCHANGED indexVars
    PROVE  IInv'
<1>1. /\ ImportInv'
      /\ Len(datasets) \in Nat /\ Len(datasets') \in Nat
      /\ Len(datasets) <= Len(datasets')
      /\ \A d \in 1 .. Len(datasets) : datasets'[d] = datasets[d]
      /\ DOMAIN datasets = 1 .. Len(datasets) /\ DOMAIN datasets' = 1 .. Len(datasets')
  <2>1. ImportInv /\ ImportInv'
    BY ImportMoves DEF IInv
  <2>2. datasets \in Seq(Datasets) /\ datasets' \in Seq(Datasets)
    BY <2>1 DEF ImportInv, ImportTypeOK
  <2> QED BY <2>1, <2>2, ImportMoves DEF IInv
<1>2. UNCHANGED <<index, pc, dataset, opened, written, kills>>
  BY DEF indexVars
<1>3. BuildInv'
  <2>1. \A b \in Builders : pc[b] # "idle" => NTraces(dataset[b])' = NTraces(dataset[b])
    BY <1>1, <1>2 DEF IInv, BuildInv, NTraces
  <2> QED BY <1>1, <1>2, <2>1 DEF IInv, BuildInv, Ended
<1>4. CoverInv'
  <2> SUFFICES ASSUME NEW d \in DOMAIN datasets', NEW v \in Versions
               PROVE  Covered(d, v)
    BY <1>2, CoveredStays DEF CoverInv
  <2>1. CASE d \in DOMAIN datasets
    BY <2>1 DEF IInv, CoverInv
  <2>2. CASE d \notin DOMAIN datasets
    <3>1. Of(d) = {}
      BY <1>1, <2>2 DEF IInv, BuildInv, Of
    <3> QED BY <3>1, NobodyCovers
  <2> QED BY <2>1, <2>2
<1> QED BY <1>1, <1>3, <1>4 DEF IInv

LEMMA KillKeeps ==
    ASSUME IInv, Kill
    PROVE  IInv'
<1>1. ImportInv'
  BY DEF IInv, ImportInv, ImportTypeOK, Kill, ReturnedAsFingerprinted
<1>2. BuildInv'
  BY KillsAssumption
  DEF IInv, ImportInv, ImportTypeOK, BuildInv, Kill, Ended, Found
<1>3. CoverInv'
  <2>1. \A d \in DOMAIN datasets' : Of(d)' = {}
    BY DEF IInv, ImportInv, ImportTypeOK, Kill, Of
  <2> QED BY <2>1 DEF CoverInv, Covered, Deleted
<1> QED BY <1>1, <1>2, <1>3 DEF IInv

\* A build leaves the import and the datasets alone.
LEMMA BuildKeepsImports ==
    ASSUME ImportInv, NEW b \in Builders, BuildStep(b)
    PROVE  ImportInv' /\ UNCHANGED importVars
<1>1. UNCHANGED importVars
  BY DEF BuildStep, Begin, Count, Delete, Open, AddBatch, Finish, BuildFails
<1> QED BY <1>1 DEF importVars, ImportInv, ImportTypeOK, ReturnedAsFingerprinted

LEMMA BuildMoves ==
    ASSUME IInv, NEW b \in Builders, BuildStep(b)
    PROVE  BuildInv'
<1> USE DEF IInv, BuildInv, Goto, At, Ended
<1>0. UNCHANGED <<datasets, file>> /\ file \in Found /\ Len(datasets) \in Nat
      /\ DOMAIN datasets = 1 .. Len(datasets)
  BY BuildKeepsImports DEF importVars, ImportInv, ImportTypeOK
<1>1. CASE Begin(b)
  BY <1>0, <1>1 DEF Begin, NTraces
<1>2. CASE Count(b)
  BY <1>0, <1>2 DEF Count, NTraces
<1>3. CASE Delete(b)
  <2>1. Nothing \in [Batches -> Found]
    BY DEF Nothing, Found
  <2>2. index' \in [Ids -> [Batches -> Found]]
    BY <1>3, <2>1 DEF Delete, Dropped
  <2>3. \A d \in Ids, k \in Batches : index'[d][k] \in {index[d][k], NoVersion}
    BY <1>3 DEF Delete, Dropped, Nothing
  <2>4. /\ UNCHANGED <<dataset, opened, written, kills>>
        /\ pc' = [pc EXCEPT ![b] = "open"] /\ pc[b] = "delete"
    BY <1>3 DEF Delete
  <2> QED BY <1>0, <2>2, <2>3, <2>4 DEF NTraces
<1>4. CASE Open(b)
  BY <1>0, <1>4, BatchesAssumption DEF Open, NTraces, Found
<1>5. CASE AddBatch(b)
  <2>1. opened[b] \in Versions /\ written[b] \in Nat /\ BatchesOf[opened[b]] \in Nat
    BY <1>5, BatchesAssumption DEF AddBatch, Found
  <2>2. CASE written[b] + 1 \in Stored(dataset[b])
    BY <1>0, <1>5, <2>2 DEF AddBatch, NTraces
  <2>3. CASE written[b] + 1 \notin Stored(dataset[b])
    <3>1. /\ index' = [index EXCEPT ![dataset[b]][written[b] + 1] = opened[b]]
          /\ written' = [written EXCEPT ![b] = written[b] + 1]
          /\ written[b] + 1 <= BatchesOf[opened[b]]
          /\ UNCHANGED <<pc, dataset, opened, kills>> /\ pc[b] = "add"
      BY <1>5, <2>1, <2>3 DEF AddBatch, More
    <3>2. index' \in [Ids -> [Batches -> Found]]
      BY <3>1
    <3> QED BY <1>0, <2>1, <3>1, <3>2 DEF NTraces
  <2> QED BY <2>2, <2>3
<1>6. CASE Finish(b)
  <2>1. opened[b] \in Versions /\ written[b] = BatchesOf[opened[b]]
    BY <1>6, BatchesAssumption DEF Finish, More, Found
  <2> QED BY <1>0, <1>6, <2>1 DEF Finish, Verdict, NTraces
<1>7. CASE BuildFails(b)
  BY <1>0, <1>7 DEF BuildFails, NTraces
<1> QED BY <1>1, <1>2, <1>3, <1>4, <1>5, <1>6, <1>7 DEF BuildStep

\* A step of a build that belongs to another dataset.
LEMMA ElsewhereStays ==
    ASSUME NEW b \in Builders, NEW d, NEW v, dataset[b] # d, dataset' = dataset,
           \A c \in Builders \ {b} : /\ pc'[c] = pc[c] /\ opened'[c] = opened[c]
                                     /\ written'[c] = written[c],
           index'[d] = index[d], Covered(d, v)
    PROVE  Covered(d, v)'
<1>1. b \notin Of(d) /\ Of(d)' = Of(d) /\ Of(d) \subseteq Builders
  BY DEF Of
<1>2. (Deleted(d)' <=> Deleted(d)) /\ (Healthy(d)' <=> Healthy(d)) /\ Sources(d)' = Sources(d)
  BY <1>1 DEF Deleted, Healthy, Sources
<1>3. \A j, k : Coming(d, j, k)' <=> Coming(d, j, k)
  BY <1>1 DEF Coming, Active
<1> QED BY <1>2, <1>3 DEF Covered

LEMMA BeginCovers ==
    ASSUME IInv, NEW b \in Builders, Begin(b), NEW d, NEW v, Covered(d, v)
    PROVE  Covered(d, v)'
<1>1. /\ pc[b] = "idle" /\ pc'[b] = "count" /\ opened[b] = NoVersion
      /\ UNCHANGED <<index, opened, written>>
      /\ \A c \in Builders \ {b} : pc'[c] = pc[c] /\ dataset'[c] = dataset[c]
  BY DEF IInv, BuildInv, Begin, At, Goto
<1>2. \A c \in Builders \ {b} : c \in Of(d)' <=> c \in Of(d)
  BY <1>1 DEF Of
<1>3. (Deleted(d)' => Deleted(d)) /\ (Healthy(d)' => Healthy(d)) /\ Sources(d)' = Sources(d)
  BY <1>1, <1>2 DEF Deleted, Healthy, Sources, Of
<1>4. \A j, k : Coming(d, j, k) => Coming(d, j, k)'
  BY <1>1, <1>2 DEF Coming, Active, Of
<1> QED BY <1>1, <1>3, <1>4 DEF Covered

LEMMA CountCovers ==
    ASSUME IInv, NEW b \in Builders, Count(b), NEW d, NEW v, Covered(d, v)
    PROVE  Covered(d, v)'
<1>1. /\ pc[b] = "count" /\ pc'[b] \in {"whole", "delete"} /\ opened[b] = NoVersion
      /\ UNCHANGED <<index, opened, written, dataset>>
      /\ \A c \in Builders \ {b} : pc'[c] = pc[c]
  BY DEF IInv, BuildInv, Count, At, Goto
<1>2. Of(d)' = Of(d)
  BY <1>1 DEF Of
<1>3. (Deleted(d)' => Deleted(d)) /\ (Healthy(d)' => Healthy(d)) /\ Sources(d)' = Sources(d)
  BY <1>1, <1>2 DEF Deleted, Healthy, Sources, Of
<1>4. \A j, k : Coming(d, j, k) => Coming(d, j, k)'
  BY <1>1, <1>2 DEF Coming, Active, Of
<1> QED BY <1>1, <1>3, <1>4 DEF Covered

\* The index is empty, and the build that emptied it will write every batch.
LEMMA DeleteCovers ==
    ASSUME IInv, NEW b \in Builders, Delete(b), NEW d \in Ids, NEW v, Covered(d, v)
    PROVE  Covered(d, v)'
<1>1. /\ pc[b] = "delete" /\ pc'[b] = "open" /\ written[b] = 0
      /\ UNCHANGED <<opened, written, dataset>>
      /\ \A c \in Builders \ {b} : pc'[c] = pc[c]
      /\ index \in [Ids -> [Batches -> Found]]
  BY DEF IInv, BuildInv, Delete, At, Goto
<1>2. CASE dataset[b] = d
  <2>1. index'[d] = Nothing /\ b \in Of(d)' /\ Active(b)' /\ written'[b] = 0
    BY <1>1, <1>2 DEF Delete, Dropped, Of, Active
  <2>2. \A k \in Batches : index'[d][k] = NoVersion
    BY <2>1 DEF Nothing
  <2>3. \A k \in Batches, j \in 0 .. MaxBatches :
          j < k /\ (j # 0 => index'[d][j] # NoVersion) => Coming(d, j, k)'
    BY <2>1, <2>2, LargestSize DEF Coming, Batches
  <2> QED BY <2>2, <2>3 DEF Covered
<1>3. CASE dataset[b] # d
  <2>1. index'[d] = index[d]
    BY <1>1, <1>3 DEF Delete
  <2> QED BY <1>1, <1>3, <2>1, ElsewhereStays
<1> QED BY <1>2, <1>3

LEMMA OpenCovers ==
    ASSUME IInv, NEW b \in Builders, Open(b), NEW d \in Ids, NEW v, Covered(d, v)
    PROVE  Covered(d, v)'
<1>1. /\ pc[b] = "open" /\ pc'[b] = "add" /\ opened[b] = NoVersion
      /\ UNCHANGED <<index, written, dataset>>
      /\ \A c \in Builders \ {b} : pc'[c] = pc[c] /\ opened'[c] = opened[c]
  BY DEF IInv, BuildInv, Open, At, Goto
<1>2. CASE dataset[b] = d
  <2>1. b \in Of(d) /\ Of(d)' = Of(d) /\ Of(d) \subseteq Builders
    BY <1>1, <1>2 DEF Of
  <2>2. Deleted(d) /\ (Healthy(d)' => Healthy(d)) /\ Sources(d) \subseteq Sources(d)'
    BY <1>1, <2>1 DEF Deleted, Healthy, Sources
  <2>3. \A j, k : Coming(d, j, k) => Coming(d, j, k)'
    BY <1>1, <2>1 DEF Coming, Active
  <2> QED BY <1>1, <2>2, <2>3 DEF Covered
<1>3. CASE dataset[b] # d
  BY <1>1, <1>3, ElsewhereStays
<1> QED BY <1>2, <1>3

\* A build that has come to the end of the file was on its way to nothing.
LEMMA FinishCovers ==
    ASSUME IInv, NEW b \in Builders, Finish(b), NEW d \in Ids, NEW v \in Versions,
           Covered(d, v)
    PROVE  Covered(d, v)'
<1>1. /\ pc[b] = "add" /\ pc'[b] \in {"whole", "mismatch"} /\ opened[b] # NoVersion
      /\ written[b] = BatchesOf[opened[b]] /\ BatchesOf[opened[b]] \in Nat
      /\ UNCHANGED <<index, written, dataset, opened>>
      /\ \A c \in Builders \ {b} : pc'[c] = pc[c]
  BY BatchesAssumption DEF IInv, BuildInv, Finish, At, Goto, Verdict, More, Found
<1>2. CASE dataset[b] = d
  <2>1. b \in Of(d) /\ Of(d)' = Of(d) /\ Of(d) \subseteq Builders
    BY <1>1, <1>2 DEF Of
  <2>2. Deleted(d) /\ (Healthy(d)' => Healthy(d)) /\ Sources(d)' = Sources(d)
    BY <1>1, <2>1 DEF Deleted, Healthy, Sources
  <2>3. ASSUME Sources(d) \subseteq {v} PROVE opened[b] = v
    BY <1>1, <2>1, <2>3 DEF Sources
  <2>4. ASSUME NEW k \in Batches, NEW j, Sources(d) \subseteq {v}, k <= BatchesOf[v],
               Coming(d, j, k)
        PROVE  Coming(d, j, k)'
    <3>1. PICK c \in Of(d) : Active(c) /\ j <= written[c] /\ written[c] < k
      BY <2>4 DEF Coming
    <3>2. c # b
      BY <1>1, <2>3, <2>4, <3>1, LargestSize DEF Batches
    <3> QED BY <1>1, <2>1, <3>1, <3>2 DEF Coming, Active
  <2> QED BY <1>1, <2>2, <2>4 DEF Covered
<1>3. CASE dataset[b] # d
  BY <1>1, <1>3, ElsewhereStays
<1> QED BY <1>2, <1>3

LEMMA FailureCovers ==
    ASSUME IInv, NEW b \in Builders, BuildFails(b), NEW d \in Ids, NEW v, Covered(d, v)
    PROVE  Covered(d, v)'
<1>1. /\ pc'[b] = "failed" /\ UNCHANGED <<index, written, dataset, opened>>
      /\ \A c \in Builders \ {b} : pc'[c] = pc[c]
  BY DEF IInv, BuildInv, BuildFails, Goto
<1>2. CASE dataset[b] = d
  BY <1>1, <1>2 DEF Covered, Healthy, Of
<1>3. CASE dataset[b] # d
  BY <1>1, <1>3, ElsewhereStays
<1> QED BY <1>2, <1>3

\* A build that finds its next batch there leaves the rest to who is ahead of it.
LEMMA ConflictCovers ==
    ASSUME IInv, NEW b \in Builders, NEW d \in Ids, NEW v \in Versions, Covered(d, v),
           AddBatch(b), written[b] + 1 \in Stored(dataset[b])
    PROVE  Covered(d, v)'
<1> DEFINE n == written[b] + 1
<1>1. /\ pc[b] = "add" /\ pc'[b] = "conflict" /\ opened[b] # NoVersion
      /\ written \in [Builders -> Nat]
      /\ UNCHANGED <<index, written, dataset, opened>>
      /\ \A c \in Builders \ {b} : pc'[c] = pc[c]
  BY DEF IInv, BuildInv, AddBatch, At, Goto
<1>2. CASE dataset[b] = d
  <2>1. b \in Of(d) /\ Of(d)' = Of(d) /\ Of(d) \subseteq Builders
    BY <1>1, <1>2 DEF Of
  <2>2. Deleted(d) /\ (Healthy(d)' => Healthy(d)) /\ Sources(d)' = Sources(d)
    BY <1>1, <2>1 DEF Deleted, Healthy, Sources
  <2>3. n \in Batches /\ index[d][n] # NoVersion
    BY <1>2 DEF Stored
  <2>4. ASSUME Healthy(d)', Sources(d)' \subseteq {v}, NEW k \in Batches,
               NEW j \in 0 .. MaxBatches, k <= BatchesOf[v], index[d][k] = NoVersion,
               j < k, j # 0 => index[d][j] # NoVersion
        PROVE  Coming(d, j, k)'
    <3>1. PICK c \in Of(d) : Active(c) /\ j <= written[c] /\ written[c] < k
      BY <2>2, <2>4 DEF Covered, Coming
    <3>2. CASE c # b
      BY <1>1, <2>1, <3>1, <3>2 DEF Coming, Active
    <3>3. CASE c = b
      <4>1. n \in Nat /\ n <= k /\ n # k /\ k \in Nat /\ MaxBatches \in Nat /\ j <= n
        BY <1>1, <2>3, <2>4, <3>1, <3>3, LargestSize DEF Batches
      <4>2. n < k /\ n \in 0 .. MaxBatches
        BY <2>3, <4>1 DEF Batches
      <4>3. Coming(d, n, k)
        BY <2>2, <2>3, <2>4, <4>2 DEF Covered
      <4>4. PICK e \in Of(d) : Active(e) /\ n <= written[e] /\ written[e] < k
        BY <4>3 DEF Coming
      <4>5. e # b /\ j <= written[e]
        BY <1>1, <2>1, <4>1, <4>4
      <4> QED BY <1>1, <2>1, <4>4, <4>5 DEF Coming, Active
    <3> QED BY <3>2, <3>3
  <2> QED BY <1>1, <2>2, <2>4 DEF Covered
<1>3. CASE dataset[b] # d
  BY <1>1, <1>3, ElsewhereStays
<1> QED BY <1>2, <1>3

\* A batch is added: who adds it is on the way from it.
LEMMA BatchCovers ==
    ASSUME IInv, NEW b \in Builders, NEW d \in Ids, NEW v \in Versions, Covered(d, v),
           AddBatch(b), written[b] + 1 \notin Stored(dataset[b])
    PROVE  Covered(d, v)'
<1> DEFINE n == written[b] + 1
<1>1. /\ pc[b] = "add" /\ pc' = pc /\ opened[b] \in Versions
      /\ opened[b] # NoVersion /\ n <= BatchesOf[opened[b]]
      /\ written \in [Builders -> Nat]
      /\ index \in [Ids -> [Batches -> Found]]
      /\ index' = [index EXCEPT ![dataset[b]][n] = opened[b]]
      /\ written' = [written EXCEPT ![b] = n]
      /\ UNCHANGED <<dataset, opened>>
  BY BatchesAssumption DEF IInv, BuildInv, AddBatch, At, More, Found
<1>2. CASE dataset[b] = d
  <2>1. b \in Of(d) /\ Of(d)' = Of(d) /\ Of(d) \subseteq Builders
    BY <1>1, <1>2 DEF Of
  <2>2. Deleted(d) /\ Healthy(d)' = Healthy(d) /\ Sources(d)' = Sources(d)
    BY <1>1, <2>1 DEF Deleted, Healthy, Sources
  <2>3. n \in Batches /\ n \in Nat /\ index[d][n] = NoVersion
    BY <1>1, <1>2, LargestSize DEF Stored, Batches
  <2>4. index'[d][n] = opened[b] /\ \A k \in Batches \ {n} : index'[d][k] = index[d][k]
    BY <1>1, <1>2, <2>3
  <2>5. SUFFICES ASSUME Healthy(d), Sources(d) \subseteq {v}
                 PROVE  /\ \A k \in Batches :
                             \/ index'[d][k] = NoVersion
                             \/ (index'[d][k] = v /\ k <= BatchesOf[v])
                        /\ \A k \in Batches, j \in 0 .. MaxBatches :
                             /\ k <= BatchesOf[v] /\ index'[d][k] = NoVersion
                             /\ j < k /\ (j # 0 => index'[d][j] # NoVersion)
                             => Coming(d, j, k)'
    BY <2>2 DEF Covered
  <2>6. opened[b] = v
    BY <1>1, <2>1, <2>5 DEF Sources
  <2>7. \A k \in Batches : \/ index'[d][k] = NoVersion
                          \/ (index'[d][k] = v /\ k <= BatchesOf[v])
    BY <1>1, <2>2, <2>4, <2>5, <2>6 DEF Covered
  <2>8. ASSUME NEW k \in Batches, NEW j \in 0 .. MaxBatches,
               k <= BatchesOf[v], index'[d][k] = NoVersion,
               j < k, j # 0 => index'[d][j] # NoVersion
        PROVE  Coming(d, j, k)'
    <3>1. k # n /\ index[d][k] = NoVersion /\ k \in Nat
      BY <1>1, <2>4, <2>8, LargestSize DEF Batches
    <3>2. CASE j = n
      <4>1. written'[b] = n /\ Active(b)'
        BY <1>1 DEF Active
      <4> QED BY <2>1, <2>8, <3>2, <4>1, <2>3 DEF Coming
    <3>3. CASE j # n
      <4>1. j # 0 => j \in Batches
        BY LargestSize DEF Batches
      <4>2. Coming(d, j, k)
        BY <2>2, <2>4, <2>5, <2>8, <3>1, <3>3, <4>1 DEF Covered
      <4>3. PICK c \in Of(d) : Active(c) /\ j <= written[c] /\ written[c] < k
        BY <4>2 DEF Coming
      <4>4. written'[c] \in {written[c], n} /\ (c # b => written'[c] = written[c])
        BY <1>1, <2>1, <4>3
      <4>5. j <= written'[c] /\ written'[c] < k
        BY <1>1, <2>1, <2>3, <2>8, <3>1, <4>3, <4>4, LargestSize DEF Batches
      <4> QED BY <1>1, <2>1, <4>3, <4>5 DEF Coming, Active
    <3> QED BY <3>2, <3>3
  <2> QED BY <2>7, <2>8
<1>3. CASE dataset[b] # d
  BY <1>1, <1>3, ElsewhereStays
<1> QED BY <1>2, <1>3

LEMMA BuildKeeps ==
    ASSUME IInv, NEW b \in Builders, BuildStep(b)
    PROVE  IInv'
<1>1. ImportInv' /\ datasets' = datasets
  BY BuildKeepsImports DEF IInv, importVars
<1>2. ASSUME NEW d \in DOMAIN datasets, NEW v \in Versions PROVE Covered(d, v)'
  <2>1. d \in Ids /\ Covered(d, v)
    BY BoundsAssumption DEF IInv, CoverInv, ImportInv, ImportTypeOK, Ids
  <2> QED BY <2>1, BeginCovers, CountCovers, DeleteCovers, OpenCovers, ConflictCovers,
             BatchCovers, FinishCovers, FailureCovers DEF BuildStep
<1>3. CoverInv'
  BY <1>1, <1>2 DEF CoverInv
<1> QED BY <1>1, <1>3, BuildMoves DEF IInv

-----------------------------------------------------------------------------
(* The theorems.                                                           *)

\* Sections are only read from what imports and builds leave: with the viewers'
\* loads and the jobs, imports and builds behave as without.
THEOREM SectionsOnlyRead == LoadSpec => Spec
<1>1. LoadInit => Init
  BY DEF LoadInit
<1>2. ASSUME LoadNext PROVE [Next]_vars
  <2>1. CASE ImportNext /\ UNCHANGED <<indexVars, loadVars>>
    BY <2>1 DEF Next
  <2>2. CASE \E b \in Builders : BuildStep(b) /\ UNCHANGED loadVars
    BY <2>2 DEF Next
  <2>3. CASE \E b \in Builders : LoadStep(b)
    BY <2>3 DEF LoadStep, BeginLoad, QueryPresent, QueryAxis, ReadOriginal, ReadFiltered,
                LoadFails
  <2>4. CASE \E d \in DOMAIN datasets : JobCompletes(d)
    BY <2>4 DEF JobCompletes
  <2>5. CASE LoadKill
    BY <2>5 DEF LoadKill, Next
  <2> QED BY <1>2, <2>1, <2>2, <2>3, <2>4, <2>5 DEF LoadNext
<1>3. [LoadNext]_allVars => [Next]_vars
  BY <1>2 DEF allVars
<1> QED BY <1>1, <1>3, PTL DEF LoadSpec, Spec

\* Imports, builds and the index agree as IInv says, whatever interleaves.
THEOREM IndexInvariant == Spec => []IInv
<1>1. Init => IInv
  BY IndexStarts
<1>2. ASSUME IInv, Next PROVE IInv'
  BY <1>2, ImportKeeps, KillKeeps, BuildKeeps DEF Next
<1>3. ASSUME IInv, UNCHANGED vars PROVE IInv'
  <2>1. ImportInv' /\ BuildInv'
    BY <1>3 DEF vars, importVars, indexVars, IInv, ImportInv, ImportTypeOK, BuildInv,
                ReturnedAsFingerprinted, NTraces
  <2>2. UNCHANGED <<index, pc, dataset, opened, written, datasets>>
    BY <1>3 DEF vars, importVars, indexVars
  <2>3. CoverInv'
    BY <1>3, <2>2, CoveredStays DEF IInv, CoverInv
  <2> QED BY <2>1, <2>3 DEF IInv
<1> QED BY <1>1, <1>2, <1>3, PTL DEF Spec

\* An import returns a row with the fingerprint it took, whatever the user does
\* to the file meanwhile.
THEOREM ImportsReturnTheirOwn == LoadSpec => []ReturnedAsFingerprinted
<1>1. IInv => ReturnedAsFingerprinted
  BY DEF IInv, ImportInv
<1> QED BY <1>1, SectionsOnlyRead, IndexInvariant, PTL

\* What settled builds have left of one version of the file.
LEMMA SettledIndex ==
    ASSUME IInv, NEW d \in DOMAIN datasets, NEW v \in Versions,
           Settled(d), Sources(d) = {v}
    PROVE  \A k \in Batches : index[d][k] = IF k <= BatchesOf[v] THEN v ELSE NoVersion
<1>1. Deleted(d)
  <2>1. v \in Sources(d)
    OBVIOUS
  <2> QED BY <2>1, VersionsAssumption DEF Sources, Deleted
<1>2. Healthy(d) /\ \A b \in Of(d) : ~Active(b)
  BY DEF Settled, Healthy, Active, Ended
<1>3. Covered(d, v)
  BY DEF IInv, CoverInv
<1>4. ASSUME NEW k \in Batches, k <= BatchesOf[v] PROVE index[d][k] # NoVersion
  <2>1. 0 \in 0 .. MaxBatches /\ 0 < k
    BY LargestSize DEF Batches
  <2>2. ~Coming(d, 0, k)
    BY <1>2 DEF Coming
  <2> QED BY <1>1, <1>2, <1>3, <1>4, <2>1, <2>2 DEF Covered
<1> QED BY <1>1, <1>2, <1>3, <1>4 DEF Covered

\* However many builds of a dataset interleave, of a file that fits it and with
\* no call that raises by itself, the index they leave is whole.
THEOREM BuildsLeaveItWhole == LoadSpec => []SettledIndexIsWhole
<1>1. ASSUME IInv, NEW d \in DOMAIN datasets, NEW v \in Versions,
             Settled(d), Sources(d) = {v}, BatchesOf[v] = NTraces(d)
      PROVE  index[d] = [k \in Batches |-> IF k <= NTraces(d) THEN v ELSE NoVersion]
  <2>1. index[d] \in [Batches -> Found]
    BY <1>1, BoundsAssumption DEF IInv, BuildInv, ImportInv, ImportTypeOK, Ids
  <2> QED BY <1>1, <2>1, SettledIndex
<1>2. IInv => SettledIndexIsWhole
  BY <1>1 DEF SettledIndexIsWhole
<1> QED BY <1>2, SectionsOnlyRead, IndexInvariant, PTL

\* Builds of a file that does not fit leave an index whose count shows it, and
\* report no success.
THEOREM MisfitsShow == LoadSpec => []MisfitIsVisible
<1>1. ASSUME IInv, NEW d \in DOMAIN datasets, NEW v \in Versions,
             Settled(d), Sources(d) = {v}, BatchesOf[v] # NTraces(d)
      PROVE  ~Complete(d) /\ \A b \in Of(d) : pc[b] = "whole" => opened[b] = NoVersion
  <2>1. Stored(d) = 1 .. BatchesOf[v]
    BY <1>1, SettledIndex, LargestSize, VersionsAssumption DEF Stored, Batches
  <2>2. Cardinality(Stored(d)) = BatchesOf[v]
    BY <2>1, FS_Interval, LargestSize
  <2>3. \A b \in Of(d) : pc[b] = "whole" => opened[b] = NoVersion
    BY <1>1 DEF IInv, BuildInv, Of, Sources
  <2> QED BY <1>1, <2>2, <2>3 DEF Complete
<1>2. IInv => MisfitIsVisible
  BY <1>1 DEF MisfitIsVisible
<1> QED BY <1>2, SectionsOnlyRead, IndexInvariant, PTL
=============================================================================
