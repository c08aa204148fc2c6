----------------------------- MODULE SectionProofs -----------------------------
(***************************************************************************)
(* Proofs about SectionLoad: a section is of the file, for every survey,   *)
(* set of viewers and bound, however builds, loads, changes of the file    *)
(* and kills interleave.                                                   *)
(***************************************************************************)
EXTENDS IndexProofs

-----------------------------------------------------------------------------
(* The inductive invariant.                                                *)

\* Either somebody has deleted the index of d since the start of the process,
\* and what is there now comes from the builds since; or nobody has, and the
\* count that a viewer took still holds.
Since(d) ==
    \/ \A k \in Batches : index[d][k] # NoVersion => index[d][k] \in Sources(d)
    \/ \A b \in Of(d) : /\ opened[b] = NoVersion /\ pc[b] # "open"
                        /\ pc[b] = "whole" => Complete(d)
                        /\ pc[b] = "delete" => ~Complete(d)

\* No build of b's dataset but b's has deleted anything.
Alone(b) ==
    \A c \in Of(dataset[b]) \ {b} :
        pc[c] \in {"count", "delete", "whole"} /\ opened[c] = NoVersion

\* What b has added, or counted, is then still there.
Own(b) ==
    Alone(b) /\ dataset[b] # 0 =>
        /\ opened[b] # NoVersion =>
             \A k \in Batches : k <= written[b] => index[dataset[b]][k] # NoVersion
        /\ pc[b] = "whole" /\ opened[b] = NoVersion => Complete(dataset[b])

SinceInv == (\A d \in DOMAIN datasets : Since(d)) /\ (\A b \in Builders : Own(b))

\* All that is indexed of d, and all that builds read, is of version v.
Pure(d, v) ==
    /\ Sources(d) \subseteq {v}
    /\ \A k \in Batches : index[d][k] \in {v, NoVersion}

OnLine(v, q, k) == Header[v][k][q.orientation] = q.line
AxisOf(v, q)    == {Header[v][k][Across(q.orientation)] : k \in 1 .. BatchesOf[v]}

Queried(b)   == load[b] \in {"axis", "original", "filtered", "shown"}
Assembled(b) == load[b] \in {"original", "filtered", "shown"}

\* What the first query found.
PresentInv(b) ==
    LET d == dataset[b]  q == request[b] IN
    Queried(b) =>
        /\ DOMAIN present[b] \subseteq Batches
        /\ \A v \in Versions : Pure(d, v) =>
             /\ \A k \in DOMAIN present[b] :
                  /\ k <= BatchesOf[v] /\ OnLine(v, q, k)
                  /\ present[b][k] = Header[v][k][Across(q.orientation)]
             /\ Undisturbed(b, v) =>
                  \A k \in 1 .. BatchesOf[v] : OnLine(v, q, k) => k \in DOMAIN present[b]

\* What the second made of it.
SectionInv(b) ==
    LET s == section[b] IN
    Assembled(b) =>
        /\ \A c \in DOMAIN s.physical :
             IF Candidates(present[b], c) = {} THEN s.physical[c] = 0
                                               ELSE s.physical[c] \in Candidates(present[b], c)
        /\ \A v \in Versions : Pure(dataset[b], v) /\ Undisturbed(b, v) =>
             DOMAIN s.physical = AxisOf(v, request[b])

LoadInv ==
    \A b \in Builders :
        /\ load[b] # "none" => pc[b] = "whole" /\ request[b].orientation \in Orientations
        /\ PresentInv(b) /\ SectionInv(b)

FieldsInv ==
    /\ DOMAIN load = Builders /\ DOMAIN request = Builders /\ DOMAIN present = Builders
    /\ DOMAIN section = Builders
    /\ \A b \in Builders : DOMAIN section[b] = {"physical", "original", "filtered"}

JInv == SinceInv /\ FieldsInv /\ LoadInv

-----------------------------------------------------------------------------
(* What builds, imports and kills leave of it.                             *)

Tables == <<index, pc, dataset, opened, written>>

LEMMA SameIndex ==
    ASSUME UNCHANGED Tables, \A d \in DOMAIN datasets : datasets'[d] = datasets[d]
    PROVE  /\ \A d \in DOMAIN datasets : Since(d) => Since(d)'
           /\ \A b : dataset[b] \in DOMAIN datasets => (Own(b) => Own(b)')
           /\ \A d, v : Pure(d, v)' => Pure(d, v)
           /\ \A b, v : dataset[b] \in DOMAIN datasets =>
                (Undisturbed(b, v)' => Undisturbed(b, v))
<1>1. UNCHANGED <<index, pc, dataset, opened, written>>
  BY DEF Tables
<1>2. /\ \A d : Of(d)' = Of(d) /\ Sources(d)' = Sources(d) /\ Stored(d)' = Stored(d)
      /\ \A b : Alone(b)' <=> Alone(b)
  BY <1>1 DEF Of, Sources, Stored, Alone
<1>3. \A d \in DOMAIN datasets : NTraces(d)' = NTraces(d) /\ (Complete(d)' <=> Complete(d))
  BY <1>2 DEF NTraces, Complete
<1> QED BY <1>1, <1>2, <1>3 DEF Since, Own, Pure, Undisturbed

\* A step of one build, as the index of the dataset d sees it.
LEMMA SinceKeeps ==
    ASSUME IInv, NEW c \in Builders, BuildStep(c), NEW d \in DOMAIN datasets, Since(d)
    PROVE  Since(d)'
<1>1. datasets' = datasets /\ d # 0 /\ d \in Ids
  BY BuildKeepsImports, BoundsAssumption
  DEF IInv, ImportInv, ImportTypeOK, importVars, Ids
<1>2. NTraces(d)' = NTraces(d)
  BY <1>1 DEF NTraces
<1>3. dataset'[c] = dataset[c] \/ Begin(c)
  BY DEF BuildStep, Count, Delete, Open, AddBatch, Finish, BuildFails
<1>4. CASE Begin(c)
  <2>1. /\ pc[c] = "idle" /\ pc'[c] = "count" /\ c \notin Of(d)
        /\ UNCHANGED <<index, opened>> /\ opened[c] = NoVersion
        /\ \A b \in Builders \ {c} : pc'[b] = pc[b] /\ dataset'[b] = dataset[b]
    BY <1>1, <1>4 DEF IInv, BuildInv, Begin, At, Goto, Of
  <2>2. Sources(d)' = Sources(d) /\ (Complete(d)' <=> Complete(d))
    BY <1>2, <2>1 DEF Sources, Of, Complete, Stored
  <2> QED BY <2>1, <2>2 DEF Since, Of
<1>5. CASE Count(c)
  <2>1. /\ UNCHANGED <<index, opened, dataset>> /\ opened[c] = NoVersion
        /\ pc'[c] = IF Complete(dataset[c]) THEN "whole" ELSE "delete"
        /\ \A b \in Builders \ {c} : pc'[b] = pc[b]
    BY <1>5 DEF IInv, BuildInv, Count, At, Goto
  <2>2. /\ Sources(d)' = Sources(d) /\ (Complete(d)' <=> Complete(d)) /\ Of(d)' = Of(d)
        /\ Of(d) \subseteq Builders
    BY <1>2, <2>1 DEF Sources, Of, Complete, Stored
  <2>3. c \in Of(d) => dataset[c] = d
    BY DEF Of
  <2> QED BY <2>1, <2>2, <2>3 DEF Since
<1>6. CASE Delete(c)
  <2>1. /\ UNCHANGED <<opened, dataset>> /\ index \in [Ids -> [Batches -> Found]]
        /\ pc[c] = "delete" /\ pc'[c] = "open"
        /\ \A b \in Builders \ {c} : pc'[b] = pc[b]
    BY <1>6 DEF IInv, BuildInv, Delete, At, Goto
  <2>2. CASE dataset[c] = d
    <3>1. \A k \in Batches : index'[d][k] = NoVersion
      BY <1>1, <1>6, <2>1, <2>2 DEF Delete, Dropped, Nothing
    <3> QED BY <3>1 DEF Since
  <2>3. CASE dataset[c] # d
    <3>1. index'[d] = index[d] /\ c \notin Of(d) /\ Of(d)' = Of(d) /\ Of(d) \subseteq Builders
      BY <1>6, <2>1, <2>3 DEF Delete, Of
    <3>2. Sources(d)' = Sources(d) /\ (Complete(d)' <=> Complete(d))
      BY <1>2, <2>1, <3>1 DEF Sources, Complete, Stored
    <3> QED BY <2>1, <3>1, <3>2 DEF Since
  <2> QED BY <2>2, <2>3
<1>7. CASE Open(c)
  <2>1. /\ UNCHANGED <<index, dataset>> /\ opened[c] = NoVersion
        /\ pc[c] = "open" /\ pc'[c] = "add"
        /\ \A b \in Builders \ {c} : pc'[b] = pc[b] /\ opened'[b] = opened[b]
    BY <1>7 DEF IInv, BuildInv, Open, At, Goto
  <2>2. /\ Sources(d) \subseteq Sources(d)' /\ (Complete(d)' <=> Complete(d))
        /\ Of(d)' = Of(d) /\ Of(d) \subseteq Builders
    BY <1>2, <2>1 DEF Sources, Of, Complete, Stored
  <2>3. CASE c \in Of(d)
    BY <2>1, <2>2, <2>3 DEF Since
  <2>4. CASE c \notin Of(d)
    BY <2>1, <2>2, <2>4 DEF Since
  <2> QED BY <2>3, <2>4
<1>8. CASE AddBatch(c)
  <2>1. /\ UNCHANGED <<opened, dataset>> /\ opened[c] # NoVersion
        /\ index \in [Ids -> [Batches -> Found]]
        /\ pc'[c] \in {"add", "conflict"}
        /\ \A b \in Builders \ {c} : pc'[b] = pc[b]
        /\ index' = index \/ index' = [index EXCEPT ![dataset[c]][written[c] + 1] = opened[c]]
    BY <1>8 DEF IInv, BuildInv, AddBatch, At, Goto
  <2>2. /\ Sources(d)' = Sources(d) /\ Of(d)' = Of(d) /\ Of(d) \subseteq Builders
    BY <2>1 DEF Sources, Of
  <2>3. CASE dataset[c] = d
    <3>1. c \in Of(d) /\ opened[c] \in Sources(d)
      BY <2>1, <2>3 DEF Of, Sources
    <3>2. \A k \in Batches : index'[d][k] \in {index[d][k], opened[c]}
      BY <1>1, <2>1, <2>3
    <3> QED BY <2>1, <2>2, <3>1, <3>2 DEF Since
  <2>4. CASE dataset[c] # d
    <3>0. index'[d] = index[d]
      BY <1>1, <2>1, <2>4
    <3>1. index'[d] = index[d] /\ c \notin Of(d)
      BY <2>4, <3>0 DEF Of
    <3>2. Complete(d)' <=> Complete(d)
      BY <1>2, <3>1 DEF Complete, Stored
    <3> QED BY <2>1, <2>2, <3>1, <3>2 DEF Since
  <2> QED BY <2>3, <2>4
<1>9. CASE Finish(c) \/ BuildFails(c)
  <2>1. /\ UNCHANGED <<index, opened, dataset>>
        /\ pc'[c] = "failed" \/ (opened[c] # NoVersion /\ pc'[c] # "open")
        /\ \A b \in Builders \ {c} : pc'[b] = pc[b]
    BY <1>9 DEF IInv, BuildInv, Finish, BuildFails, At, Goto, Verdict
  <2>2. /\ Sources(d)' = Sources(d) /\ (Complete(d)' <=> Complete(d)) /\ Of(d)' = Of(d)
        /\ Of(d) \subseteq Builders
    BY <1>2, <2>1 DEF Sources, Of, Complete, Stored
  <2> QED BY <2>1, <2>2 DEF Since
<1> QED BY <1>4, <1>5, <1>6, <1>7, <1>8, <1>9 DEF BuildStep

\* Another build's step that leaves b's alone.
LEMMA OwnStays ==
    ASSUME NEW b \in Builders, NEW c \in Builders \ {b}, IInv, BuildStep(c), Own(b),
           dataset[b] # 0
    PROVE  /\ Own(b)' /\ (Alone(b)' => Alone(b))
           /\ pc'[b] = pc[b] /\ dataset'[b] = dataset[b] /\ opened'[b] = opened[b]
<1> DEFINE d == dataset[b]
<1>0. /\ pc'[b] = pc[b] /\ dataset'[b] = dataset[b] /\ opened'[b] = opened[b]
      /\ written'[b] = written[b]
      /\ \A e \in Builders \ {c} : /\ dataset'[e] = dataset[e] /\ pc'[e] = pc[e]
                                   /\ opened'[e] = opened[e]
  BY DEF IInv, BuildInv, BuildStep, Begin, Count, Delete, Open, AddBatch, Finish,
         BuildFails, Goto
<1>1. /\ datasets' = datasets /\ d \in Ids /\ d \in DOMAIN datasets
      /\ index \in [Ids -> [Batches -> Found]]
  BY BuildKeepsImports, BoundsAssumption
  DEF IInv, ImportInv, ImportTypeOK, BuildInv, importVars, Ids
<1>2. CASE dataset'[c] # d
  <2>1. index'[d] = index[d]
    BY <1>1, <1>2 DEF IInv, BuildInv, BuildStep, Begin, Count, Delete, Open, AddBatch,
                      Finish, BuildFails
  <2>2. Complete(d)' <=> Complete(d)
    BY <1>0, <1>1, <2>1 DEF Complete, NTraces, Stored
  <2>3. CASE Begin(c)
    <3>1. c \notin Of(d)
      BY <1>1, <2>3 DEF IInv, BuildInv, Begin, At, Of, Ids
    <3>2. Of(d)' = Of(d)
      BY <1>0, <1>2, <3>1 DEF Of
    <3>3. Alone(b)' <=> Alone(b)
      BY <1>0, <3>1, <3>2 DEF Alone, Of
    <3> QED BY <1>0, <2>1, <2>2, <3>3 DEF Own
  <2>4. CASE ~Begin(c)
    <3>1. dataset' = dataset
      BY <2>4 DEF BuildStep, Count, Delete, Open, AddBatch, Finish, BuildFails
    <3>2. Of(d)' = Of(d) /\ c \notin Of(d) /\ Of(d) \subseteq Builders
      BY <1>2, <3>1 DEF Of
    <3>3. Alone(b)' <=> Alone(b)
      BY <1>0, <3>2 DEF Alone
    <3> QED BY <1>0, <2>1, <2>2, <3>3 DEF Own
  <2> QED BY <2>3, <2>4
<1>3. CASE dataset'[c] = d
  <2>1. CASE Begin(c)
    <3>1. /\ c \notin Of(d) /\ index' = index /\ Of(d)' = Of(d) \cup {c}
      BY <1>0, <1>1, <1>3, <2>1 DEF IInv, BuildInv, Begin, At, Of, Ids
    <3>2. Complete(d)' <=> Complete(d)
      BY <1>0, <1>1, <3>1 DEF Complete, NTraces, Stored
    <3>3. Alone(b)' => Alone(b)
      BY <1>0, <3>1 DEF Alone, Of
    <3> QED BY <1>0, <3>1, <3>2, <3>3 DEF Own
  <2>2. CASE Count(c)
    <3>1. /\ UNCHANGED <<index, dataset, opened>> /\ pc[c] = "count"
          /\ opened[c] = NoVersion /\ Of(d)' = Of(d) /\ Of(d) \subseteq Builders
      BY <2>2 DEF IInv, BuildInv, Count, At, Of
    <3>2. Complete(d)' <=> Complete(d)
      BY <1>1, <3>1 DEF Complete, NTraces, Stored
    <3>3. Alone(b)' => Alone(b)
      BY <1>0, <3>1 DEF Alone
    <3> QED BY <1>0, <3>1, <3>2, <3>3 DEF Own
  <2>3. CASE ~Begin(c) /\ ~Count(c)
    <3>1. c \in (Of(d) \ {b})'
      BY <1>0, <1>3 DEF Of
    <3>2. pc'[c] \notin {"count", "delete", "whole"} \/ opened'[c] # NoVersion
      BY <2>3 DEF IInv, BuildInv, BuildStep, Delete, Open, AddBatch, Finish, BuildFails,
                  At, Goto, Verdict
    <3>3. ~Alone(b)'
      BY <1>0, <3>1, <3>2 DEF Alone
    <3> QED BY <1>0, <3>3 DEF Own
  <2> QED BY <2>1, <2>2, <2>3
<1> QED BY <1>2, <1>3

\* A build's own step.
LEMMA OwnKeeps ==
    ASSUME NEW b \in Builders, IInv, BuildStep(b), Own(b)
    PROVE  Own(b)'
<1> USE DEF IInv, BuildInv, Goto, At
<1>1. CASE Begin(b) \/ Open(b) \/ Delete(b)
  <2>1. written'[b] = 0 /\ pc'[b] # "whole"
    BY <1>1 DEF Begin, Open, Delete
  <2> QED BY <2>1, LargestSize DEF Own, Batches
<1>2. CASE Count(b)
  <2>1. /\ opened'[b] = NoVersion /\ dataset' = dataset
        /\ pc'[b] = "whole" => Complete(dataset[b])
        /\ Complete(dataset[b])' <=> Complete(dataset[b])
    BY <1>2 DEF Count, Complete, NTraces, Stored, importVars
  <2> QED BY <2>1 DEF Own
<1>3. CASE AddBatch(b)
  <2> DEFINE d == dataset[b]
             n == written[b] + 1
  <2>1. /\ UNCHANGED <<pc, dataset, opened>> \/ (UNCHANGED <<index, dataset, opened, written>>)
        /\ opened[b] # NoVersion /\ pc[b] = "add" /\ dataset' = dataset /\ opened' = opened
        /\ d \in Ids
    BY <1>3, BoundsAssumption DEF AddBatch, ImportInv, ImportTypeOK, Ids
  <2>2. \A c \in Builders \ {b} : pc'[c] = pc[c]
    BY <1>3 DEF AddBatch
  <2>3. Alone(b)' <=> Alone(b)
    BY <2>1, <2>2 DEF Alone, Of
  <2>4. CASE n \in Stored(d)
    BY <1>3, <2>1, <2>3, <2>4 DEF AddBatch, Own
  <2>5. CASE n \notin Stored(d)
    <3>1. /\ index' = [index EXCEPT ![d][n] = opened[b]]
          /\ written' = [written EXCEPT ![b] = n] /\ pc' = pc
      BY <1>3, <2>5 DEF AddBatch
    <3>2. \A k \in Batches : k <= n /\ k # n => k <= written[b]
      BY LargestSize DEF Batches
    <3>3. \A k \in Batches : index'[d][k] = IF k = n THEN opened[b] ELSE index[d][k]
      BY <2>1, <3>1
    <3> QED BY <2>1, <2>3, <3>1, <3>2, <3>3 DEF Own
  <2> QED BY <2>4, <2>5
<1>4. CASE Finish(b) \/ BuildFails(b)
  <2>1. /\ UNCHANGED <<index, dataset, opened, written>>
        /\ \A c \in Builders \ {b} : pc'[c] = pc[c]
        /\ opened'[b] = NoVersion => pc'[b] # "whole"
    BY <1>4 DEF Finish, BuildFails
  <2>2. Alone(b)' <=> Alone(b)
    BY <2>1 DEF Alone, Of
  <2> QED BY <2>1, <2>2 DEF Own
<1> QED BY <1>1, <1>2, <1>3, <1>4 DEF BuildStep

\* A viewer that has its index: what is there has been there since it looked.
LEMMA PureBefore ==
    ASSUME IInv, NEW b \in Builders, NEW c \in Builders, BuildStep(c), pc[b] = "whole",
           Since(dataset[b]), Own(b)
    PROVE  /\ b # c /\ pc'[b] = "whole" /\ dataset'[b] = dataset[b]
           /\ \A v : Pure(dataset[b], v)' => Pure(dataset[b], v)
           /\ \A v : Undisturbed(b, v)' => Undisturbed(b, v)
<1> DEFINE d == dataset[b]
<1>1. b # c
  BY DEF BuildStep, Begin, Count, Delete, Open, AddBatch, Finish, BuildFails, At, Ended
<1>2. /\ datasets' = datasets /\ d \in Ids /\ d # 0 /\ d \in DOMAIN datasets
      /\ index \in [Ids -> [Batches -> Found]]
  BY BuildKeepsImports, BoundsAssumption
  DEF IInv, ImportInv, ImportTypeOK, BuildInv, importVars, Ids
<1>3. /\ pc'[b] = pc[b] /\ dataset'[b] = d /\ (Alone(b)' => Alone(b))
  BY <1>1, <1>2, OwnStays
<1>4. Sources(d) \subseteq Sources(d)'
  <2>1. CASE Begin(c)
    <3>1. c \notin Of(d) /\ opened' = opened
          /\ \A e \in Builders \ {c} : dataset'[e] = dataset[e]
      BY <1>2, <2>1 DEF IInv, BuildInv, Begin, At, Of
    <3> QED BY <1>3, <3>1 DEF Sources, Of
  <2>2. CASE Open(c)
    <3>1. dataset' = dataset /\ opened[c] = NoVersion
          /\ \A e \in Builders \ {c} : opened'[e] = opened[e]
      BY <2>2 DEF IInv, BuildInv, Open, At
    <3> QED BY <3>1 DEF Sources, Of
  <2>3. CASE ~Begin(c) /\ ~Open(c)
    BY <2>3 DEF BuildStep, Count, Delete, AddBatch, Finish, BuildFails, Sources, Of
  <2> QED BY <2>1, <2>2, <2>3
<1>5. ASSUME NEW v, Pure(d, v)' PROVE Pure(d, v)
  <2>1. Sources(d) \subseteq {v}
    BY <1>3, <1>4, <1>5 DEF Pure
  <2>2. \A k \in Batches : index'[d][k] \in {v, NoVersion}
    BY <1>3, <1>5 DEF Pure
  <2>3. CASE index'[d] = index[d]
    BY <2>1, <2>2, <2>3 DEF Pure
  <2>4. CASE Delete(c) /\ index'[d] # index[d]
    <3>1. dataset[c] = d /\ pc[c] = "delete"
      BY <1>2, <2>4 DEF Delete, At
    <3>2. b \in Of(d) /\ c \in Of(d)
      BY <3>1 DEF Of
    <3>3. \A k \in Batches : index[d][k] # NoVersion => index[d][k] \in Sources(d)
      BY <3>1, <3>2 DEF Since
    <3> QED BY <2>1, <3>3 DEF Pure
  <2>5. CASE AddBatch(c) /\ index'[d] # index[d]
    <3>1. /\ index' = [index EXCEPT ![dataset[c]][written[c] + 1] = opened[c]]
          /\ written[c] + 1 \notin Stored(dataset[c])
      BY <2>5 DEF AddBatch
    <3>2. dataset[c] = d
      BY <1>2, <2>5, <3>1
    <3>3. \A k \in Batches : k # written[c] + 1 => index'[d][k] = index[d][k]
      BY <1>2, <3>1, <3>2
    <3>4. \A k \in Batches : k = written[c] + 1 => index[d][k] = NoVersion
      BY <3>1, <3>2 DEF Stored
    <3> QED BY <2>1, <2>2, <3>3, <3>4 DEF Pure
  <2> QED BY <2>3, <2>4, <2>5 DEF BuildStep, Begin, Count, Open, Finish, BuildFails
<1>6. ASSUME NEW v, Undisturbed(b, v)' PROVE Undisturbed(b, v)
  <2>1. Alone(b)' /\ BatchesOf[v] = NTraces(d)
    BY <1>2, <1>3, <1>6 DEF Undisturbed, Alone, NTraces
  <2> QED BY <1>3, <2>1 DEF Undisturbed, Alone
<1> QED BY <1>1, <1>3, <1>5, <1>6 DEF Pure

\* What the queries of an undisturbed viewer find.
LEMMA WholeIndex ==
    ASSUME IInv, NEW b \in Builders, pc[b] = "whole", Own(b), NEW v \in Versions,
           Pure(dataset[b], v), Undisturbed(b, v)
    PROVE  Stored(dataset[b]) = 1 .. BatchesOf[v]
<1> DEFINE d == dataset[b]
<1>1. d \in Ids /\ d # 0 /\ BatchesOf[v] = NTraces(d) /\ Alone(b)
  BY BoundsAssumption
  DEF IInv, ImportInv, ImportTypeOK, BuildInv, Ids, Undisturbed, Alone
<1>2. Stored(d) \subseteq 1 .. BatchesOf[v]
  BY <1>1, LargestSize DEF IInv, BuildInv, Pure, Stored, Batches
<1>3. CASE opened[b] # NoVersion
  <2>1. opened[b] = v
    BY <1>3 DEF Pure, Sources, Of
  <2>2. written[b] = BatchesOf[v]
    BY <1>3, <2>1 DEF IInv, BuildInv
  <2> QED BY <1>1, <1>2, <1>3, <2>2, LargestSize DEF Own, Stored, Batches
<1>4. CASE opened[b] = NoVersion
  <2>1. Cardinality(Stored(d)) = BatchesOf[v]
    BY <1>1, <1>4 DEF Own, Complete
  <2>2. /\ IsFiniteSet(1 .. BatchesOf[v])
        /\ Cardinality(1 .. BatchesOf[v]) = BatchesOf[v]
    <3> DEFINE n == BatchesOf[v]
    <3>1. 1 \in Int /\ n \in Int /\ n >= 1
      BY LargestSize
    <3> HIDE DEF n
    <3>2. IsFiniteSet(1 .. n) /\ Cardinality(1 .. n) = IF 1 > n THEN 0 ELSE n - 1 + 1
      BY <3>1, FS_Interval
    <3>3. IsFiniteSet(1 .. n) /\ Cardinality(1 .. n) = n
      BY <3>1, <3>2
    <3> QED BY <3>3 DEF n
  <2> QED BY <1>2, <2>1, <2>2, FS_Subset
<1> QED BY <1>3, <1>4

-----------------------------------------------------------------------------
(* Sections.                                                               *)

OneLoad(b) == /\ load[b] # "none" => pc[b] = "whole" /\ request[b].orientation \in Orientations
              /\ PresentInv(b) /\ SectionInv(b)

\* Nothing of b's section is touched, and its index is not less pure than before.
LEMMA LoadStays ==
    ASSUME NEW b \in Builders, OneLoad(b), load'[b] = load[b], request'[b] = request[b],
           present'[b] = present[b], section'[b] = section[b],
           load[b] # "none" =>
             /\ pc'[b] = pc[b] /\ dataset'[b] = dataset[b]
             /\ \A v : Pure(dataset[b], v)' => Pure(dataset[b], v)
             /\ \A v : Undisturbed(b, v)' => Undisturbed(b, v)
    PROVE  OneLoad(b)'
<1>1. CASE load[b] = "none"
  BY <1>1 DEF OneLoad, PresentInv, SectionInv, Queried, Assembled
<1>2. CASE load[b] # "none"
  <2>1. PresentInv(b)'
    BY <1>2 DEF OneLoad, PresentInv, Queried, OnLine
  <2>2. SectionInv(b)'
    BY <1>2 DEF OneLoad, SectionInv, Assembled, AxisOf, Candidates
  <2> QED BY <1>2, <2>1, <2>2 DEF OneLoad
<1> QED BY <1>1, <1>2

\* The first query.
LEMMA PresentFound ==
    ASSUME NEW b \in Builders, IInv, FieldsInv, Own(b), OneLoad(b), QueryPresent(b)
    PROVE  OneLoad(b)'
<1> DEFINE d == dataset[b]
           q == request[b]
           found == {k \in Stored(d) : Place(d, k)[q.orientation] = q.line}
<1>1. /\ load'[b] = "axis" /\ pc[b] = "whole" /\ UNCHANGED <<vars, request, section>>
      /\ present'[b] = [k \in found |-> Place(d, k)[Across(q.orientation)]]
      /\ q.orientation \in Orientations
  BY DEF QueryPresent, LoadAt, LoadGoto, FieldsInv, OneLoad
<1>2. UNCHANGED <<index, pc, dataset, opened, written, datasets>>
  BY <1>1 DEF vars, importVars, indexVars
<1>3. DOMAIN present'[b] = found /\ found \subseteq Batches
  BY <1>1 DEF Stored
<1>4. ASSUME NEW v \in Versions, Pure(d, v), NEW k \in found
      PROVE  /\ k <= BatchesOf[v] /\ OnLine(v, q, k)
             /\ present'[b][k] = Header[v][k][Across(q.orientation)]
  <2>1. index[d][k] = v /\ k \in Batches
    BY <1>4 DEF Pure, Stored
  <2>2. d \in Ids
    BY <1>1, BoundsAssumption DEF IInv, ImportInv, ImportTypeOK, BuildInv, Ids
  <2>3. k <= BatchesOf[v]
    BY <2>1, <2>2, <1>4, VersionsAssumption DEF IInv, BuildInv
  <2> QED BY <1>1, <1>4, <2>1, <2>3 DEF OnLine, Place
<1>5. ASSUME NEW v \in Versions, Pure(d, v), Undisturbed(b, v),
             NEW k \in 1 .. BatchesOf[v], OnLine(v, q, k)
      PROVE  k \in found
  <2>1. k \in Stored(d)
    BY <1>1, <1>5, WholeIndex
  <2>2. index[d][k] = v
    BY <1>5, <2>1 DEF Pure, Stored
  <2> QED BY <1>5, <2>1, <2>2 DEF OnLine, Place
<1>6. \A v : /\ Pure(d, v)' <=> Pure(d, v)
             /\ Undisturbed(b, v)' <=> Undisturbed(b, v)
  BY <1>2 DEF Pure, Sources, Of, Undisturbed, NTraces
<1>7. PresentInv(b)'
  BY <1>1, <1>2, <1>3, <1>4, <1>5, <1>6 DEF PresentInv, OnLine
<1>8. SectionInv(b)'
  BY <1>1 DEF SectionInv, Assembled
<1> QED BY <1>1, <1>2, <1>7, <1>8 DEF OneLoad

\* The second query, and the traces put in their places.
LEMMA SectionBuilt ==
    ASSUME NEW b \in Builders, IInv, FieldsInv, Own(b), OneLoad(b), QueryAxis(b)
    PROVE  OneLoad(b)' /\ FieldsInv'
<1> DEFINE d == dataset[b]
           q == request[b]
           axis == Axis(d, q.orientation, present[b])
<1>1. /\ load[b] = "axis" /\ pc[b] = "whole" /\ UNCHANGED <<vars, request, present>>
      /\ q.orientation \in Orientations
  BY DEF QueryAxis, LoadAt, OneLoad
<1>2. UNCHANGED <<index, pc, dataset, opened, written, datasets>>
  BY <1>1 DEF vars, importVars, indexVars
<1>3. \A v : /\ Pure(d, v)' <=> Pure(d, v)
             /\ Undisturbed(b, v)' <=> Undisturbed(b, v)
  BY <1>2 DEF Pure, Sources, Of, Undisturbed, NTraces
<1>4. PresentInv(b)'
  BY <1>1, <1>2, <1>3 DEF OneLoad, PresentInv, Queried, OnLine
<1>5. ASSUME NEW v \in Versions, Pure(d, v), Undisturbed(b, v)
      PROVE  axis = AxisOf(v, q)
  <2>1. Stored(d) = 1 .. BatchesOf[v]
    BY <1>1, <1>5, WholeIndex
  <2>2. \A k \in Stored(d) : Place(d, k) = Header[v][k]
    BY <1>5 DEF Stored, Pure, Place
  <2> QED BY <2>1, <2>2 DEF Axis, AxisOf
<1>6. CASE load'[b] = "failed"
  <2>1. load' = [load EXCEPT ![b] = "failed"] /\ section' = section
    BY <1>6 DEF QueryAxis, LoadGoto, FieldsInv
  <2> QED BY <1>1, <1>2, <1>4, <1>6, <2>1 DEF OneLoad, FieldsInv, SectionInv, Assembled
<1>7. CASE load'[b] # "failed"
  <2>1. PICK physical \in [axis -> 0 .. MaxBatches] :
          /\ \A c \in axis : IF Candidates(present[b], c) = {} THEN physical[c] = 0
                             ELSE physical[c] \in Candidates(present[b], c)
          /\ section' = [section EXCEPT ![b].physical = physical]
          /\ load' = [load EXCEPT ![b] = "original"]
    BY <1>7 DEF QueryAxis, LoadGoto, FieldsInv
  <2>2. section'[b] = [section[b] EXCEPT !.physical = physical]
        /\ DOMAIN section' = Builders
        /\ \A c \in Builders \ {b} : section'[c] = section[c]
    BY <2>1 DEF FieldsInv
  <2>3. section'[b].physical = physical
        /\ DOMAIN section'[b] = {"physical", "original", "filtered"}
    BY <2>2 DEF FieldsInv
  <2>4. DOMAIN physical = axis
    BY <2>1
  <2>5. SectionInv(b)'
    BY <1>1, <1>2, <1>3, <1>5, <2>1, <2>3, <2>4 DEF SectionInv, Candidates, AxisOf
  <2> QED BY <1>1, <1>2, <1>4, <2>1, <2>2, <2>3, <2>5 DEF OneLoad, FieldsInv
<1> QED BY <1>6, <1>7

\* The amplitudes are read, or something fails: every trace keeps its place.
LEMMA SectionRead ==
    ASSUME NEW b \in Builders, FieldsInv, OneLoad(b),
           BeginLoad(b) \/ ReadOriginal(b) \/ ReadFiltered(b) \/ LoadFails(b)
    PROVE  OneLoad(b)' /\ FieldsInv'
<1>1. UNCHANGED vars /\ present' = present
  BY DEF BeginLoad, ReadOriginal, ReadFiltered, LoadFails
<1>2. UNCHANGED <<index, pc, dataset, opened, written, datasets>>
  BY <1>1 DEF vars, importVars, indexVars
<1>3. \A v : /\ Pure(dataset[b], v)' <=> Pure(dataset[b], v)
             /\ Undisturbed(b, v)' <=> Undisturbed(b, v)
  BY <1>2 DEF Pure, Sources, Of, Undisturbed, NTraces
<1>4. CASE BeginLoad(b)
  <2>1. PICK r \in [target : {Preview, "job"}, orientation : Orientations,
                    line : UNION {LineNumbers(dataset[b], o) : o \in Orientations}] :
          request' = [request EXCEPT ![b] = r]
    BY <1>4 DEF BeginLoad
  <2>2. load' = [load EXCEPT ![b] = "present"] /\ pc[b] = "whole" /\ section' = section
    BY <1>4 DEF BeginLoad, LoadGoto, At
  <2>3. load'[b] = "present" /\ request'[b].orientation \in Orientations
        /\ DOMAIN load' = Builders /\ DOMAIN request' = Builders
    BY <2>1, <2>2 DEF FieldsInv
  <2> QED BY <1>1, <1>2, <2>2, <2>3
          DEF OneLoad, FieldsInv, PresentInv, SectionInv, Queried, Assembled
<1>5. CASE ~BeginLoad(b)
  <2>1. /\ request' = request /\ DOMAIN load' = Builders /\ load[b] # "none"
        /\ load'[b] \in {"filtered", "shown", "failed"}
        /\ Assembled(b)' => Assembled(b)
    BY <1>5 DEF ReadOriginal, ReadFiltered, LoadFails, LoadAt, LoadGoto, FieldsInv,
                Assembled
  <2>2. \/ section' = section
        \/ \E x : section' = [section EXCEPT ![b].original = x]
        \/ \E x : section' = [section EXCEPT ![b].filtered = x]
    BY <1>5 DEF ReadOriginal, ReadFiltered, LoadFails
  <2>3. /\ section'[b].physical = section[b].physical
        /\ DOMAIN section' = Builders
        /\ \A c \in Builders : DOMAIN section'[c] = {"physical", "original", "filtered"}
    <3>1. CASE section' = section
      BY <3>1 DEF FieldsInv
    <3>2. ASSUME NEW x, section' = [section EXCEPT ![b].original = x]
                        \/ section' = [section EXCEPT ![b].filtered = x]
          PROVE  /\ section'[b].physical = section[b].physical
                 /\ DOMAIN section' = Builders
                 /\ \A c \in Builders :
                      DOMAIN section'[c] = {"physical", "original", "filtered"}
      <4>1. /\ DOMAIN section' = Builders
            /\ \A c \in Builders \ {b} : section'[c] = section[c]
            /\ \/ section'[b] = [section[b] EXCEPT !.original = x]
               \/ section'[b] = [section[b] EXCEPT !.filtered = x]
        BY <3>2 DEF FieldsInv
      <4>2. /\ section'[b].physical = section[b].physical
            /\ DOMAIN section'[b] = {"physical", "original", "filtered"}
        BY <4>1 DEF FieldsInv
      <4> QED BY <4>1, <4>2 DEF FieldsInv
    <3> QED BY <2>2, <3>1, <3>2
  <2>4. Queried(b)' => Queried(b)
    BY <2>1 DEF Queried, Assembled
  <2>5. PresentInv(b)'
    BY <1>1, <1>2, <1>3, <2>1, <2>4 DEF OneLoad, PresentInv, OnLine
  <2>6. SectionInv(b)'
    BY <1>1, <1>2, <1>3, <2>1, <2>3 DEF OneLoad, SectionInv, Candidates, AxisOf
  <2> QED BY <1>1, <1>2, <2>1, <2>3, <2>5, <2>6 DEF OneLoad, FieldsInv
<1> QED BY <1>4, <1>5

LEMMA SinceStays ==
    ASSUME UNCHANGED <<index, pc, dataset, opened, written, datasets>>, SinceInv
    PROVE  SinceInv'
<1>1. \A d \in DOMAIN datasets : Since(d) => Since(d)'
  BY SameIndex DEF Tables
<1>2. \A b : Own(b)' <=> Own(b)
  BY DEF Own, Alone, Of, Complete, Stored, NTraces
<1> QED BY <1>1, <1>2 DEF SinceInv

\* The steps of a load.
LEMMA LoadStepKeeps ==
    ASSUME IInv, JInv, NEW c \in Builders, LoadStep(c)
    PROVE  JInv'
<1>1. UNCHANGED vars
  BY DEF LoadStep, BeginLoad, QueryPresent, QueryAxis, ReadOriginal, ReadFiltered, LoadFails
<1>2. UNCHANGED <<index, pc, dataset, opened, written, datasets>>
  BY <1>1 DEF vars, importVars, indexVars
<1>3. SinceInv'
  BY <1>2, SinceStays DEF JInv
<1>4. OneLoad(c)' /\ FieldsInv'
  <2>1. OneLoad(c) /\ Own(c) /\ FieldsInv
    BY DEF JInv, LoadInv, OneLoad, SinceInv
  <2>2. CASE QueryPresent(c)
    BY <2>1, <2>2, PresentFound DEF FieldsInv, QueryPresent, LoadGoto
  <2>3. CASE QueryAxis(c)
    BY <2>1, <2>3, SectionBuilt
  <2> QED BY <2>1, <2>2, <2>3, SectionRead DEF LoadStep
<1>5. ASSUME NEW b \in Builders, b # c PROVE OneLoad(b)'
  <2>1. /\ load'[b] = load[b] /\ request'[b] = request[b] /\ present'[b] = present[b]
        /\ section'[b] = section[b]
    BY <1>5 DEF LoadStep, BeginLoad, QueryPresent, QueryAxis, ReadOriginal, ReadFiltered,
                LoadFails, LoadGoto, JInv, FieldsInv
  <2>2. OneLoad(b)
    BY DEF JInv, LoadInv, OneLoad
  <2>3. \A v : /\ Pure(dataset[b], v)' <=> Pure(dataset[b], v)
               /\ Undisturbed(b, v)' <=> Undisturbed(b, v)
    BY <1>2 DEF Pure, Sources, Of, Undisturbed, NTraces
  <2> QED BY <1>2, <2>1, <2>2, <2>3, LoadStays
<1> QED BY <1>3, <1>4, <1>5 DEF JInv, LoadInv, OneLoad

\* The steps of a build, under the sections that others assemble.
LEMMA BuildStepKeeps ==
    ASSUME IInv, JInv, NEW c \in Builders, BuildStep(c), UNCHANGED loadVars
    PROVE  JInv'
<1>1. UNCHANGED <<load, request, present, section>> /\ datasets' = datasets
  BY BuildKeepsImports DEF IInv, loadVars, importVars
<1>2. \A d \in DOMAIN datasets : Since(d)'
  BY SinceKeeps DEF JInv, SinceInv
<1>3. ASSUME NEW b \in Builders PROVE Own(b)'
  <2>1. Own(b)
    BY DEF JInv, SinceInv
  <2>2. CASE b = c
    BY <2>1, <2>2, OwnKeeps
  <2>3. CASE b # c /\ dataset[b] # 0
    BY <2>1, <2>3, OwnStays
  <2>4. CASE b # c /\ dataset[b] = 0
    <3>1. dataset'[b] = 0
      BY <2>4 DEF IInv, BuildInv, BuildStep, Begin, Count, Delete, Open, AddBatch, Finish,
                  BuildFails
    <3> QED BY <3>1 DEF Own
  <2> QED BY <2>2, <2>3, <2>4
<1>4. ASSUME NEW b \in Builders PROVE OneLoad(b)'
  <2>1. OneLoad(b) /\ Own(b)
    BY DEF JInv, SinceInv, LoadInv, OneLoad
  <2>2. CASE load[b] = "none"
    BY <1>1, <2>1, <2>2, LoadStays
  <2>3. CASE load[b] # "none"
    <3>1. pc[b] = "whole"
      BY <2>1, <2>3 DEF OneLoad
    <3>2. dataset[b] \in DOMAIN datasets
      BY <3>1 DEF IInv, BuildInv, ImportInv, ImportTypeOK, Ended
    <3>3. Since(dataset[b])
      BY <3>2 DEF JInv, SinceInv
    <3>4. /\ pc'[b] = pc[b] /\ dataset'[b] = dataset[b]
          /\ \A v : Pure(dataset[b], v)' => Pure(dataset[b], v)
          /\ \A v : Undisturbed(b, v)' => Undisturbed(b, v)
      BY <2>1, <3>1, <3>3, PureBefore
    <3> QED BY <1>1, <2>1, <3>4, LoadStays
  <2> QED BY <2>2, <2>3
<1>5. FieldsInv'
  BY <1>1 DEF JInv, FieldsInv
<1> QED BY <1>1, <1>2, <1>3, <1>4, <1>5 DEF JInv, SinceInv, LoadInv, OneLoad

\* Imports only add datasets that nobody has begun to index.
LEMMA ImportStepKeeps ==
    ASSUME IInv, JInv, ImportNext, UNCHANGED <<indexVars, loadVars>>
    PROVE  JInv'
<1>1. /\ UNCHANGED <<load, request, present, section>>
      /\ UNCHANGED <<index, pc, dataset, opened, written>>
  BY DEF loadVars, indexVars
<1>2. /\ Len(datasets) \in Nat /\ DOMAIN datasets = 1 .. Len(datasets)
      /\ \A b \in Builders : dataset[b] \in 0 .. Len(datasets)
  BY DEF IInv, BuildInv, ImportInv, ImportTypeOK
<1>3. \A d \in DOMAIN datasets : datasets'[d] = datasets[d]
  BY <1>2, ImportMoves DEF IInv
<1>4. /\ \A d \in DOMAIN datasets : Since(d) => Since(d)'
      /\ \A b : dataset[b] \in DOMAIN datasets => (Own(b) => Own(b)')
      /\ \A d, v : Pure(d, v)' => Pure(d, v)
      /\ \A b, v : dataset[b] \in DOMAIN datasets => (Undisturbed(b, v)' => Undisturbed(b, v))
  BY <1>1, <1>3, SameIndex DEF Tables
<1>5. ASSUME NEW d \in DOMAIN datasets' PROVE Since(d)'
  <2>1. CASE d \in DOMAIN datasets
    BY <1>4, <2>1 DEF JInv, SinceInv
  <2>2. CASE d \notin DOMAIN datasets
    <3>1. d # 0
      <4>1. datasets' \in Seq(Datasets)
        BY ImportMoves DEF IInv, ImportInv, ImportTypeOK
      <4> QED BY <4>1
    <3>2. Of(d)' = {}
      BY <1>1, <1>2, <2>2, <3>1 DEF Of
    <3> QED BY <3>2 DEF Since
  <2> QED BY <2>1, <2>2
<1>6. ASSUME NEW b \in Builders PROVE Own(b)'
  <2>1. CASE dataset[b] = 0
    BY <1>1, <2>1 DEF Own
  <2>2. CASE dataset[b] # 0
    BY <1>2, <1>4, <2>2 DEF JInv, SinceInv
  <2> QED BY <2>1, <2>2
<1>7. ASSUME NEW b \in Builders PROVE OneLoad(b)'
  <2>1. OneLoad(b)
    BY DEF JInv, LoadInv, OneLoad
  <2>2. load[b] # "none" => dataset[b] \in DOMAIN datasets
    BY <1>2, <2>1 DEF OneLoad, IInv, BuildInv
  <2> QED BY <1>1, <1>4, <2>1, <2>2, LoadStays
<1>8. FieldsInv'
  BY <1>1 DEF JInv, FieldsInv
<1> QED BY <1>5, <1>6, <1>7, <1>8 DEF JInv, SinceInv, LoadInv, OneLoad

\* A step that touches neither tables, builds nor loads.
LEMMA JStays ==
    ASSUME JInv, UNCHANGED <<vars, load, request, present, section>>
    PROVE  JInv'
<1>1. UNCHANGED <<index, pc, dataset, opened, written, datasets>>
  BY DEF vars, importVars, indexVars
<1>2. SinceInv'
  BY <1>1, SinceStays DEF JInv
<1>3. \A b, v : /\ Pure(dataset[b], v)' => Pure(dataset[b], v)
                /\ Undisturbed(b, v)' => Undisturbed(b, v)
  BY <1>1 DEF Pure, Sources, Of, Undisturbed, NTraces
<1>4. \A b \in Builders : OneLoad(b)'
  BY <1>1, <1>3, LoadStays DEF JInv, LoadInv, OneLoad
<1> QED BY <1>2, <1>4 DEF JInv, FieldsInv, LoadInv, OneLoad

\* Nobody has begun to index anything, or to load.
LEMMA NobodyLoads ==
    ASSUME \A b \in Builders : /\ dataset[b] = 0 /\ load[b] = "none",
           FieldsInv, 0 \notin DOMAIN datasets
    PROVE  JInv
<1>1. \A d \in DOMAIN datasets : Of(d) = {}
  BY DEF Of
<1>2. SinceInv
  BY <1>1 DEF SinceInv, Since, Own
<1> QED BY <1>2 DEF JInv, LoadInv, PresentInv, SectionInv, Queried, Assembled

-----------------------------------------------------------------------------
(* The theorems.                                                           *)

\* Builds, loads and the index agree as JInv says, whatever interleaves.
THEOREM SectionInvariant == LoadSpec => [](IInv /\ JInv)
<1>1. LoadInit => IInv /\ JInv
  <2> SUFFICES ASSUME LoadInit PROVE IInv /\ JInv
    OBVIOUS
  <2>1. IInv
    BY IndexStarts DEF LoadInit
  <2>2. FieldsInv
    BY DEF LoadInit, FieldsInv, NoSection
  <2>3. 0 \notin DOMAIN datasets /\ \A b \in Builders : dataset[b] = 0 /\ load[b] = "none"
    BY DEF LoadInit, Init, ImportInit
  <2> QED BY <2>1, <2>2, <2>3, NobodyLoads
<1>2. ASSUME IInv, JInv, LoadNext PROVE JInv'
  <2>1. CASE ImportNext /\ UNCHANGED <<indexVars, loadVars>>
    BY <1>2, <2>1, ImportStepKeeps
  <2>2. CASE \E b \in Builders : BuildStep(b) /\ UNCHANGED loadVars
    BY <1>2, <2>2, BuildStepKeeps
  <2>3. CASE \E b \in Builders : LoadStep(b)
    BY <1>2, <2>3, LoadStepKeeps
  <2>4. CASE \E d \in DOMAIN datasets : JobCompletes(d)
    <3>1. UNCHANGED <<vars, load, request, present, section>>
      BY <2>4 DEF JobCompletes
    <3> QED BY <1>2, <3>1, JStays
  <2>5. CASE LoadKill
    <3>1. /\ \A b \in Builders : dataset'[b] = 0 /\ load'[b] = "none"
          /\ datasets' = datasets
      BY <2>5 DEF LoadKill, Kill
    <3>2. 0 \notin DOMAIN datasets'
      BY <1>2, <3>1 DEF IInv, ImportInv, ImportTypeOK
    <3>3. FieldsInv'
      BY <2>5 DEF LoadKill, FieldsInv, NoSection
    <3>4. JInv'
      BY <3>1, <3>2, <3>3
      DEF JInv, SinceInv, Since, Own, Of, LoadInv, PresentInv, SectionInv, Queried,
          Assembled
    <3> QED BY <3>4
  <2> QED BY <1>2, <2>1, <2>2, <2>3, <2>4, <2>5 DEF LoadNext
<1>3. ASSUME JInv, UNCHANGED allVars PROVE JInv'
  BY <1>3, JStays DEF allVars, loadVars
<1> QED BY <1>1, <1>2, <1>3, SectionsOnlyRead, IndexInvariant, PTL DEF LoadSpec

\* A section that is shown is one of the file: no trace stands at another's
\* place, and where only this viewer has touched the index it misses none.
THEOREM SectionsAreOfTheFile == LoadSpec => []SectionIsOfTheFile
<1>1. ASSUME IInv, JInv, NEW b \in Builders, Shown(b), NEW v \in Versions, AllOf(b, v)
      PROVE  /\ \A c \in DOMAIN section[b].physical :
                  /\ IsPresent(section[b], c) =>
                       section[b].physical[c] \in TracesAt(v, request[b], c)
                  /\ Undisturbed(b, v) =>
                       (IsPresent(section[b], c) <=> TracesAt(v, request[b], c) # {})
             /\ Undisturbed(b, v) => DOMAIN section[b].physical = AxisOf(v, request[b])
  <2> DEFINE d == dataset[b]
             q == request[b]
             s == section[b]
  <2>1. /\ pc[b] = "whole" /\ q.orientation \in Orientations
        /\ PresentInv(b) /\ SectionInv(b) /\ Queried(b) /\ Assembled(b)
    BY <1>1 DEF JInv, LoadInv, Shown, LoadAt, Queried, Assembled
  <2>2. Pure(d, v)
    BY <1>1 DEF AllOf, Pure, Stored
  <2>3. \A k \in 1 .. BatchesOf[v] : \A c :
          (OnLine(v, q, k) /\ Header[v][k][Across(q.orientation)] = c)
            <=> k \in TracesAt(v, q, c)
    <3>1. \A k \in 1 .. BatchesOf[v] :
            Header[v][k] = [inline |-> Header[v][k].inline,
                            crossline |-> Header[v][k].crossline]
      BY HeaderAssumption
    <3>2. CASE q.orientation = "inline"
      BY <3>1, <3>2 DEF OnLine, TracesAt, Across
    <3>3. CASE q.orientation = "crossline"
      BY <3>1, <3>3 DEF OnLine, TracesAt, Across
    <3> QED BY <2>1, <3>2, <3>3 DEF Orientations
  <2>4. DOMAIN present[b] \subseteq Batches /\ BatchesOf[v] \in Nat /\ 0 \notin Batches
    BY <2>1, LargestSize DEF PresentInv, Batches
  <2>5. \A c : Candidates(present[b], c) \subseteq TracesAt(v, q, c)
    BY <2>1, <2>2, <2>3, <2>4 DEF PresentInv, Candidates, Batches
  <2>6. Undisturbed(b, v) => \A c : TracesAt(v, q, c) \subseteq Candidates(present[b], c)
    BY <2>1, <2>2, <2>3 DEF PresentInv, Candidates, TracesAt
  <2>7. \A c \in DOMAIN s.physical :
          /\ IsPresent(s, c) => s.physical[c] \in Candidates(present[b], c)
          /\ Candidates(present[b], c) # {} => IsPresent(s, c)
    BY <2>1, <2>4 DEF SectionInv, IsPresent, Candidates
  <2>8. Undisturbed(b, v) => DOMAIN s.physical = AxisOf(v, q)
    BY <2>1, <2>2 DEF SectionInv
  <2> QED BY <2>5, <2>6, <2>7, <2>8
<1>2. IInv /\ JInv => SectionIsOfTheFile
  BY <1>1 DEF SectionIsOfTheFile, AxisOf
<1> QED BY <1>2, SectionInvariant, PTL

-----------------------------------------------------------------------------
(* The types.                                                              *)

LoadSteps == {"none", "present", "axis", "original", "filtered", "shown", "failed"}

\* A section's amplitudes are of a version of the file, and its traces are
\* batches of the index.
IsSection(s) ==
    /\ s.original \in Found /\ s.filtered \in Found
    /\ \A c \in DOMAIN s.physical : s.physical[c] \in 0 .. MaxBatches

LoadRanges ==
    /\ output \in [Ids -> Found]
    /\ load \in [Builders -> LoadSteps]
    /\ \A b \in Builders :
         /\ request[b].target \in {Preview, "job"}
         /\ request[b].orientation \in Orientations
         /\ IsSection(section[b])

LEMMA LoadStepRanges ==
    ASSUME IInv, JInv, LoadRanges, NEW b \in Builders, LoadStep(b)
    PROVE  LoadRanges'
<1>1. UNCHANGED <<vars, output>> /\ Ids' = Ids
  BY DEF LoadStep, BeginLoad, QueryPresent, QueryAxis, ReadOriginal, ReadFiltered, LoadFails,
         Ids
<1>2. ASSUME NEW s \in LoadSteps, load' = [load EXCEPT ![b] = s]
      PROVE  load' \in [Builders -> LoadSteps]
  BY <1>2 DEF LoadRanges
<1>3. CASE BeginLoad(b)
  <2>1. PICK target \in {Preview, "job"}, o \in Orientations :
          \E l \in LineNumbers(dataset[b], o) : request' =
            [request EXCEPT ![b] = [target |-> target, orientation |-> o, line |-> l]]
    BY <1>3, Zenon DEF BeginLoad
  <2>2. \A c \in Builders : /\ request'[c].target \in {Preview, "job"}
                            /\ request'[c].orientation \in Orientations
    BY <2>1 DEF LoadRanges, JInv, FieldsInv
  <2>3. load' \in [Builders -> LoadSteps]
    BY <1>2, <1>3 DEF BeginLoad, LoadGoto, LoadSteps
  <2> QED BY <1>1, <1>3, <2>2, <2>3 DEF LoadRanges, BeginLoad
<1>4. CASE QueryPresent(b) \/ LoadFails(b)
  <2>1. load' \in [Builders -> LoadSteps]
    BY <1>2, <1>4 DEF QueryPresent, LoadFails, LoadGoto, LoadSteps
  <2> QED BY <1>1, <1>4, <2>1 DEF LoadRanges, QueryPresent, LoadFails
<1>5. ASSUME NEW t, UNCHANGED request, section' = [section EXCEPT ![b] = t], IsSection(t),
             load' \in [Builders -> LoadSteps]
      PROVE  LoadRanges'
  <2>1. \A c \in Builders : section'[c] \in {t, section[c]}
    BY <1>5 DEF JInv, FieldsInv
  <2> QED BY <1>1, <1>5, <2>1 DEF LoadRanges, IsSection
<1>6. ASSUME UNCHANGED <<request, section>>, load' \in [Builders -> LoadSteps]
      PROVE  LoadRanges'
  BY <1>1, <1>6 DEF LoadRanges
<1>7. CASE QueryAxis(b)
  <2> DEFINE axis == Axis(dataset[b], request[b].orientation, present[b])
  <2>1. load' \in [Builders -> LoadSteps] /\ UNCHANGED request
    BY <1>2, <1>7 DEF QueryAxis, LoadGoto, LoadSteps
  <2>2. CASE UNCHANGED section
    BY <1>6, <2>1, <2>2
  <2>3. ASSUME NEW physical \in [axis -> 0 .. MaxBatches],
               section' = [section EXCEPT ![b].physical = physical]
        PROVE  LoadRanges'
    <3> DEFINE t == [section[b] EXCEPT !.physical = physical]
    <3>1. IsSection(t)
      <4>1. /\ t.original = section[b].original /\ t.filtered = section[b].filtered
            /\ t.physical = physical
        BY DEF JInv, FieldsInv
      <4>2. \A c \in DOMAIN physical : physical[c] \in 0 .. MaxBatches
        <5> HIDE DEF axis
        <5> QED OBVIOUS
      <4> HIDE DEF t
      <4> QED BY <4>1, <4>2 DEF LoadRanges, IsSection
    <3>2. section' = [section EXCEPT ![b] = t]
      BY <2>3
    <3> HIDE DEF t
    <3> QED BY <1>5, <2>1, <3>1, <3>2
  <2> HIDE DEF axis
  <2> QED BY <1>7, <2>2, <2>3 DEF QueryAxis, axis
<1>8. CASE ReadOriginal(b)
  <2>1. load' \in [Builders -> LoadSteps] /\ UNCHANGED request
    BY <1>2, <1>8 DEF ReadOriginal, LoadGoto, LoadSteps
  <2>2. CASE UNCHANGED section
    BY <1>6, <2>1, <2>2
  <2>3. CASE section' = [section EXCEPT ![b].original = file]
    <3> DEFINE t == [section[b] EXCEPT !.original = file]
    <3>1. IsSection(t)
      BY DEF JInv, FieldsInv, LoadRanges, IsSection, IInv, ImportInv, ImportTypeOK
    <3>2. section' = [section EXCEPT ![b] = t]
      BY <2>3
    <3> HIDE DEF t
    <3> QED BY <1>5, <2>1, <3>1, <3>2
  <2> QED BY <1>8, <2>2, <2>3 DEF ReadOriginal
<1>9. CASE ReadFiltered(b)
  <2>1. load' \in [Builders -> LoadSteps] /\ UNCHANGED request
    BY <1>2, <1>9 DEF ReadFiltered, LoadGoto, LoadSteps
  <2>2. CASE UNCHANGED section
    BY <1>6, <2>1, <2>2
  <2>3. ASSUME NEW v \in Found, section' = [section EXCEPT ![b].filtered = v]
        PROVE  LoadRanges'
    <3> DEFINE t == [section[b] EXCEPT !.filtered = v]
    <3>1. IsSection(t)
      BY DEF JInv, FieldsInv, LoadRanges, IsSection
    <3>2. section' = [section EXCEPT ![b] = t]
      BY <2>3
    <3> HIDE DEF t
    <3> QED BY <1>5, <2>1, <3>1, <3>2
  <2>4. section[b].original \in Found
    BY DEF LoadRanges, IsSection
  <2>5. output[dataset[b]] \in Found
    <3>1. pc[b] = "whole"
      BY <1>9 DEF ReadFiltered, LoadAt, JInv, LoadInv
    <3>2. dataset[b] # 0 /\ dataset[b] \in 0 .. Len(datasets)
          /\ Len(datasets) \in Nat /\ Len(datasets) <= MaxDatasets
      BY <3>1 DEF IInv, BuildInv, ImportInv, ImportTypeOK
    <3>3. dataset[b] \in Ids
      BY <3>2, BoundsAssumption DEF Ids
    <3> QED BY <3>3 DEF LoadRanges
  <2> QED BY <1>9, <2>2, <2>3, <2>4, <2>5 DEF ReadFiltered
<1> QED BY <1>3, <1>4, <1>7, <1>8, <1>9 DEF LoadStep

LEMMA LoadRangesKept ==
    ASSUME IInv, JInv, LoadRanges, [LoadNext]_allVars
    PROVE  LoadRanges'
<1> USE DEF Ids
<1>1. ASSUME UNCHANGED loadVars PROVE LoadRanges'
  BY <1>1 DEF LoadRanges, loadVars, IsSection
<1>2. ASSUME NEW d \in DOMAIN datasets, JobCompletes(d) PROVE LoadRanges'
  <2>1. output' \in [Ids -> Found]
    BY <1>2 DEF JobCompletes, LoadRanges, IInv, ImportInv, ImportTypeOK
  <2> QED BY <1>2, <2>1 DEF JobCompletes, LoadRanges, IsSection
<1>3. CASE LoadKill
  BY <1>3 DEF LoadKill, LoadRanges, LoadSteps, IsSection, NoRequest, NoSection, Orientations,
              Found
<1> QED BY <1>1, <1>2, <1>3, LoadStepRanges DEF LoadNext, allVars

\* Every variable of the imports, the builds and the loads has its type: a
\* build writes no batch past the largest file, and a section refers to no
\* trace outside the index, whatever version it was looked up in.
THEOREM LoadTypeCorrect == LoadSpec => []LoadTypeOK
<1>1. LoadInit => LoadRanges
  BY DEF LoadInit, LoadRanges, LoadSteps, IsSection, NoRequest, NoSection, Orientations, Found
<1>2. IInv /\ JInv /\ LoadRanges /\ [LoadNext]_allVars => LoadRanges'
  BY LoadRangesKept
<1>3. ASSUME IInv, JInv, LoadRanges PROVE LoadTypeOK
  <2>1. written \in [Builders -> 0 .. MaxBatches]
    <3>1. ASSUME NEW b \in Builders PROVE written[b] \in 0 .. MaxBatches
      <4>1. /\ written[b] \in Nat /\ opened[b] \in Found
            /\ opened[b] = NoVersion => written[b] = 0
            /\ opened[b] # NoVersion => written[b] <= BatchesOf[opened[b]]
        BY <1>3 DEF IInv, BuildInv
      <4> QED BY <4>1, LargestSize DEF Found
    <3> QED BY <1>3, <3>1 DEF IInv, BuildInv
  <2>2. dataset \in [Builders -> 0 .. MaxDatasets]
    BY <1>3, BoundsAssumption DEF IInv, BuildInv, ImportInv, ImportTypeOK
  <2>3. TypeOK
    BY <1>3, <2>1, <2>2 DEF IInv, BuildInv, ImportInv, TypeOK
  <2>4. ASSUME NEW b \in Builders PROVE Indices(section[b]) \subseteq Batches
    BY <1>3, LargestSize DEF LoadRanges, IsSection, Indices, IsPresent, Batches
  <2> QED BY <1>3, <2>3, <2>4 DEF LoadRanges, IsSection, LoadSteps, LoadTypeOK
<1> QED BY <1>1, <1>2, <1>3, SectionInvariant, PTL DEF LoadSpec
=============================================================================
