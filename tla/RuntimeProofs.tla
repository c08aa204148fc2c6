----------------------------- MODULE RuntimeProofs -----------------------------
(***************************************************************************)
(* Proofs about JobRuntime: the partition of a chunk is exact, a chunk     *)
(* comes back in order, and the runtime implements AtomicRuntime, for all  *)
(* numbers of traces, of traces per chunk and of processes.                *)
(***************************************************************************)
EXTENDS JobRuntime, TLAPS

\* What a concatenation holds.
LEMMA Concat ==
    ASSUME NEW s \in Seq(Nat), NEW t \in Seq(Nat)
    PROVE  /\ s \o t \in Seq(Nat)
           /\ Len(s \o t) = Len(s) + Len(t)
           /\ \A i \in 1 .. Len(s) : (s \o t)[i] = s[i]
           /\ \A i \in 1 .. Len(t) : (s \o t)[Len(s) + i] = t[i]
OBVIOUS

-----------------------------------------------------------------------------
(* The arithmetic of partition_trace_ranges().                             *)

Base(n) == n \div PartitionCount(n)
Rest(n) == n % PartitionCount(n)

\* Where range k of a chunk of n traces ends.
Edge(n, k) == k * Base(n) + (IF k <= Rest(n) THEN k ELSE Rest(n))

\* Division with remainder of a chunk by the number of ranges.
LEMMA Division ==
    ASSUME NEW n \in Nat \ {0}
    PROVE  /\ PartitionCount(n) \in 1 .. ParallelWorkers /\ PartitionCount(n) <= n
           /\ PartitionCount(n) \in Nat \ {0}
           /\ Base(n) \in Nat \ {0}
           /\ Rest(n) \in 0 .. PartitionCount(n) - 1
           /\ n = PartitionCount(n) * Base(n) + Rest(n)
<1>1. /\ PartitionCount(n) \in 1 .. ParallelWorkers /\ PartitionCount(n) <= n
      /\ PartitionCount(n) \in Nat \ {0}
  BY WorkersAssumption DEF PartitionCount
<1>2. PICK c \in Nat \ {0} : c = PartitionCount(n) /\ c <= n
  BY <1>1
<1>3. n \div c \in Nat /\ n % c \in 0 .. c - 1
  BY <1>2
<1>5. n = c * (n \div c) + (n % c)
  BY <1>2, Z3
<1>4. n \div c # 0
  BY <1>2, <1>3
<1> QED BY <1>1, <1>2, <1>3, <1>4, <1>5 DEF Base, Rest

\* A product grows with its first factor.
LEMMA Product ==
    ASSUME NEW b \in Nat, NEW j \in Nat, NEW k \in Nat, j <= k
    PROVE  j * b \in Nat /\ k * b \in Nat /\ j * b <= k * b /\ (j + 1) * b = j * b + b
OBVIOUS

\* The loop's running stop is Edge, and the edges rise from 0 to n.
LEMMA Edges ==
    ASSUME NEW n \in Nat \ {0}, NEW k \in 0 .. PartitionCount(n)
    PROVE  /\ Edge(n, k) \in 0 .. n
           /\ Edge(n, 0) = 0 /\ Edge(n, PartitionCount(n)) = n
           /\ k < PartitionCount(n) =>
                /\ PartSize(n, k) \in {Base(n), Base(n) + 1}
                /\ Edge(n, k + 1) = Edge(n, k) + PartSize(n, k)
<1> DEFINE c == PartitionCount(n)
           b == Base(n)
           r == Rest(n)
<1>1. c \in Nat \ {0} /\ b \in Nat \ {0} /\ r \in 0 .. c - 1
  BY Division, Zenon
<1>0. n = c * b + r
  BY Division, Zenon
<1> HIDE DEF c, b, r
<1>2. k \in Nat /\ k <= c
  BY <1>1 DEF c
<1>3. k * b \in Nat /\ k * b <= c * b /\ (k + 1) * b = k * b + b /\ c * b \in Nat
  BY <1>1, <1>2, Product
<1>4. 0 * b = 0
  BY <1>1
<1>5. Edge(n, k) = k * b + (IF k <= r THEN k ELSE r)
  BY DEF Edge, b, r
<1>6. Edge(n, k) \in 0 .. n
  BY <1>0, <1>1, <1>2, <1>3, <1>5
<1>7. Edge(n, 0) = 0
  BY <1>1, <1>4 DEF Edge, b, r
<1>8. Edge(n, PartitionCount(n)) = n
  BY <1>0, <1>1, <1>3 DEF Edge, b, r, c
<1>9. ASSUME k < c
      PROVE  /\ PartSize(n, k) \in {b, b + 1}
             /\ Edge(n, k + 1) = Edge(n, k) + PartSize(n, k)
  <2>1. PartSize(n, k) = b + (IF k < r THEN 1 ELSE 0)
    BY DEF PartSize, Base, Rest, b, r
  <2>2. Edge(n, k + 1) = (k + 1) * b + (IF k + 1 <= r THEN k + 1 ELSE r)
    BY DEF Edge, b, r
  <2> QED BY <1>1, <1>2, <1>3, <1>5, <1>9, <2>1, <2>2
<1> QED BY <1>6, <1>7, <1>8, <1>9 DEF c, b

-----------------------------------------------------------------------------
(* A chunk: FilterInv is inductive.                                        *)

\* The ranges found so far are those between the edges.
RangesInv ==
    /\ size \in ChunkSizes
    /\ Len(ranges) <= PartitionCount(size)
    /\ bound = Edge(size, Len(ranges))
    /\ \A k \in 1 .. Len(ranges) : ranges[k] = TraceRange(Edge(size, k - 1), Edge(size, k))
    /\ call \in {"submit", "collect", "returned"} => Len(ranges) = PartitionCount(size)

\* What has been collected is a prefix of the chunk.
ResultInv ==
    /\ Len(futures) <= Len(ranges)
    /\ Len(result) <= size
    /\ \A i \in 1 .. Len(result) : result[i] = i - 1
    /\ call = "returned" => Len(result) = size

PoolInv ==
    /\ pool = "closing" => \A k \in 1 .. Len(futures) : futures[k] # "queued"
    /\ pool = "down" => \A k \in 1 .. Len(futures) : ~Unended(k)

FilterInv == FilterTypeOK /\ (call # "none" => RangesInv /\ ResultInv) /\ PoolInv
             /\ (call = "none" => futures = <<>>)

FilterStep ==
    \/ CallStep \/ PoolStep \/ ProcessDies
    \/ OpenPool \/ BeginShutdown \/ EndShutdown
    \/ \E n \in ChunkSizes : pool \notin {"closing", "down"} /\ BeginCall(n)
    \/ UNCHANGED filterVars

LEMMA FilterStarts == FilterInit => FilterInv
BY DEF FilterInit, FilterInv, FilterTypeOK, PoolInv

\* partition_trace_ranges() goes on.
LEMMA SplitKeeps ==
    ASSUME FilterInv, Split
    PROVE  FilterInv'
<1>1. RangesInv /\ ResultInv /\ PoolInv /\ size \in Nat \ {0}
  BY SizesAssumption DEF FilterInv, Split, RangesInv
<1> DEFINE l == Len(ranges)
<1>2. l \in Nat /\ l < PartitionCount(size) /\ PartitionCount(size) \in Nat
  BY <1>1, Division DEF FilterInv, FilterTypeOK, Split
<1>3. /\ Edge(size, l) \in Nat /\ PartSize(size, l) \in Nat
      /\ Edge(size, l + 1) = Edge(size, l) + PartSize(size, l)
  <2>1. l \in 0 .. PartitionCount(size)
    BY <1>2
  <2>2. Base(size) \in Nat
    BY <1>1, Division
  <2> HIDE DEF l
  <2> QED BY <1>1, <1>2, <2>1, <2>2, Edges
<1>4. ranges' = Append(ranges, TraceRange(bound, bound + PartSize(size, l)))
      /\ bound' = bound + PartSize(size, l)
  BY DEF Split
<1>5. TraceRange(bound, bound + PartSize(size, l)) = TraceRange(Edge(size, l), Edge(size, l + 1))
  BY <1>1, <1>3 DEF RangesInv
<1>6. TraceRange(Edge(size, l), Edge(size, l + 1)) \in [start : Nat, stop : Nat]
  BY <1>3 DEF TraceRange
<1>7. RangesInv'
  <2>1. UNCHANGED <<size, call>> /\ call = "split"
    BY DEF Split
  <2>2. Len(ranges') = l + 1 /\ bound' = Edge(size, l + 1)
    BY <1>1, <1>3, <1>4, <1>5, <1>6 DEF RangesInv, FilterInv, FilterTypeOK
  <2>3. ASSUME NEW k \in 1 .. Len(ranges')
        PROVE  ranges'[k] = TraceRange(Edge(size, k - 1), Edge(size, k))
    <3>1. k \in 1 .. l \/ k = l + 1
      BY <1>2, <2>2
    <3>2. CASE k \in 1 .. l
      <4>1. ranges'[k] = ranges[k]
        BY <1>4, <1>5, <1>6, <3>2 DEF FilterInv, FilterTypeOK
      <4> QED BY <1>1, <3>2, <4>1 DEF RangesInv
    <3>3. CASE k = l + 1
      <4>1. ranges'[k] = TraceRange(Edge(size, l), Edge(size, l + 1))
        BY <1>2, <1>4, <1>5, <1>6, <3>3 DEF FilterInv, FilterTypeOK
      <4>2. k - 1 = l
        BY <1>2, <3>3
      <4> QED BY <3>3, <4>1, <4>2, Zenon
    <3> QED BY <3>1, <3>2, <3>3
  <2> QED BY <1>1, <1>2, <2>1, <2>2, <2>3 DEF RangesInv
<1>8. UNCHANGED <<pool, call, size, futures, result>>
  BY DEF Split
<1>9. FilterTypeOK'
  BY <1>3, <1>4, <1>5, <1>6, <1>8 DEF FilterInv, FilterTypeOK
<1>10. ResultInv'
  BY <1>1, <1>4, <1>5, <1>6, <1>8 DEF ResultInv, FilterInv, FilterTypeOK
<1>11. PoolInv'
  BY <1>1, <1>8 DEF PoolInv, Unended
<1>12. (call = "none" => futures = <<>>)'
  BY <1>8 DEF FilterInv
<1> QED BY <1>7, <1>9, <1>10, <1>11, <1>12 DEF FilterInv

\* The next future is the one that continues what has been collected.
LEMMA CollectKeeps ==
    ASSUME FilterInv, Collect
    PROVE  FilterInv'
<1>1. /\ RangesInv /\ ResultInv /\ PoolInv /\ size \in Nat \ {0} /\ call = "collect"
      /\ UNCHANGED <<pool, size, ranges, bound, futures>>
  BY SizesAssumption DEF FilterInv, Collect, RangesInv
<1>2. PICK k \in 1 .. Len(futures) :
        /\ NextFuture(k)
        /\ \/ result' = result \o Rows(ranges[k]) /\ UNCHANGED call
           \/ call' = "raised" /\ UNCHANGED result
  BY DEF Collect
<1>3. PoolInv' /\ RangesInv' /\ (call = "none" => futures = <<>>)'
  BY <1>1, <1>2 DEF PoolInv, Unended, RangesInv, FilterInv
<1>4. CASE call' = "raised" /\ UNCHANGED result
  BY <1>1, <1>3, <1>4 DEF FilterInv, FilterTypeOK, ResultInv
<1>5. CASE result' = result \o Rows(ranges[k]) /\ UNCHANGED call
  <2>1. k \in 1 .. Len(ranges) /\ k - 1 \in 0 .. Len(ranges)
        /\ Len(ranges) = PartitionCount(size) /\ Len(ranges) \in Nat
    BY <1>1 DEF RangesInv, ResultInv, FilterInv, FilterTypeOK
  <2>2. /\ Edge(size, k - 1) \in 0 .. size /\ Edge(size, k) \in 0 .. size
        /\ Edge(size, k) - Edge(size, k - 1) \in Nat
        /\ Edge(size, 0) = 0
    <3>1. k \in 0 .. PartitionCount(size) /\ k - 1 \in 0 .. PartitionCount(size)
          /\ k - 1 < PartitionCount(size) /\ (k - 1) + 1 = k
      BY <2>1
    <3>2. Base(size) \in Nat
      BY <1>1, Division
    <3>3. /\ PartSize(size, k - 1) \in {Base(size), Base(size) + 1}
          /\ Edge(size, (k - 1) + 1) = Edge(size, k - 1) + PartSize(size, k - 1)
      BY <1>1, <3>1, Edges
    <3>4. Edge(size, k) = Edge(size, k - 1) + PartSize(size, k - 1)
      BY <3>1, <3>3
    <3>5. Edge(size, k - 1) \in 0 .. size /\ Edge(size, k) \in 0 .. size /\ Edge(size, 0) = 0
      BY <1>1, <3>1, Edges
    <3> QED BY <3>2, <3>3, <3>4, <3>5
  <2>3. Len(result) = Edge(size, k - 1)
    <3>1. Len(result) = Collected(k - 1)
      BY <1>2 DEF NextFuture
    <3>2. CASE k - 1 = 0
      BY <2>2, <3>1, <3>2 DEF Collected
    <3>3. CASE k - 1 # 0
      <4>1. k - 1 \in 1 .. Len(ranges)
        BY <2>1, <3>3
      <4>2. ranges[k - 1] = TraceRange(Edge(size, (k - 1) - 1), Edge(size, k - 1))
        BY <1>1, <4>1 DEF RangesInv
      <4> QED BY <3>1, <3>3, <4>2 DEF Collected, TraceRange
    <3> QED BY <3>2, <3>3
  <2> DEFINE from == Edge(size, k - 1)
             to == Edge(size, k)
  <2>4. ranges[k] = TraceRange(from, to)
    BY <1>1, <2>1 DEF RangesInv
  <2> HIDE DEF from, to
  <2>5. from \in Nat /\ to - from \in Nat /\ to \in 0 .. size
    BY <2>2 DEF from, to
  <2>6. Rows(ranges[k]) = [j \in 1 .. to - from |-> from + j - 1]
    BY <2>4 DEF Rows, TraceRange
  <2>7. /\ Rows(ranges[k]) \in Seq(Nat) /\ Len(Rows(ranges[k])) = to - from
        /\ \A j \in 1 .. to - from : Rows(ranges[k])[j] = from + j - 1
    BY <2>5, <2>6
  <2>8. result \in Seq(Nat) /\ Len(result) = from
    BY <2>3 DEF from, FilterInv, FilterTypeOK
  <2>9. /\ result' \in Seq(Nat) /\ Len(result') = to
        /\ \A i \in 1 .. Len(result') : result'[i] = i - 1
    <3>0. /\ result' \in Seq(Nat)
          /\ Len(result') = Len(result) + Len(Rows(ranges[k]))
      BY <1>5, <2>7, <2>8, Concat
    <3>1. result' \in Seq(Nat) /\ Len(result') = to
      BY <2>5, <2>7, <2>8, <3>0
    <3>2. ASSUME NEW i \in 1 .. Len(result')
          PROVE  result'[i] = i - 1
      <4>1. CASE i <= from
        BY <1>1, <1>5, <2>5, <2>7, <2>8, <3>1, <4>1 DEF ResultInv
      <4>2. CASE i > from
        <5>1. i - from \in 1 .. to - from
          BY <2>5, <3>1, <4>2
        <5>2. result'[i] = Rows(ranges[k])[i - from]
          BY <1>5, <2>5, <2>7, <2>8, <3>1, <4>2
        <5> QED BY <2>5, <2>7, <5>1, <5>2
      <4> QED BY <2>5, <3>1, <4>1, <4>2
    <3> QED BY <3>1, <3>2
  <2>10. ResultInv'
    BY <1>1, <1>5, <2>5, <2>9 DEF ResultInv
  <2>11. FilterTypeOK'
    BY <1>1, <1>5, <2>9 DEF FilterInv, FilterTypeOK
  <2> QED BY <1>3, <2>10, <2>11 DEF FilterInv
<1> QED BY <1>2, <1>4, <1>5

LEMMA FilterSteps ==
    ASSUME FilterInv, FilterStep
    PROVE  FilterInv'
<1> USE DEF FilterInv, FilterTypeOK, PoolInv, Unended
<1>1. CASE Split
  BY <1>1, SplitKeeps
<1>2. CASE Submit
  <2>1. UNCHANGED <<pool, size, ranges, bound, result>> /\ Len(futures) < Len(ranges)
    BY <1>2 DEF Submit
  <2>2. CASE pool = "up" /\ call' = "submit" /\ futures' = Append(futures, "queued")
    <3>1. RangesInv /\ ResultInv /\ call # "none" /\ Len(ranges) = PartitionCount(size)
      BY <1>2 DEF Submit, RangesInv
    <3> QED BY <2>1, <2>2, <3>1 DEF RangesInv, ResultInv
  <2>3. CASE call' = "raised" /\ UNCHANGED futures
    BY <1>2, <2>1, <2>3 DEF Submit, RangesInv, ResultInv
  <2> QED BY <1>2, <2>2, <2>3 DEF Submit
<1>3. CASE BeginCollect
  BY <1>3 DEF BeginCollect, RangesInv, ResultInv
<1>4. CASE Collect
  BY <1>4, CollectKeeps
<1>5. CASE Return
  BY <1>5 DEF Return, RangesInv, ResultInv
<1>6. CASE PoolStep
  <2> PICK k \in 1 .. Len(futures) : TaskStarts(k) \/ TaskEnds(k)
    BY <1>6 DEF PoolStep
  <2>1. CASE TaskStarts(k)
    BY <2>1 DEF TaskStarts, RangesInv, ResultInv
  <2>2. CASE TaskEnds(k)
    <3>1. PICK end \in {"done", "failed"} : futures' = [futures EXCEPT ![k] = end]
      BY <2>2 DEF TaskEnds
    <3>2. UNCHANGED <<pool, call, size, ranges, bound, result>> /\ futures[k] = "running"
      BY <2>2 DEF TaskEnds
    <3>3. /\ Len(futures') = Len(futures)
          /\ futures' \in Seq({"queued", "running", "done", "failed", "cancelled"})
      BY <3>1
    <3>4. PoolInv'
      BY <3>1, <3>2, <3>3
    <3> QED BY <3>2, <3>3, <3>4 DEF RangesInv, ResultInv
  <2> QED BY <2>1, <2>2
<1>7. CASE ProcessDies
  BY <1>7 DEF ProcessDies, RangesInv, ResultInv
<1>8. CASE OpenPool
  BY <1>8 DEF OpenPool, RangesInv, ResultInv
<1>9. CASE BeginShutdown
  BY <1>9 DEF BeginShutdown, RangesInv, ResultInv
<1>10. CASE EndShutdown
  BY <1>10 DEF EndShutdown, Released, Busy, RangesInv, ResultInv
<1>11. CASE \E n \in ChunkSizes : pool \notin {"closing", "down"} /\ BeginCall(n)
  <2> PICK n \in ChunkSizes : pool \notin {"closing", "down"} /\ BeginCall(n)
    BY <1>11
  <2>1. n \in Nat \ {0}
    BY SizesAssumption
  <2>2. PartitionCount(n) \in Nat
    BY <2>1, Division
  <2>3. 0 \in 0 .. PartitionCount(n)
    BY <2>2
  <2>4. Edge(n, 0) = 0
    BY <2>1, <2>3, Edges
  <2>5. /\ call' = "split" /\ size' = n /\ ranges' = <<>> /\ bound' = 0
        /\ futures' = <<>> /\ result' = <<>> /\ pool' = pool
    BY DEF BeginCall
  <2>6. RangesInv'
    BY <2>2, <2>4, <2>5 DEF RangesInv
  <2>7. ResultInv'
    BY <2>1, <2>5 DEF ResultInv
  <2> QED BY <2>1, <2>5, <2>6, <2>7
<1>12. CASE UNCHANGED filterVars
  BY <1>12 DEF filterVars, RangesInv, ResultInv
<1> QED BY <1>1, <1>2, <1>3, <1>4, <1>5, <1>6, <1>7, <1>8, <1>9, <1>10, <1>11, <1>12
        DEF FilterStep, CallStep

\* The ranges between the edges are the partition that was promised.
LEMMA ExactFromInv ==
    ASSUME FilterInv
    PROVE  PartitionIsExact
<1> SUFFICES ASSUME call \in {"submit", "collect", "returned"}
             PROVE  /\ Len(ranges) \in 1 .. ParallelWorkers
                    /\ ranges[1].start = 0 /\ ranges[Len(ranges)].stop = size
                    /\ \A k \in 1 .. Len(ranges) : ranges[k].start < ranges[k].stop
                    /\ \A k \in 1 .. Len(ranges) - 1 : ranges[k + 1].start = ranges[k].stop
                    /\ \A j, k \in 1 .. Len(ranges) :
                         ranges[j].stop - ranges[j].start
                             <= ranges[k].stop - ranges[k].start + 1
  BY DEF PartitionIsExact
<1>1. RangesInv /\ size \in Nat \ {0}
  BY SizesAssumption DEF FilterInv, RangesInv
<1> DEFINE c == Len(ranges)
<1>2. c = PartitionCount(size) /\ c \in 1 .. ParallelWorkers /\ c \in Nat \ {0}
  BY <1>1, Division DEF RangesInv
<1>3. ASSUME NEW k \in 1 .. c
      PROVE  /\ ranges[k].start = Edge(size, k - 1) /\ ranges[k].stop = Edge(size, k)
             /\ Edge(size, k) = Edge(size, k - 1) + PartSize(size, k - 1)
             /\ PartSize(size, k - 1) \in {Base(size), Base(size) + 1}
             /\ Edge(size, k - 1) \in Nat
  <2>0. ranges[k] = TraceRange(Edge(size, k - 1), Edge(size, k))
    BY <1>1 DEF RangesInv
  <2>1. ranges[k].start = Edge(size, k - 1) /\ ranges[k].stop = Edge(size, k)
    BY <2>0 DEF TraceRange
  <2>2. k - 1 \in 0 .. PartitionCount(size) /\ k - 1 < PartitionCount(size) /\ (k - 1) + 1 = k
    BY <1>2
  <2>3. /\ Edge(size, k - 1) \in 0 .. size
        /\ PartSize(size, k - 1) \in {Base(size), Base(size) + 1}
        /\ Edge(size, (k - 1) + 1) = Edge(size, k - 1) + PartSize(size, k - 1)
    BY <1>1, <2>2, Edges
  <2> QED BY <1>1, <2>1, <2>2, <2>3
<1>4. Base(size) \in Nat \ {0}
  BY <1>1, Division
<1>5. ranges[1].start = 0 /\ ranges[c].stop = size
  <2>1. 1 \in 1 .. c /\ c \in 1 .. c /\ 1 - 1 = 0 /\ 0 \in 0 .. PartitionCount(size)
    BY <1>2
  <2>2. Edge(size, 0) = 0 /\ Edge(size, PartitionCount(size)) = size
    BY <1>1, <2>1, Edges
  <2> QED BY <1>2, <1>3, <2>1, <2>2
<1>6. \A k \in 1 .. c : ranges[k].start < ranges[k].stop
  BY <1>3, <1>4
<1>7. ASSUME NEW k \in 1 .. c - 1
      PROVE  ranges[k + 1].start = ranges[k].stop
  <2>1. k \in 1 .. c /\ k + 1 \in 1 .. c /\ (k + 1) - 1 = k
    BY <1>2
  <2> QED BY <1>3, <2>1
<1>8. ASSUME NEW j \in 1 .. c, NEW k \in 1 .. c
      PROVE  ranges[j].stop - ranges[j].start <= ranges[k].stop - ranges[k].start + 1
  <2>1. /\ ranges[j].stop - ranges[j].start = PartSize(size, j - 1)
        /\ PartSize(size, j - 1) \in {Base(size), Base(size) + 1}
    BY <1>3, <1>4
  <2>2. /\ ranges[k].stop - ranges[k].start = PartSize(size, k - 1)
        /\ PartSize(size, k - 1) \in {Base(size), Base(size) + 1}
    BY <1>3, <1>4
  <2> QED BY <1>4, <2>1, <2>2
<1> QED BY <1>2, <1>5, <1>6, <1>7, <1>8

\* A call that has returned holds a prefix of the chunk as long as the chunk.
LEMMA OrderFromInv ==
    ASSUME FilterInv
    PROVE  ReturnsTheChunkInOrder
<1> SUFFICES ASSUME call = "returned"
             PROVE  result = [k \in 1 .. size |-> k - 1]
  BY DEF ReturnsTheChunkInOrder
<1>1. Len(result) = size /\ result \in Seq(Nat) /\ \A i \in 1 .. Len(result) : result[i] = i - 1
  BY DEF FilterInv, FilterTypeOK, ResultInv
<1> QED BY <1>1

-----------------------------------------------------------------------------
(* A line: LogInv is inductive.                                            *)

InLog(e) == \E i \in 1 .. Len(lines) : lines[i] = e

\* An event nobody has logged, or is logging.
Fresh(e) == ~InLog(e) /\ (Logging => entry # e)

LogInv ==
    /\ LogTypeOK
    /\ handlers = IF logStep \in {"emit", "detach"} THEN 1 ELSE 0
    /\ Logging => entry \in Events
    /\ logStep \in {"mkdir", "attach", "emit"} => ~InLog(entry)

LEMMA LogStarts == LogInit => LogInv
<1> SUFFICES ASSUME LogInit PROVE LogInv
  OBVIOUS
<1>1. locked \in BOOLEAN
  BY Zenon DEF LogInit
<1>2. LogTypeOK
  BY <1>1, FaultsAssumption DEF LogInit, LogTypeOK
<1> QED BY <1>2 DEF LogInit, LogInv, Logging

\* log() begins with an event that is fresh.
LEMMA LogBegins ==
    ASSUME LogInv, NEW e \in Events, Fresh(e), BeginLog(e)
    PROVE  /\ LogInv' /\ UNCHANGED lines
           /\ \A other \in Events \ {e} : Fresh(other) => Fresh(other)'
BY DEF LogInv, LogTypeOK, BeginLog, Logging, Fresh, InLog

\* No call leaves its handler behind, so a record is written once.
LEMMA OneCopy ==
    ASSUME LogInv, WriteLine
    PROVE  lines' = Append(lines, entry) /\ entry \in Events
<1>1. logStep = "emit" /\ handlers = 1 /\ entry \in Events
  BY DEF WriteLine, LogInv, Logging
<1>2. Copies = <<entry>>
  BY <1>1 DEF Copies
<1>3. lines' = lines \o <<entry>> /\ lines \in Seq(Events)
  BY <1>2 DEF WriteLine, LogInv, LogTypeOK
<1> QED BY <1>1, <1>3

\* Every step of a call to log(), the failing ones included, keeps LogInv, and
\* what is fresh stays so.
LEMMA LogSteps ==
    ASSUME LogInv, LogStep
    PROVE  /\ LogInv'
           /\ UNCHANGED lines \/ \E e \in Events : ~InLog(e) /\ lines' = Append(lines, e)
           /\ \A e \in Events : Fresh(e) => Fresh(e)'
<1>1. CASE WriteLine
  <2>1. /\ lines' = Append(lines, entry) /\ entry \in Events /\ lines \in Seq(Events)
        /\ ~InLog(entry) /\ logStep = "emit" /\ handlers = 1
    BY <1>1, OneCopy DEF WriteLine, LogInv, LogTypeOK
  <2>2. logStep' = "detach" /\ UNCHANGED <<locked, entry, handlers, faults>>
    BY <1>1 DEF WriteLine
  <2>3. \A e \in Events : InLog(e)' <=> InLog(e) \/ e = entry
    <3>1. /\ Len(lines') = Len(lines) + 1 /\ lines'[Len(lines) + 1] = entry
          /\ \A i \in 1 .. Len(lines) : lines'[i] = lines[i]
      BY <2>1
    <3>2. \A i \in 1 .. Len(lines') : i \in 1 .. Len(lines) \/ i = Len(lines) + 1
      BY <2>1, <3>1
    <3>3. Len(lines) + 1 \in 1 .. Len(lines') /\ \A i \in 1 .. Len(lines) : i \in 1 .. Len(lines')
      BY <2>1, <3>1
    <3> QED BY <3>1, <3>2, <3>3 DEF InLog
  <2>4. LogInv'
    BY <2>1, <2>2 DEF LogInv, LogTypeOK, Logging
  <2>5. \A e \in Events : Fresh(e) => Fresh(e)'
    BY <2>1, <2>2, <2>3 DEF Fresh, Logging
  <2> QED BY <2>1, <2>4, <2>5
<1>2. CASE Enter \/ Attach \/ Detach \/ Leave \/ LogFails
  <2>1. UNCHANGED lines /\ \A e : InLog(e)' <=> InLog(e)
    BY <1>2 DEF Enter, Attach, Detach, Leave, LogFails, InLog
  <2>2. LogTypeOK'
    <3>1. /\ logStep' \in {"idle", "attach", "emit", "detach", "leave"}
          /\ entry' \in Events \cup {NoEvent} /\ lines' \in Seq(Events)
      BY <1>2, <2>1 DEF LogInv, LogTypeOK, Enter, Attach, Detach, Leave, LogFails, Undone, EndLog
    <3>2. locked' = TRUE \/ locked' = FALSE \/ locked' = locked
      BY <1>2 DEF Enter, Attach, Detach, Leave, LogFails
    <3>3. locked' \in BOOLEAN
      BY <3>2, Zenon DEF LogInv, LogTypeOK
    <3>4. handlers' \in Nat
      BY <1>2 DEF LogInv, LogTypeOK, Enter, Attach, Detach, Leave, LogFails
    <3>5. faults' \in 0 .. MaxFaults
      BY <1>2, FaultsAssumption DEF LogInv, LogTypeOK, Enter, Attach, Detach, Leave, LogFails
    <3> QED BY <3>1, <3>3, <3>4, <3>5 DEF LogTypeOK
  <2>3. handlers' = IF logStep' \in {"emit", "detach"} THEN 1 ELSE 0
    BY <1>2 DEF LogInv, Enter, Attach, Detach, Leave, LogFails, Undone, EndLog
  <2>4. /\ Logging' => Logging /\ entry' = entry
        /\ logStep' \in {"mkdir", "attach", "emit"} => logStep \in {"mkdir", "attach", "emit"}
    BY <1>2 DEF Logging, Enter, Attach, Detach, Leave, LogFails, Undone, EndLog
  <2>5. LogInv'
    BY <2>1, <2>2, <2>3, <2>4 DEF LogInv, Logging
  <2>6. \A e \in Events : Fresh(e) => Fresh(e)'
    BY <2>1, <2>4 DEF Fresh
  <2> QED BY <2>1, <2>5, <2>6
<1> QED BY <1>1, <1>2 DEF LogStep

-----------------------------------------------------------------------------
(* The execution: RunInv is inductive.                                     *)

Outcomes == {"JOB_CANCELLED", "JOB_FAILED", "JOB_COMPLETED"}

\* What is written are the first traces, in order, and the chunk under way is
\* the next one.
RowsInv ==
    /\ Len(rows) <= TraceCount
    /\ \A i \in 1 .. Len(rows) : rows[i] = i - 1
    /\ pc = "filter" => call # "none" /\ size = NextSize

\* Where the pool is.
PcInv ==
    /\ pc \notin {"release", "over"} => pool \notin {"closing", "down"}
    /\ pc = "over" => pool = "down"
    /\ pc = "outcome" \/ pc = "flush" => outcome \in Outcomes

\* Every event that may still be logged is fresh.
FreshInv ==
    /\ pc = "start" => Fresh("RUN_STARTED")
    /\ pc \notin {"close", "release", "over"} => \A e \in Outcomes : Fresh(e)
    /\ pc \in {"start", "open", "loop", "filter", "flush"} => Fresh("CANCEL_REQUESTED")

RunInv == TypeOK /\ FilterInv /\ LogInv /\ RowsInv /\ PcInv /\ FreshInv

LEMMA RunStarts == Init => RunInv
<1> SUFFICES ASSUME Init PROVE RunInv
  OBVIOUS
<1>1. FilterInv /\ LogInv
  BY FilterStarts, LogStarts DEF Init
<1>2. TypeOK
  <2>1. FilterTypeOK /\ LogTypeOK
    BY <1>1 DEF FilterInv, LogInv
  <2>2. token \in BOOLEAN /\ pending \in BOOLEAN
    BY Zenon DEF Init
  <2>3. rows \in Seq(Nat) /\ pc = "start" /\ outcome = NoEvent
    BY DEF Init
  <2> QED BY <2>1, <2>2, <2>3 DEF TypeOK
<1>3. \A e \in Events : Fresh(e)
  BY DEF Init, LogInit, Fresh, InLog, Logging
<1>4. RowsInv /\ PcInv
  BY CountsAssumption DEF Init, FilterInit, RowsInv, PcInv
<1>5. FreshInv
  BY <1>3, NamesAssumption DEF FreshInv, Outcomes
<1> QED BY <1>1, <1>2, <1>4, <1>5 DEF RunInv

\* What each step is for the chunk.
LEMMA StepsOfTheFilter ==
    ASSUME RunInv, [Next]_vars
    PROVE  FilterStep
<1>1. CASE BeginChunk
  <2>1. NextSize \in ChunkSizes
    BY <1>1, CountsAssumption, ChunksAssumption
    DEF BeginChunk, RunInv, TypeOK, NextSize, Min2
  <2>2. pool \notin {"closing", "down"}
    BY <1>1 DEF BeginChunk, RunInv, PcInv
  <2> QED BY <1>1, <2>1, <2>2 DEF BeginChunk, FilterStep
<1>2. CASE ~BeginChunk
  BY <1>2 DEF Next, WorkerStep, Start, Open, Observe, WriteChunk, Fail, FlushCancel, LogOutcome,
     Close, Release, Calls, Cancel, Pool, Dies, Done, Logs, FilterStep, vars
<1> QED BY <1>1, <1>2

\* What each step is for the log: a step of a call, or a fresh event.
LEMMA StepsOfTheLog ==
    ASSUME RunInv, [Next]_vars
    PROVE  \/ UNCHANGED logVars
           \/ LogStep /\ UNCHANGED <<filterVars, runVars>>
           \/ /\ pc = "start" /\ pc' = "open" /\ Fresh("RUN_STARTED")
              /\ BeginLog("RUN_STARTED")
           \/ /\ pc = "flush" /\ pc' = "outcome" /\ Fresh("CANCEL_REQUESTED")
              /\ BeginLog("CANCEL_REQUESTED")
           \/ /\ pc = "outcome" /\ pc' = "close" /\ outcome \in Outcomes /\ Fresh(outcome)
              /\ BeginLog(outcome)
<1> USE DEF RunInv, PcInv, FreshInv
<1>1. CASE Start
  BY <1>1 DEF Start
<1>2. CASE FlushCancel
  BY <1>2 DEF FlushCancel
<1>4. CASE LogOutcome
  BY <1>4 DEF LogOutcome, Outcomes
<1>5. CASE Logs
  BY <1>5 DEF Logs
<1>6. CASE ~Start /\ ~FlushCancel /\ ~LogOutcome /\ ~Logs
  BY <1>6 DEF Next, WorkerStep, Open, BeginChunk, Observe, WriteChunk, Fail, Close, Release,
     Calls, Cancel, Pool, Dies, Done, vars
<1> QED BY <1>1, <1>2, <1>4, <1>5, <1>6

\* The log and what is fresh.
LEMMA LogOfTheRun ==
    ASSUME RunInv, [Next]_vars
    PROVE  /\ LogInv' /\ FreshInv'
           /\ UNCHANGED lines \/ \E e \in Events : ~InLog(e) /\ lines' = Append(lines, e)
<1> DEFINE Line == UNCHANGED lines \/ \E e \in Events : ~InLog(e) /\ lines' = Append(lines, e)
<1>1. LogInv /\ FreshInv /\ PcInv
  BY DEF RunInv
<1>2. /\ pc' = "start" => pc = "start"
      /\ pc' \notin {"close", "release", "over"} => pc \notin {"close", "release", "over"}
      /\ pc' \in {"start", "open", "loop", "filter", "flush"}
           => pc \in {"start", "open", "loop", "filter", "flush"}
  BY DEF Next, WorkerStep, Start, Open, BeginChunk, Observe, WriteChunk, Fail, FlushCancel,
     LogOutcome, Close, Release, Calls, Cancel, Pool, Dies, Done, Logs, vars,
     runVars, Decide
<1>3. Outcomes \subseteq Events /\ "RUN_STARTED" \in Events /\ "CANCEL_REQUESTED" \in Events
      /\ "RUN_STARTED" \notin Outcomes /\ "CANCEL_REQUESTED" \notin Outcomes
  BY NamesAssumption DEF Outcomes
<1>4. CASE UNCHANGED logVars
  <2>1. \A e \in Events : Fresh(e) => Fresh(e)'
    BY <1>4 DEF Fresh, InLog, Logging, logVars
  <2>2. LogInv' /\ Line
    BY <1>1, <1>4 DEF LogInv, LogTypeOK, Logging, InLog, logVars
  <2>3. FreshInv'
    BY <1>1, <1>2, <1>3, <2>1 DEF FreshInv
  <2> QED BY <2>2, <2>3
<1>5. CASE LogStep /\ UNCHANGED <<filterVars, runVars>>
  <2>1. LogInv' /\ Line /\ \A e \in Events : Fresh(e) => Fresh(e)'
    BY <1>1, <1>5, LogSteps
  <2>2. FreshInv'
    BY <1>1, <1>2, <1>3, <2>1 DEF FreshInv
  <2> QED BY <2>1, <2>2
<1>6. CASE /\ pc = "start" /\ pc' = "open" /\ Fresh("RUN_STARTED")
           /\ BeginLog("RUN_STARTED")
  <2>1. LogInv' /\ UNCHANGED lines
        /\ \A e \in Events \ {"RUN_STARTED"} : Fresh(e) => Fresh(e)'
    BY <1>1, <1>3, <1>6, LogBegins
  <2>2. FreshInv'
    BY <1>1, <1>2, <1>3, <1>6, <2>1 DEF FreshInv, Outcomes
  <2> QED BY <2>1, <2>2
<1>7. CASE /\ pc = "flush" /\ pc' = "outcome" /\ Fresh("CANCEL_REQUESTED")
           /\ BeginLog("CANCEL_REQUESTED")
  <2>1. LogInv' /\ UNCHANGED lines
        /\ \A e \in Events \ {"CANCEL_REQUESTED"} : Fresh(e) => Fresh(e)'
    BY <1>1, <1>3, <1>7, LogBegins
  <2>2. FreshInv'
    BY <1>1, <1>2, <1>3, <1>7, <2>1 DEF FreshInv, Outcomes
  <2> QED BY <2>1, <2>2
<1>8. CASE /\ pc = "outcome" /\ pc' = "close" /\ outcome \in Outcomes /\ Fresh(outcome)
           /\ BeginLog(outcome)
  <2>1. LogInv' /\ UNCHANGED lines
        /\ \A e \in Events \ {outcome} : Fresh(e) => Fresh(e)'
    BY <1>1, <1>3, <1>8, LogBegins
  <2>2. FreshInv'
    BY <1>1, <1>2, <1>3, <1>8, <2>1 DEF FreshInv, Outcomes
  <2> QED BY <2>1, <2>2
<1> QED BY <1>4, <1>5, <1>6, <1>7, <1>8, StepsOfTheLog

\* A chunk that is written continues the rows.
LEMMA WritesTheNextRows ==
    ASSUME RunInv, WriteChunk
    PROVE  /\ rows' = rows \o [k \in 1 .. size |-> Len(rows) + k - 1]
           /\ size \in 1 .. ChunkSize /\ Len(rows) + size <= TraceCount
           /\ size = ChunkSize \/ Len(rows) + size = TraceCount
           /\ rows' \in Seq(Nat) /\ Len(rows') = Len(rows) + size
           /\ \A i \in 1 .. Len(rows') : rows'[i] = i - 1
<1>1. /\ size = NextSize /\ size \in 1 .. ChunkSize /\ ChunkSize \in Nat
      /\ Len(rows) \in Nat /\ Len(rows) <= TraceCount /\ TraceCount \in Nat
      /\ rows \in Seq(Nat) /\ \A i \in 1 .. Len(rows) : rows[i] = i - 1
  BY ChunksAssumption, CountsAssumption
  DEF RunInv, RowsInv, TypeOK, FilterInv, RangesInv, WriteChunk
<1>2. Len(rows) + size <= TraceCount /\ (size = ChunkSize \/ Len(rows) + size = TraceCount)
  BY <1>1 DEF NextSize, Min2
<1> DEFINE chunk == [k \in 1 .. size |-> Len(rows) + k - 1]
<1>3. [k \in 1 .. size |-> Len(rows) + result[k]] = chunk
  <2>1. result = [k \in 1 .. size |-> k - 1]
    BY OrderFromInv DEF RunInv, WriteChunk, ReturnsTheChunkInOrder
  <2>2. \A k \in 1 .. size : Len(rows) + result[k] = Len(rows) + k - 1
    BY <1>1, <2>1
  <2> QED BY <2>2
<1>4. /\ chunk \in Seq(Nat) /\ Len(chunk) = size
      /\ \A k \in 1 .. size : chunk[k] = Len(rows) + k - 1
  BY <1>1
<1>5. rows' = rows \o chunk
  BY <1>3 DEF WriteChunk
<1> HIDE DEF chunk
<1>6. /\ rows' \in Seq(Nat) /\ Len(rows') = Len(rows) + size
      /\ \A i \in 1 .. Len(rows) : rows'[i] = rows[i]
      /\ \A k \in 1 .. size : rows'[Len(rows) + k] = chunk[k]
  BY <1>1, <1>4, <1>5, Concat
<1>7. ASSUME NEW i \in 1 .. Len(rows')
      PROVE  rows'[i] = i - 1
  <2>1. CASE i <= Len(rows)
    BY <1>1, <1>6, <2>1
  <2>2. CASE i > Len(rows)
    <3>1. i - Len(rows) \in 1 .. size /\ Len(rows) + (i - Len(rows)) = i
      BY <1>1, <1>6, <2>2
    <3>2. PICK k \in 1 .. size : k = i - Len(rows)
      BY <3>1
    <3>3. rows'[Len(rows) + k] = Len(rows) + k - 1 /\ Len(rows) + k = i
      BY <1>4, <1>6, <3>1, <3>2
    <3> QED BY <1>1, <3>3
  <2> QED BY <1>1, <1>6, <2>1, <2>2
<1> QED BY <1>1, <1>2, <1>5, <1>6, <1>7 DEF chunk

LEMMA RunSteps ==
    ASSUME RunInv, [Next]_vars
    PROVE  RunInv'
<1>1. FilterInv'
  BY FilterSteps, StepsOfTheFilter DEF RunInv
<1>2. LogInv' /\ FreshInv'
  BY LogOfTheRun
<1>3. TypeOK'
  <2>1. FilterTypeOK' /\ LogTypeOK'
    BY <1>1, <1>2 DEF FilterInv, LogInv
  <2>2. rows' \in Seq(Nat)
    <3>1. CASE WriteChunk
      BY <3>1, WritesTheNextRows
    <3>2. CASE UNCHANGED rows
      BY <3>2 DEF RunInv, TypeOK
    <3> QED BY <3>1, <3>2 DEF Next, WorkerStep, Start, Open, BeginChunk, Observe, Fail,
               FlushCancel, LogOutcome, Close, Release, Calls, Cancel, Pool, Dies, Done,
               Logs, vars, runVars, Decide
  <2>3. /\ pc' \in {"start", "open", "loop", "filter", "flush", "outcome", "close", "release", "over"}
        /\ outcome' \in Events \cup {NoEvent}
    BY NamesAssumption DEF RunInv, TypeOK, Next, WorkerStep, Start, Open, BeginChunk, Observe,
       WriteChunk, Fail, FlushCancel, LogOutcome, Close, Release, Calls, Cancel, Pool,
       Dies, Done, Logs, vars, runVars, Decide
  <2>4. token' \in BOOLEAN /\ pending' \in BOOLEAN
    <3>1. \/ token' = TRUE \/ token' = token
      BY DEF Next, WorkerStep, Start, Open, BeginChunk, Observe, WriteChunk, Fail, FlushCancel,
         LogOutcome, Close, Release, Calls, Cancel, Pool, Dies, Done, Logs, vars,
         runVars, Decide
    <3>2. \/ pending' = TRUE \/ pending' = FALSE \/ pending' = pending
      BY DEF Next, WorkerStep, Start, Open, BeginChunk, Observe, WriteChunk, Fail, FlushCancel,
         LogOutcome, Close, Release, Calls, Cancel, Pool, Dies, Done, Logs,
         vars, runVars, Decide
    <3> QED BY <3>1, <3>2, Zenon DEF RunInv, TypeOK
  <2> QED BY <2>1, <2>2, <2>3, <2>4 DEF TypeOK
<1>4. RowsInv'
  <2> USE DEF RunInv, RowsInv
  <2>1. CASE WriteChunk
    BY <2>1, WritesTheNextRows DEF WriteChunk
  <2>2. CASE BeginChunk
    BY <2>2 DEF BeginChunk, BeginCall, NextSize
  <2>3. CASE Calls \/ Pool \/ Dies
    BY <2>3 DEF Calls, CallStep, Split, Submit, BeginCollect, Collect, Return, Pool, PoolStep,
       TaskStarts, TaskEnds, Dies, ProcessDies, runVars, NextSize
  <2>4. CASE ~WriteChunk /\ ~BeginChunk /\ ~Calls /\ ~Pool /\ ~Dies
    <3>1. UNCHANGED <<rows, size, call>> /\ (pc' = pc \/ pc' # "filter")
      BY <2>4 DEF Next, WorkerStep, Start, Open, OpenPool, Observe, Fail, FlushCancel, LogOutcome,
         Close, BeginShutdown, Release, EndShutdown, Cancel, Done, Logs, vars, runVars,
         filterVars, Decide
    <3> QED BY <3>1 DEF NextSize
  <2> QED BY <2>1, <2>2, <2>3, <2>4
<1>5. PcInv'
  <2> USE DEF RunInv, PcInv, Outcomes
  <2>1. CASE Open \/ Close \/ Release
    BY <2>1 DEF Open, OpenPool, Close, BeginShutdown, Release, EndShutdown
  <2>2. CASE Observe \/ Fail \/ FlushCancel \/ LogOutcome
    BY <2>2 DEF Observe, Fail, FlushCancel, LogOutcome, Decide, filterVars
  <2>3. CASE Calls \/ Pool \/ Dies
    BY <2>3 DEF Calls, CallStep, Split, Submit, BeginCollect, Collect, Return, Pool, PoolStep,
       TaskStarts, TaskEnds, Dies, ProcessDies, runVars
  <2>4. CASE Cancel
    BY <2>4 DEF Cancel, filterVars
  <2>5. CASE Start \/ BeginChunk \/ WriteChunk \/ Done \/ UNCHANGED vars \/ Logs
    BY <2>5 DEF Start, BeginChunk, BeginCall, WriteChunk, Done, Logs, vars, runVars, filterVars
  <2> QED BY <2>1, <2>2, <2>3, <2>4, <2>5 DEF Next, WorkerStep
<1> QED BY <1>1, <1>2, <1>3, <1>4, <1>5 DEF RunInv

-----------------------------------------------------------------------------
(* Theorems.                                                               *)

\* The strengthening of all that follows.
THEOREM RuntimeInvariant == Spec => []RunInv
<1>1. Init => RunInv
  BY RunStarts
<1>2. RunInv /\ [Next]_vars => RunInv'
  BY RunSteps
<1> QED BY <1>1, <1>2, PTL DEF Spec

\* Every variable of an execution keeps its type.
THEOREM RuntimeTypes == Spec => []TypeOK
<1>1. RunInv => TypeOK
  BY DEF RunInv
<1> QED BY <1>1, RuntimeInvariant, PTL

\* partition_trace_ranges() covers every chunk exactly, for every number of
\* traces and of processes.
THEOREM PartitionsAreExact == Spec => []PartitionIsExact
<1>1. RunInv => PartitionIsExact
  BY ExactFromInv DEF RunInv
<1> QED BY <1>1, RuntimeInvariant, PTL

\* filter_chunk_with_executor() returns every trace at its place, in whatever
\* order the tasks end.
THEOREM ChunksComeInOrder == Spec => []ReturnsTheChunkInOrder
<1>1. RunInv => ReturnsTheChunkInOrder
  BY OrderFromInv DEF RunInv
<1> QED BY <1>1, RuntimeInvariant, PTL

\* An execution that is over has waited for its processes.
THEOREM TasksEndFirst == Spec => []NoTaskOutlivesTheExecution
<1>1. RunInv => NoTaskOutlivesTheExecution
  BY DEF RunInv, PcInv, FilterInv, PoolInv, NoTaskOutlivesTheExecution
<1> QED BY <1>1, RuntimeInvariant, PTL

\* The steps of the pool amount to appending whole chunks, and those of the calls
\* to log(), with a failure at any of them, to appending one line per event or
\* none: what FilterJobService takes for one step each.
THEOREM RuntimeIsAtomic == Spec => ImplementsAtomicRuntime
<1>1. Init => Atomic!Init
  BY DEF Init, LogInit, Atomic!Init
<1>2. RunInv /\ [Next]_vars => [Atomic!Next]_<<rows, lines>>
  <2> SUFFICES ASSUME RunInv, [Next]_vars
               PROVE  Atomic!Next \/ UNCHANGED <<rows, lines>>
    OBVIOUS
  <2>1. CASE WriteChunk
    <3>1. UNCHANGED lines
      BY <2>1 DEF WriteChunk, logVars
    <3>2. Atomic!AppendChunk
      BY <2>1, <3>1, WritesTheNextRows DEF Atomic!AppendChunk
    <3> QED BY <3>2 DEF Atomic!Next
  <2>2. CASE ~WriteChunk
    <3>1. UNCHANGED rows
      BY <2>2 DEF Next, WorkerStep, Start, Open, BeginChunk, Observe, Fail, FlushCancel,
         LogOutcome, Close, Release, Calls, Cancel, Pool, Dies, Done, Logs, vars,
         runVars, Decide
    <3>2. UNCHANGED lines \/ \E e \in Events : ~InLog(e) /\ lines' = Append(lines, e)
      BY LogOfTheRun
    <3>3. ASSUME NEW e \in Events, ~InLog(e), lines' = Append(lines, e)
          PROVE  Atomic!AppendLine
      <4>1. lines \in Seq(Events)
        BY DEF RunInv, LogInv, LogTypeOK
      <4>2. \A i \in DOMAIN lines : lines[i] # e
        BY <3>3, <4>1 DEF InLog
      <4> QED BY <3>1, <3>3, <4>2 DEF Atomic!AppendLine
    <3> QED BY <3>1, <3>2, <3>3 DEF Atomic!Next
  <2> QED BY <2>1, <2>2
<1> QED BY <1>1, <1>2, RuntimeInvariant, PTL DEF Spec, ImplementsAtomicRuntime, Atomic!Spec
=============================================================================
