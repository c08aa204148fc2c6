---------------------------- MODULE ParallelFilter ----------------------------
(***************************************************************************)
(* application/parallel_filter.py: one chunk of traces filtered by the     *)
(* processes of a ProcessPoolExecutor.                                     *)
(*                                                                         *)
(* filter_chunk_with_executor() splits the chunk into contiguous ranges,   *)
(* submits one task per range, and collects the futures in the order of    *)
(* submission while they complete in any order.  A task may raise; a       *)
(* process that dies breaks the pool and every task that has not ended.    *)
(*                                                                         *)
(* Traces are numbered from 0 within the chunk; a trace's number stands    *)
(* for its filtered amplitudes.                                            *)
(***************************************************************************)
EXTENDS Integers, Sequences

CONSTANTS
    ParallelWorkers,   \* parallel_workers
    ChunkSizes         \* traces a chunk may hold

ASSUME WorkersAssumption == ParallelWorkers \in Nat \ {0}
ASSUME SizesAssumption   == ChunkSizes \subseteq Nat \ {0}

VARIABLES
    pool,      \* the executor: "none", "up", "broken", "closing" or "down"
    call,      \* step of filter_chunk_with_executor(), or how it ended
    size,      \* chunk.shape[0]
    ranges,    \* the ranges found so far
    bound,     \* start of the next one
    futures,   \* state of the task of each range submitted
    result     \* what the collected futures hold, concatenated

filterVars == <<pool, call, size, ranges, bound, futures, result>>

FilterInit ==
    /\ pool = "none" /\ call = "none" /\ size = 0
    /\ ranges = <<>> /\ bound = 0 /\ futures = <<>> /\ result = <<>>

-----------------------------------------------------------------------------
(* partition_trace_ranges(): one step per iteration of its loop.           *)

PartitionCount(n) == IF n < ParallelWorkers THEN n ELSE ParallelWorkers

BadPartSize(n, index) == n \div PartitionCount(n)   \* the remainder is forgotten

\* base_size + (1 if index < remainder else 0)
PartSize(n, index) ==
    n \div PartitionCount(n) + (IF index < n % PartitionCount(n) THEN 1 ELSE 0)

TraceRange(from, to) == [start |-> from, stop |-> to]

\* filter_chunk_with_executor() is called with a chunk of n traces.
BeginCall(n) ==
    /\ call' = "split" /\ size' = n
    /\ ranges' = <<>> /\ bound' = 0 /\ futures' = <<>> /\ result' = <<>>
    /\ UNCHANGED pool

Split ==
    /\ call = "split" /\ Len(ranges) < PartitionCount(size)
    /\ LET stop == bound + PartSize(size, Len(ranges)) IN
       ranges' = Append(ranges, TraceRange(bound, stop)) /\ bound' = stop
    /\ UNCHANGED <<pool, call, size, futures, result>>

\* executor.submit() of the next range; it raises when the pool is broken.
Submit ==
    /\ \/ call = "split" /\ Len(ranges) = PartitionCount(size)
       \/ call = "submit"
    /\ Len(futures) < Len(ranges)
    /\ IF pool = "up"
       THEN call' = "submit" /\ futures' = Append(futures, "queued")
       ELSE call' = "raised" /\ UNCHANGED futures
    /\ UNCHANGED <<pool, size, ranges, bound, result>>

BeginCollect ==
    /\ call = "submit" /\ Len(futures) = Len(ranges)
    /\ call' = "collect"
    /\ UNCHANGED <<pool, size, ranges, bound, futures, result>>

BadRows(r) == [k \in 1 .. r.stop - r.start |-> r.start + k - 2]   \* one trace early

Rows(r) == [k \in 1 .. r.stop - r.start |-> r.start + k - 1]

Collected(k) == IF k = 0 THEN 0 ELSE ranges[k].stop   \* traces of the first k ranges

BadNext(k) ==   \* futures are consumed as they complete
    /\ futures[k] \in {"done", "failed"}
    /\ ranges[k].start \notin {result[i] : i \in 1 .. Len(result)}

\* Futures are consumed in submission order.
NextFuture(k) == Len(result) = Collected(k - 1) /\ futures[k] \in {"done", "failed"}

\* future.result(): waits for the task, and raises what the task raised.
Collect ==
    /\ call = "collect" /\ Len(result) < size
    /\ \E k \in 1 .. Len(futures) :
         /\ NextFuture(k)
         /\ IF futures[k] = "done"
            THEN result' = result \o Rows(ranges[k]) /\ UNCHANGED call
            ELSE call' = "raised" /\ UNCHANGED result
    /\ UNCHANGED <<pool, size, ranges, bound, futures>>

Return ==
    /\ call = "collect" /\ Len(result) = size
    /\ call' = "returned"
    /\ UNCHANGED <<pool, size, ranges, bound, futures, result>>

-----------------------------------------------------------------------------
(* The processes of the pool.                                              *)

Busy == {k \in 1 .. Len(futures) : futures[k] = "running"}

TaskStarts(k) ==
    /\ pool = "up" /\ futures[k] = "queued"
    /\ futures' = [futures EXCEPT ![k] = "running"]
    /\ UNCHANGED <<pool, call, size, ranges, bound, result>>

\* filter_sos_partition() returns or raises in its process.
TaskEnds(k) ==
    /\ futures[k] = "running"
    /\ \E end \in {"done", "failed"} : futures' = [futures EXCEPT ![k] = end]
    /\ UNCHANGED <<pool, call, size, ranges, bound, result>>

Unended(k) == futures[k] \in {"queued", "running"}

\* A process dies: the executor fails all that has not ended, and stays broken.
ProcessDies ==
    /\ pool \in {"up", "closing"}
    /\ pool' = IF pool = "up" THEN "broken" ELSE pool
    /\ futures' = [k \in 1 .. Len(futures) |-> IF Unended(k) THEN "failed" ELSE futures[k]]
    /\ UNCHANGED <<call, size, ranges, bound, result>>

CallStep == Split \/ Submit \/ BeginCollect \/ Collect \/ Return

PoolStep == \E k \in 1 .. Len(futures) : TaskStarts(k) \/ TaskEnds(k)

-----------------------------------------------------------------------------
(* The life of the pool, in _execute_filter_job().                         *)

OpenPool ==
    /\ pool = "none" /\ pool' = "up"
    /\ UNCHANGED <<call, size, ranges, bound, futures, result>>

\* shutdown(wait=True, cancel_futures=True): no task starts any more ...
BeginShutdown ==
    /\ pool \in {"up", "broken"} /\ pool' = "closing"
    /\ futures' = [k \in 1 .. Len(futures) |->
                     IF futures[k] = "queued" THEN "cancelled" ELSE futures[k]]
    /\ UNCHANGED <<call, size, ranges, bound, result>>

BadReleased == TRUE   \* wait=False

Released == Busy = {}

\* ... and those that run are waited for.
EndShutdown ==
    /\ pool = "closing" /\ Released
    /\ pool' = "down"
    /\ UNCHANGED <<call, size, ranges, bound, futures, result>>

-----------------------------------------------------------------------------
(* Properties.                                                             *)

FilterTypeOK ==
    /\ pool \in {"none", "up", "broken", "closing", "down"}
    /\ call \in {"none", "split", "submit", "collect", "returned", "raised"}
    /\ size \in Nat /\ bound \in Nat
    /\ ranges \in Seq([start : Nat, stop : Nat])
    /\ futures \in Seq({"queued", "running", "done", "failed", "cancelled"})
    /\ result \in Seq(Nat)

\* The ranges of a chunk, once all are found, cover it from the first trace to
\* the last without a gap or an overlap, no more of them than there are workers
\* or traces, none empty, and no two differ by more than one trace, whatever the
\* sizes (partition_trace_ranges(), "contiguous ranges").
PartitionIsExact ==
    call \in {"submit", "collect", "returned"} =>
        /\ Len(ranges) \in 1 .. ParallelWorkers
        /\ ranges[1].start = 0 /\ ranges[Len(ranges)].stop = size
        /\ \A k \in 1 .. Len(ranges) : ranges[k].start < ranges[k].stop
        /\ \A k \in 1 .. Len(ranges) - 1 : ranges[k + 1].start = ranges[k].stop
        /\ \A j, k \in 1 .. Len(ranges) :
             ranges[j].stop - ranges[j].start <= ranges[k].stop - ranges[k].start + 1

\* "Completion order cannot change the physical trace order"
\* (parallel_filter.py:53-54): a call that returns hands back every trace of its
\* chunk at its place, in whatever order the tasks ended.
ReturnsTheChunkInOrder ==
    call = "returned" => result = [k \in 1 .. size |-> k - 1]
=============================================================================
