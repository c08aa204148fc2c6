---------------------------- MODULE AtomicRuntime ----------------------------
(***************************************************************************)
(* What FilterJobService takes for granted of an execution's chunks and    *)
(* log lines: one step appends one whole chunk, in the physical order of   *)
(* its traces, or one line for one event; an event may have none, as a     *)
(* failing call to log() is swallowed, and never has two.                  *)
(***************************************************************************)
EXTENDS Naturals, Sequences

CONSTANTS TraceCount, ChunkSize, Events

VARIABLES rows, lines

Init == rows = <<>> /\ lines = <<>>

\* The next chunk, whole or up to the last trace.
AppendChunk ==
    /\ \E n \in 1 .. ChunkSize :
         /\ n = ChunkSize \/ Len(rows) + n = TraceCount
         /\ Len(rows) + n <= TraceCount
         /\ rows' = rows \o [k \in 1 .. n |-> Len(rows) + k - 1]
    /\ UNCHANGED lines

\* The only line of its event.
AppendLine ==
    /\ \E e \in Events : /\ \A i \in DOMAIN lines : lines[i] # e
                         /\ lines' = Append(lines, e)
    /\ UNCHANGED rows

Next == AppendChunk \/ AppendLine

Spec == Init /\ [][Next]_<<rows, lines>>
=============================================================================
