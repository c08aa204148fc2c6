----------------------------- MODULE WindowProofs -----------------------------
(***************************************************************************)
(* Proofs about MainWindow, for every set of jobs, of status filters and   *)
(* with or without log reads and failing history queries.                  *)
(***************************************************************************)
EXTENDS MainWindow, FiniteSetTheorems, TLAPS

-----------------------------------------------------------------------------
(* The queue of the GUI thread, as the set of signals it holds.            *)

Whats == {"result", "quit", "finished"}

Queued(k, w) == \E i \in 1 .. Len(events) : events[i] = Signal(k, w)

\* No signal is queued twice, and a result comes before the quit of its worker.
QueueInv ==
    /\ events \in Seq([kind : Kinds, what : Whats])
    /\ \A i, j \in 1 .. Len(events) : events[i] = events[j] => i = j
    /\ \A i, j \in 1 .. Len(events) : \A k \in Kinds :
         events[i] = Signal(k, "quit") /\ events[j] = Signal(k, "result") => j < i

LEMMA SameSignal ==
    ASSUME NEW k, NEW w, NEW l, NEW v
    PROVE  Signal(k, w) = Signal(l, v) <=> k = l /\ w = v
BY DEF Signal

LEMMA QueueStays ==
    ASSUME QueueInv, UNCHANGED events
    PROVE  QueueInv' /\ \A k, w : Queued(k, w)' <=> Queued(k, w)
BY DEF QueueInv, Queued, Signal

\* The handler of the next signal takes it from the queue.
LEMMA QueueTaken ==
    ASSUME QueueInv, NEW k \in Kinds, NEW w \in Whats, IsNext(k, w)
    PROVE  /\ QueueInv'
           /\ Queued(k, w) /\ ~Queued(k, w)'
           /\ \A l \in Kinds, v \in Whats :
                l # k \/ v # w => (Queued(l, v)' <=> Queued(l, v))
           /\ w = "quit" => ~Queued(k, "result")
<1> DEFINE n == Len(events)
<1>1. /\ n \in Nat /\ n >= 1 /\ events[1] = Signal(k, w)
      /\ Len(events') = n - 1
      /\ \A i \in 1 .. n - 1 : events'[i] = events[i + 1]
      /\ events' \in Seq([kind : Kinds, what : Whats])
  BY DEF IsNext, QueueInv
<1>2. QueueInv'
  <2>1. \A i, j \in 1 .. Len(events') : events'[i] = events'[j] => i = j
    BY <1>1 DEF QueueInv
  <2>2. \A i, j \in 1 .. Len(events') : \A l \in Kinds :
          events'[i] = Signal(l, "quit") /\ events'[j] = Signal(l, "result") => j < i
    BY <1>1 DEF QueueInv
  <2> QED BY <1>1, <2>1, <2>2 DEF QueueInv, Signal
<1>3. Queued(k, w)
  BY <1>1 DEF Queued
<1>4. ~Queued(k, w)'
  BY <1>1 DEF QueueInv, Queued, Signal
<1>5. ASSUME NEW l \in Kinds, NEW v \in Whats, l # k \/ v # w
      PROVE  Queued(l, v)' <=> Queued(l, v)
  <2>1. Signal(l, v) # Signal(k, w)
    BY <1>5, SameSignal
  <2>2. ASSUME Queued(l, v) PROVE Queued(l, v)'
    <3>1. PICK i \in 1 .. n : events[i] = Signal(l, v)
      BY <2>2 DEF Queued
    <3>2. i - 1 \in 1 .. n - 1 /\ events'[i - 1] = Signal(l, v)
      BY <1>1, <2>1, <3>1
    <3> QED BY <1>1, <3>2 DEF Queued, Signal
  <2>3. ASSUME Queued(l, v)' PROVE Queued(l, v)
    <3>1. PICK i \in 1 .. n - 1 : events'[i] = Signal(l, v)
      BY <1>1, <2>3 DEF Queued, Signal
    <3> QED BY <1>1, <3>1 DEF Queued
  <2> QED BY <2>2, <2>3
<1>6. w = "quit" => ~Queued(k, "result")
  BY <1>1 DEF QueueInv, Queued
<1> QED BY <1>2, <1>3, <1>4, <1>5, <1>6

\* A worker emits its result and the quit of its thread.
LEMMA QueueEmitsBoth ==
    ASSUME QueueInv, NEW k \in Kinds, events' = events \o TerminalSignals(k), k # "log",
           ~Queued(k, "result"), ~Queued(k, "quit")
    PROVE  /\ QueueInv'
           /\ \A l \in Kinds, v \in Whats :
                Queued(l, v)' <=> Queued(l, v) \/ (l = k /\ v \in {"result", "quit"})
<1> DEFINE n == Len(events)
           a == Signal(k, "result")
           b == Signal(k, "quit")
<1>0. a # b /\ {a, b} \subseteq [kind : Kinds, what : Whats]
  BY DEF Signal, Whats
<1>1. /\ n \in Nat /\ events' \in Seq([kind : Kinds, what : Whats])
      /\ Len(events') = n + 2
      /\ \A i \in 1 .. n : events'[i] = events[i]
      /\ events'[n + 1] = a /\ events'[n + 2] = b
  <2>1. /\ TerminalSignals(k) = <<a>> \o <<b>>
        /\ events \in Seq([kind : Kinds, what : Whats])
    BY DEF TerminalSignals, ResultSignal, QueueInv
  <2> HIDE DEF a, b
  <2> QED BY <1>0, <2>1
<1>2. \A i \in 1 .. n : events[i] # a /\ events[i] # b
  BY DEF Queued
<1>3. \A l \in Kinds, v \in Whats :
        Queued(l, v)' <=> Queued(l, v) \/ (l = k /\ v \in {"result", "quit"})
  <2>1. ASSUME NEW l \in Kinds, NEW v \in Whats
        PROVE  Queued(l, v)' <=> Queued(l, v) \/ Signal(l, v) \in {a, b}
    <3>1. Queued(l, v)' <=> \E i \in 1 .. n + 2 : events'[i] = Signal(l, v)
      BY <1>1 DEF Queued, Signal
    <3>2. 1 .. n + 2 = 1 .. n \cup {n + 1, n + 2}
      BY <1>1
    <3>3. (\E i \in 1 .. n + 2 : events'[i] = Signal(l, v))
            <=> \/ \E i \in 1 .. n : events[i] = Signal(l, v)
                \/ events'[n + 1] = Signal(l, v) \/ events'[n + 2] = Signal(l, v)
      BY <1>1, <3>2
    <3> HIDE DEF a, b
    <3> QED BY <1>1, <3>1, <3>3 DEF Queued
  <2> QED BY <2>1, SameSignal
<1>4. \A i, j \in 1 .. n + 2 : events'[i] = events'[j] => i = j
  <2> HIDE DEF a, b
  <2> QED BY <1>0, <1>1, <1>2 DEF QueueInv
<1>5. \A i, j \in 1 .. n + 2 : \A l \in Kinds :
        events'[i] = Signal(l, "quit") /\ events'[j] = Signal(l, "result") => j < i
  <2> SUFFICES ASSUME NEW i \in 1 .. n + 2, NEW j \in 1 .. n + 2, NEW l \in Kinds,
                      events'[i] = Signal(l, "quit"), events'[j] = Signal(l, "result")
               PROVE  j < i
    OBVIOUS
  <2>1. CASE l = k
    <3>1. i = n + 2 /\ j = n + 1
      BY <1>1, <1>4, <2>1
    <3> QED BY <1>1, <3>1
  <2>2. CASE l # k
    <3>1. Signal(l, "quit") \notin {a, b} /\ Signal(l, "result") \notin {a, b}
      BY <2>2, SameSignal
    <3>2. i \in 1 .. n /\ j \in 1 .. n
      <4> HIDE DEF a, b
      <4> QED BY <1>1, <3>1
    <3> QED BY <1>1, <3>2 DEF QueueInv
  <2> QED BY <2>1, <2>2
<1>6. QueueInv'
  BY <1>1, <1>4, <1>5 DEF QueueInv, Signal
<1> QED BY <1>3, <1>6

\* A single signal that is no result: a quit without one, or a thread that ends.
LEMMA QueueEnds ==
    ASSUME QueueInv, NEW k \in Kinds, NEW w \in Whats, w # "result",
           events' = Append(events, Signal(k, w)), ~Queued(k, w)
    PROVE  /\ QueueInv'
           /\ \A l \in Kinds, v \in Whats :
                Queued(l, v)' <=> Queued(l, v) \/ (l = k /\ v = w)
<1> DEFINE n == Len(events)
           a == Signal(k, w)
<1>0. a \in [kind : Kinds, what : Whats]
  BY DEF Signal, Whats
<1>1. /\ n \in Nat /\ events' \in Seq([kind : Kinds, what : Whats])
      /\ Len(events') = n + 1
      /\ \A i \in 1 .. n : events'[i] = events[i]
      /\ events'[n + 1] = a
  <2> HIDE DEF a
  <2> QED BY <1>0 DEF QueueInv, a
<1>2. \A i \in 1 .. n : events[i] # a
  BY DEF Queued
<1>3. \A l \in Kinds, v \in Whats :
        Queued(l, v)' <=> Queued(l, v) \/ (l = k /\ v = w)
  <2>1. ASSUME NEW l \in Kinds, NEW v \in Whats
        PROVE  Queued(l, v)' <=> Queued(l, v) \/ Signal(l, v) = a
    <3>1. Queued(l, v)' <=> \E i \in 1 .. n + 1 : events'[i] = Signal(l, v)
      BY <1>1 DEF Queued, Signal
    <3> HIDE DEF a
    <3> QED BY <1>1, <3>1 DEF Queued
  <2>2. ASSUME NEW l \in Kinds, NEW v \in Whats
        PROVE  Signal(l, v) = a <=> l = k /\ v = w
    BY SameSignal
  <2> HIDE DEF a
  <2> QED BY <2>1, <2>2
<1>4. \A i, j \in 1 .. n + 1 : events'[i] = events'[j] => i = j
  <2> HIDE DEF a
  <2> QED BY <1>1, <1>2 DEF QueueInv
<1>5. \A i, j \in 1 .. n + 1 : \A l \in Kinds :
        events'[i] = Signal(l, "quit") /\ events'[j] = Signal(l, "result") => j < i
  <2> SUFFICES ASSUME NEW i \in 1 .. n + 1, NEW j \in 1 .. n + 1, NEW l \in Kinds,
                      events'[i] = Signal(l, "quit"), events'[j] = Signal(l, "result")
               PROVE  j < i
    OBVIOUS
  <2>1. Signal(l, "result") # a
    BY SameSignal
  <2>2. j \in 1 .. n
    <3> HIDE DEF a
    <3> QED BY <1>1, <2>1
  <2>3. CASE i = n + 1
    BY <1>1, <2>2, <2>3
  <2>4. CASE i \in 1 .. n
    BY <1>1, <2>2, <2>4 DEF QueueInv
  <2> QED BY <1>1, <2>3, <2>4
<1>6. QueueInv'
  BY <1>1, <1>4, <1>5 DEF QueueInv, Signal
<1> QED BY <1>3, <1>6

\* The signals of a worker's outcome.
Emitted(k) == IF k = "log" THEN {"quit"} ELSE {"result", "quit"}

LEMMA QueueEmits ==
    ASSUME QueueInv, NEW k \in Kinds, events' = events \o TerminalSignals(k),
           ~Queued(k, "result"), ~Queued(k, "quit")
    PROVE  /\ QueueInv'
           /\ \A l \in Kinds, v \in Whats :
                Queued(l, v)' <=> Queued(l, v) \/ (l = k /\ v \in Emitted(k))
<1>1. CASE k # "log"
  BY <1>1, QueueEmitsBoth DEF Emitted
<1>2. CASE k = "log"
  <2> DEFINE a == Signal(k, "quit")
             S == [kind : Kinds, what : Whats]
  <2>1. a \in S /\ events \in Seq(S) /\ TerminalSignals(k) = <<>> \o <<a>>
    BY <1>2 DEF QueueInv, Signal, Whats, TerminalSignals, ResultSignal
  <2>2. events' = Append(events, a)
    <3> HIDE DEF a, S
    <3> QED BY <2>1
  <2> QED BY <1>2, <2>2, QueueEnds DEF Emitted, Whats
<1> QED BY <1>1, <1>2

-----------------------------------------------------------------------------
(* The inductive invariant.                                                *)

Pending(k) == phase[k] \in {"starting", "running", "returned"} \/ Queued(k, "result")
Handled(k) == ~Pending(k)
Known(k)   == phase[k] = "returned" \/ Queued(k, "result")   \* result[k] holds

Shapes ==
    /\ row   \in [Ids -> Status \cup {"ABSENT"}]
    /\ table \in [Ids -> Status \cup {"NONE"}]
    /\ ref \in [Kinds -> BOOLEAN] /\ phase \in [Kinds -> Phases]
    /\ result = [k \in Kinds |-> result[k]]
    /\ dataset \in BOOLEAN /\ runEnabled \in BOOLEAN

\* A pair's references, its thread and its signals agree.
Pairs ==
    \A k \in Kinds :
        /\ ref[k] <=> phase[k] # "none"
        /\ Queued(k, "result") \/ Queued(k, "quit") => phase[k] = "emitted"
        /\ Queued(k, "finished") => phase[k] = "over"

\* What the controls allow, and whom Cancel reaches.
Controls ==
    /\ runEnabled => ~ref["job"] /\ ~ref["import"]
    /\ ~(ref["job"] /\ ref["import"])
    /\ ref["job"] => target \in Ids
    /\ current = IF Pending("job") THEN target ELSE NoId
    /\ ~open => \A k \in Kinds : ~ref[k]

\* A table, or the answer to a query, that no row contradicts for good.
Backed(t) ==
    \A j \in Ids : /\ t[j] # "NONE" => row[j] # "ABSENT"
                   /\ t[j] = "COMPLETED" => row[j] = "COMPLETED"

\* What the results in flight say of the rows.
Rows ==
    /\ ref["job"] => row[target] # "ABSENT"
    /\ phase["job"] = "running" => row[target] = "RUNNING"
    /\ Known("job") => result["job"] \in {Failure, row[target]}
    /\ Known("history") =>
         \/ result["history"] = Failure
         \/ result["history"] \in [Ids -> Status \cup {"NONE"}]
            /\ Backed(result["history"])
    /\ Backed(table)

\* With no job's outcome to come, the table shows the rows, or the query in
\* flight brings them.
Settled ==
    Handled("job") /\ ~missed =>
        IF Pending("history")
        THEN /\ query = filter
             /\ phase["history"] # "starting" =>
                  result["history"] \in {Failure, Found(filter)}
        ELSE table = Found(filter)

WInv == Shapes /\ Pairs /\ Controls /\ Rows /\ Settled
IInv == QueueInv /\ WInv

\* An import starts.
LEMMA SelectSegyKeeps ==
    ASSUME IInv, SelectSegy
    PROVE  IInv'
<1>1. QueueInv' /\ \A l, v : Queued(l, v)' <=> Queued(l, v)
  BY QueueStays DEF IInv, SelectSegy, StartPair, RefreshControls, RunAllowed, jobVars, pairVars, Phases
<1>2. Shapes'
  BY <1>1, KindsAssumption
  DEF IInv, WInv, Shapes, Phases, SelectSegy, StartPair, RefreshControls, RunAllowed
<1>3. Pairs'
  BY <1>1, KindsAssumption
  DEF IInv, WInv, Shapes, Pairs, SelectSegy, StartPair
<1>4. Controls'
  BY <1>1, KindsAssumption
  DEF IInv, WInv, Shapes, Controls, Pending, SelectSegy, StartPair, RefreshControls,
      RunAllowed, jobVars
<1>5. Rows'
  BY <1>1, KindsAssumption
  DEF IInv, WInv, Pairs, Rows, Known, Backed, SelectSegy, StartPair
<1>6. Settled'
  BY <1>1, KindsAssumption
  DEF IInv, WInv, Settled, Handled, Pending, Found, SelectSegy, StartPair
<1> QED BY <1>1, <1>2, <1>3, <1>4, <1>5, <1>6 DEF IInv, WInv

\* A new job starts.
LEMMA RunKeeps ==
    ASSUME IInv, NEW j \in Ids, Run(j)
    PROVE  IInv'
<1>1. QueueInv' /\ \A l, v : Queued(l, v)' <=> Queued(l, v)
  BY QueueStays DEF IInv, Run, StartJob, JobFree, StartPair, RefreshControls, RunAllowed, jobVars, pairVars, Phases, Status
<1>2. Shapes'
  BY <1>1, KindsAssumption
  DEF IInv, WInv, Shapes, Phases, Run, StartJob, StartPair, RefreshControls, RunAllowed,
      Status
<1>3. Pairs'
  BY <1>1, KindsAssumption
  DEF IInv, WInv, Shapes, Pairs, Run, StartJob, JobFree, StartPair
<1>4. Controls'
  BY <1>1, KindsAssumption
  DEF IInv, WInv, Shapes, Controls, Pending, Run, StartJob, StartPair, RefreshControls,
      RunAllowed
<1>5. Rows'
  BY <1>1, KindsAssumption
  DEF IInv, WInv, Shapes, Pairs, Controls, Rows, Known, Backed, Run, StartJob, StartPair
<1>6. Settled'
  BY <1>1, KindsAssumption
  DEF IInv, WInv, Shapes, Settled, Handled, Pending, Run, StartJob, StartPair
<1> QED BY <1>1, <1>2, <1>3, <1>4, <1>5, <1>6 DEF IInv, WInv

\* A cancelled job starts again.
LEMMA ResumeKeeps ==
    ASSUME IInv, NEW j \in Ids, Resume(j)
    PROVE  IInv'
<1>1. QueueInv' /\ \A l, v : Queued(l, v)' <=> Queued(l, v)
  BY QueueStays DEF IInv, Resume, StartJob, JobFree, StartPair, RefreshControls, RunAllowed, jobVars, pairVars, Phases, Status
<1>2. Shapes'
  BY <1>1, KindsAssumption
  DEF IInv, WInv, Shapes, Phases, Resume, StartJob, StartPair, RefreshControls,
      RunAllowed
<1>3. Pairs'
  BY <1>1, KindsAssumption
  DEF IInv, WInv, Shapes, Pairs, Resume, StartJob, JobFree, StartPair
<1>4. Controls'
  BY <1>1, KindsAssumption
  DEF IInv, WInv, Shapes, Controls, Pending, Resume, StartJob, StartPair,
      RefreshControls, RunAllowed
<1>5. Rows'
  BY <1>1, KindsAssumption
  DEF IInv, WInv, Pairs, Rows, Known, Backed, Resume, StartJob, JobFree, StartPair
<1>6. Settled'
  BY <1>1, KindsAssumption
  DEF IInv, WInv, Shapes, Settled, Handled, Pending, Resume, StartJob, StartPair
<1> QED BY <1>1, <1>2, <1>3, <1>4, <1>5, <1>6 DEF IInv, WInv

\* A request to cancel moves only its mark.
LEMMA CancelKeeps ==
    ASSUME IInv, Cancel
    PROVE  IInv'
<1>1. QueueInv' /\ \A l, v : Queued(l, v)' <=> Queued(l, v)
  BY QueueStays DEF IInv, Cancel, CancelAccepted, jobVars, pairVars
<1>2. Shapes'
  BY <1>1, KindsAssumption
  DEF IInv, WInv, Shapes, Cancel, pairVars
<1>3. Pairs'
  BY <1>1, KindsAssumption
  DEF IInv, WInv, Pairs, Cancel, pairVars
<1>4. Controls'
  BY <1>1, KindsAssumption
  DEF IInv, WInv, Controls, Pending, Cancel, pairVars
<1>5. Rows'
  BY <1>1, KindsAssumption
  DEF IInv, WInv, Rows, Known, Backed, Cancel, pairVars
<1>6. Settled'
  BY <1>1, KindsAssumption
  DEF IInv, WInv, Settled, Handled, Pending, Found, Cancel, pairVars
<1> QED BY <1>1, <1>2, <1>3, <1>4, <1>5, <1>6 DEF IInv, WInv

\* The window closes with no thread, or not at all.
LEMMA CloseKeeps ==
    ASSUME IInv, Close
    PROVE  IInv'
<1>1. QueueInv' /\ \A l, v : Queued(l, v)' <=> Queued(l, v)
  BY QueueStays DEF IInv, Close, CancelAccepted, NothingRuns, jobVars, pairVars
<1>2. Shapes'
  BY <1>1, KindsAssumption
  DEF IInv, WInv, Shapes, Close, pairVars
<1>3. Pairs'
  BY <1>1, KindsAssumption
  DEF IInv, WInv, Pairs, Close, pairVars
<1>4. Controls'
  BY <1>1, KindsAssumption
  DEF IInv, WInv, Controls, Pending, Close, NothingRuns, pairVars
<1>5. Rows'
  BY <1>1, KindsAssumption
  DEF IInv, WInv, Rows, Known, Backed, Close, pairVars
<1>6. Settled'
  BY <1>1, KindsAssumption
  DEF IInv, WInv, Settled, Handled, Pending, Found, Close, pairVars
<1> QED BY <1>1, <1>2, <1>3, <1>4, <1>5, <1>6 DEF IInv, WInv

\* A query starts with the filter chosen.
LEMMA ChangeFilterKeeps ==
    ASSUME IInv, NEW f \in StatusFilters, ChangeFilter(f)
    PROVE  IInv'
<1>1. QueueInv' /\ \A l, v : Queued(l, v)' <=> Queued(l, v)
  BY QueueStays DEF IInv, ChangeFilter, RefreshHistory, StartPair, jobVars, pairVars, Phases
<1>2. Shapes'
  BY <1>1, KindsAssumption
  DEF IInv, WInv, Shapes, Pairs, Known, Phases, ChangeFilter, RefreshHistory, StartPair,
      jobVars, pairVars
<1>3. Pairs'
  BY <1>1, KindsAssumption
  DEF IInv, WInv, Shapes, Pairs, ChangeFilter, RefreshHistory, StartPair
<1>4. Controls'
  BY <1>1, KindsAssumption
  DEF IInv, WInv, Shapes, Controls, Pending, ChangeFilter, RefreshHistory, StartPair,
      jobVars
<1>5. Rows'
  <2> USE DEF IInv, WInv, Shapes, Pairs, Controls, Rows, Known, Backed
  <2>0. /\ UNCHANGED <<row, table, result, target>>
        /\ ref' = [ref EXCEPT !["history"] = TRUE]
        /\ phase' = [phase EXCEPT !["history"] = "starting"]
    BY DEF ChangeFilter, RefreshHistory, StartPair, jobVars
  <2>1. /\ UNCHANGED <<row, table, result, target>>
        /\ ref'["job"] = ref["job"] /\ phase'["job"] = phase["job"]
        /\ phase'["history"] = "starting"
    BY <2>0, KindsAssumption
  <2>2. ~Queued("history", "result")'
    BY <1>1, KindsAssumption DEF ChangeFilter
  <2> QED BY <1>1, <2>1, <2>2
<1>6. Settled'
  BY <1>1, KindsAssumption
  DEF IInv, WInv, Shapes, Settled, Pending, ChangeFilter, RefreshHistory, StartPair
<1> QED BY <1>1, <1>2, <1>3, <1>4, <1>5, <1>6 DEF IInv, WInv

\* A log read starts.
LEMMA ViewLogKeeps ==
    ASSUME IInv, ViewLog
    PROVE  IInv'
<1>1. QueueInv' /\ \A l, v : Queued(l, v)' <=> Queued(l, v)
  BY QueueStays DEF IInv, ViewLog, StartPair, jobVars, pairVars, Phases
<1>2. Shapes'
  BY <1>1, KindsAssumption
  DEF IInv, WInv, Shapes, Phases, ViewLog, StartPair
<1>3. Pairs'
  BY <1>1, KindsAssumption
  DEF IInv, WInv, Shapes, Pairs, ViewLog, StartPair
<1>4. Controls'
  BY <1>1, KindsAssumption
  DEF IInv, WInv, Controls, Pending, ViewLog, StartPair, jobVars
<1>5. Rows'
  BY <1>1, KindsAssumption
  DEF IInv, WInv, Rows, Known, Backed, ViewLog, StartPair, jobVars
<1>6. Settled'
  BY <1>1, KindsAssumption
  DEF IInv, WInv, Settled, Handled, Pending, Found, ViewLog, StartPair
<1> QED BY <1>1, <1>2, <1>3, <1>4, <1>5, <1>6 DEF IInv, WInv

\* The service starts the job, or refuses.
LEMMA JobBeginsKeeps ==
    ASSUME IInv, JobBegins
    PROVE  IInv'
<1>1. QueueInv' /\ \A l, v : Queued(l, v)' <=> Queued(l, v)
  BY QueueStays DEF IInv, JobBegins, CanBegin, Moved, Returns, jobVars, pairVars, Phases, Status, Terminal
<1>2. Shapes'
  BY <1>1, KindsAssumption
  DEF IInv, WInv, Shapes, Phases, JobBegins, Moved, Returns, Status
<1>3. Pairs'
  BY <1>1, KindsAssumption
  DEF IInv, WInv, Shapes, Pairs, JobBegins, Moved
<1>4. Controls'
  BY <1>1, KindsAssumption
  DEF IInv, WInv, Shapes, Controls, Pending, JobBegins, Moved, jobVars
<1>5. Rows'
  BY <1>1, KindsAssumption
  DEF IInv, WInv, Shapes, Pairs, Controls, Rows, Known, Backed, JobBegins, CanBegin,
      Moved, Returns, jobVars
<1>6. Settled'
  BY <1>1, KindsAssumption
  DEF IInv, WInv, Shapes, Settled, Handled, Pending, JobBegins, Moved
<1> QED BY <1>1, <1>2, <1>3, <1>4, <1>5, <1>6 DEF IInv, WInv

\* An execution ends, with its row updated or not.
LEMMA JobEndsKeeps ==
    ASSUME IInv, JobEnds
    PROVE  IInv'
<1>1. QueueInv' /\ \A l, v : Queued(l, v)' <=> Queued(l, v)
  BY QueueStays DEF IInv, JobEnds, Outcomes, Returned, Unsaved, Moved, Returns, jobVars, pairVars, Phases, Status, Terminal
<1>2. Shapes'
  BY <1>1, KindsAssumption
  DEF IInv, WInv, Shapes, Phases, JobEnds, Outcomes, Unsaved, Moved, Returns, Status,
      Terminal
<1>3. Pairs'
  BY <1>1, KindsAssumption
  DEF IInv, WInv, Pairs, JobEnds, Moved
<1>4. Controls'
  BY <1>1, KindsAssumption
  DEF IInv, WInv, Controls, Pending, JobEnds, Moved, jobVars
<1>5. Rows'
  BY <1>1, KindsAssumption
  DEF IInv, WInv, Shapes, Pairs, Controls, Rows, Known, Backed, JobEnds, Outcomes,
      Returned, Unsaved, Moved, Returns, jobVars
<1>6. Settled'
  BY <1>1, KindsAssumption
  DEF IInv, WInv, Settled, Handled, Pending, JobEnds, Moved
<1> QED BY <1>1, <1>2, <1>3, <1>4, <1>5, <1>6 DEF IInv, WInv

\* Another worker's call returns.
LEMMA AnswerKeeps ==
    ASSUME IInv, NEW k \in Kinds, Answer(k)
    PROVE  IInv'
<1>1. QueueInv' /\ \A l, v : Queued(l, v)' <=> Queued(l, v)
  BY QueueStays DEF IInv, Answer, Answers, Moved, Returns, jobVars, pairVars, Phases, Status, Terminal, Success
<1>2. Shapes'
  BY <1>1, KindsAssumption
  DEF IInv, WInv, Shapes, Phases, Answer, Moved, Returns
<1>3. Pairs'
  BY <1>1, KindsAssumption
  DEF IInv, WInv, Pairs, Answer, Moved
<1>4. Controls'
  BY <1>1, KindsAssumption
  DEF IInv, WInv, Controls, Pending, Answer, Moved, jobVars
<1>5. Rows'
  <2> USE DEF IInv, WInv, Shapes, Pairs, Controls, Rows, Known
  <2>1. /\ UNCHANGED <<row, table, ref, target>>
        /\ phase' = [phase EXCEPT ![k] = "returned"] /\ k # "job"
        /\ phase'["job"] = phase["job"] /\ result'["job"] = result["job"]
    BY KindsAssumption DEF Answer, Moved, Returns, jobVars
  <2>2. Known("history")' =>
          \/ result'["history"] = Failure
          \/ /\ result'["history"] \in [Ids -> Status \cup {"NONE"}]
             /\ Backed(result["history"])'
    <3>1. CASE k = "history"
      <4>1. result'["history"] \in {Found(query), Failure}
        BY <3>1, KindsAssumption DEF Answer, Answers, Returns
      <4>2. Found(query) \in [Ids -> Status \cup {"NONE"}]
        BY DEF Found
      <4>3. \A j \in Ids : /\ Found(query)[j] # "NONE" => row[j] # "ABSENT"
                           /\ Found(query)[j] = "COMPLETED" => row[j] = "COMPLETED"
        BY DEF Found
      <4> QED BY <2>1, <4>1, <4>2, <4>3 DEF Backed
    <3>2. CASE k # "history"
      <4>1. /\ phase'["history"] = phase["history"]
            /\ result'["history"] = result["history"]
        BY <2>1, <3>2, KindsAssumption DEF Answer, Returns
      <4> QED BY <1>1, <2>1, <4>1 DEF Backed
    <3> QED BY <3>1, <3>2
  <2> QED BY <1>1, <2>1, <2>2 DEF Backed
<1>6. Settled'
  BY <1>1, KindsAssumption
  DEF IInv, WInv, Shapes, Settled, Handled, Pending, Found, Answer, Answers, Moved,
      Returns
<1> QED BY <1>1, <1>2, <1>3, <1>4, <1>5, <1>6 DEF IInv, WInv

\* The outcome is shown, and a query asked for.
LEMMA OnJobResultKeeps ==
    ASSUME IInv, OnJobResult
    PROVE  IInv'
<1>1. /\ QueueInv' /\ Queued("job", "result") /\ ~Queued("job", "result")'
      /\ \A l \in Kinds, v \in Whats :
           l # "job" \/ v # "result" => (Queued(l, v)' <=> Queued(l, v))
  BY QueueTaken, KindsAssumption DEF IInv, Whats, OnJobResult
<1>2. Shapes'
  <2>1. ref["job"] /\ target \in Ids /\ row[target] \in Status
    BY <1>1, KindsAssumption DEF IInv, WInv, Shapes, Pairs, Controls, Rows
  <2>2. table' \in [Ids -> Status \cup {"NONE"}]
    BY <1>1, <2>1 DEF IInv, WInv, Shapes, Rows, Known, OnJobResult, Updated
  <2>3. /\ ref' \in [Kinds -> BOOLEAN] /\ phase' \in [Kinds -> Phases]
        /\ result' = [k \in Kinds |-> result'[k]]
    <3>1. CASE ref["history"]
      BY <3>1 DEF IInv, WInv, Shapes, OnJobResult, Reconcile, RefreshHistory, pairVars
    <3>2. CASE ~ref["history"]
      <4>1. /\ ref' = [ref EXCEPT !["history"] = TRUE]
            /\ phase' = [phase EXCEPT !["history"] = "starting"]
            /\ result' = result
        BY <3>2 DEF OnJobResult, Reconcile, RefreshHistory, StartPair
      <4> QED BY <4>1, KindsAssumption DEF IInv, WInv, Shapes, Phases
    <3> QED BY <3>1, <3>2
  <2> QED BY <2>2, <2>3 DEF IInv, WInv, Shapes, OnJobResult
<1>3. Pairs'
  BY <1>1, KindsAssumption
  DEF IInv, WInv, Shapes, Pairs, Whats, OnJobResult, Reconcile, RefreshHistory,
      StartPair, pairVars
<1>4. Controls'
  BY <1>1, KindsAssumption
  DEF IInv, WInv, Shapes, Pairs, Controls, Pending, OnJobResult, Reconcile,
      RefreshHistory, StartPair, pairVars
<1>5. Rows'
  BY <1>1, KindsAssumption
  DEF IInv, WInv, Shapes, Rows, Known, Backed, Whats, OnJobResult, Updated, Reconcile,
      RefreshHistory, StartPair, pairVars
<1>6. Settled'
  BY <1>1, KindsAssumption
  DEF IInv, WInv, Shapes, Settled, Pending, OnJobResult, Reconcile, RefreshHistory,
      StartPair
<1> QED BY <1>1, <1>2, <1>3, <1>4, <1>5, <1>6 DEF IInv, WInv

\* The rows found are shown.
LEMMA OnHistoryResultKeeps ==
    ASSUME IInv, OnHistoryResult
    PROVE  IInv'
<1>1. /\ QueueInv' /\ Queued("history", "result") /\ ~Queued("history", "result")'
      /\ \A l \in Kinds, v \in Whats :
           l # "history" \/ v # "result" => (Queued(l, v)' <=> Queued(l, v))
  BY QueueTaken, KindsAssumption DEF IInv, Whats, OnHistoryResult
<1>2. Shapes'
  BY <1>1, KindsAssumption
  DEF IInv, WInv, Shapes, Rows, Known, OnHistoryResult, pairVars
<1>3. Pairs'
  BY <1>1, KindsAssumption
  DEF IInv, WInv, Pairs, Whats, OnHistoryResult, pairVars
<1>4. Controls'
  BY <1>1, KindsAssumption
  DEF IInv, WInv, Controls, Pending, Whats, OnHistoryResult, jobVars, pairVars
<1>5. Rows'
  BY <1>1, KindsAssumption
  DEF IInv, WInv, Rows, Known, Backed, Whats, OnHistoryResult, jobVars, pairVars
<1>6. Settled'
  BY <1>1, KindsAssumption
  DEF IInv, WInv, Settled, Handled, Pending, Found, Whats, OnHistoryResult, pairVars
<1> QED BY <1>1, <1>2, <1>3, <1>4, <1>5, <1>6 DEF IInv, WInv

\* A dataset is loaded, or none.
LEMMA OnImportResultKeeps ==
    ASSUME IInv, OnImportResult
    PROVE  IInv'
<1>1. /\ QueueInv' /\ Queued("import", "result") /\ ~Queued("import", "result")'
      /\ \A l \in Kinds, v \in Whats :
           l # "import" \/ v # "result" => (Queued(l, v)' <=> Queued(l, v))
  BY QueueTaken, KindsAssumption DEF IInv, Whats, OnImportResult
<1>2. Shapes'
  BY <1>1, KindsAssumption
  DEF IInv, WInv, Shapes, OnImportResult, RefreshControls, RunAllowed, pairVars
<1>3. Pairs'
  BY <1>1, KindsAssumption
  DEF IInv, WInv, Pairs, Whats, OnImportResult, pairVars
<1>4. Controls'
  BY <1>1, KindsAssumption
  DEF IInv, WInv, Controls, Pending, Whats, OnImportResult, RefreshControls, RunAllowed,
      jobVars, pairVars
<1>5. Rows'
  BY <1>1, KindsAssumption
  DEF IInv, WInv, Pairs, Controls, Rows, Known, Backed, Whats, OnImportResult, pairVars
<1>6. Settled'
  BY <1>1, KindsAssumption
  DEF IInv, WInv, Settled, Handled, Pending, Found, Whats, OnImportResult, pairVars
<1> QED BY <1>1, <1>2, <1>3, <1>4, <1>5, <1>6 DEF IInv, WInv

\* A thread is told to quit.
LEMMA OnQuitKeeps ==
    ASSUME IInv, NEW k \in Kinds, OnQuit(k)
    PROVE  IInv'
<1>1. /\ QueueInv' /\ Queued(k, "quit") /\ ~Queued(k, "quit")'
      /\ \A l \in Kinds, v \in Whats :
           l # k \/ v # "quit" => (Queued(l, v)' <=> Queued(l, v))
      /\ ~Queued(k, "result")
  BY QueueTaken, KindsAssumption DEF IInv, Whats, OnQuit
<1>2. Shapes'
  BY <1>1, KindsAssumption
  DEF IInv, WInv, Shapes, Phases, OnQuit, Moved
<1>3. Pairs'
  BY <1>1, KindsAssumption
  DEF IInv, WInv, Pairs, Whats, OnQuit, Moved
<1>4. Controls'
  BY <1>1, KindsAssumption
  DEF IInv, WInv, Controls, Pending, Whats, OnQuit, Moved, jobVars
<1>5. Rows'
  BY <1>1, KindsAssumption
  DEF IInv, WInv, Rows, Known, Backed, Whats, OnQuit, Moved, jobVars
<1>6. Settled'
  BY <1>1, KindsAssumption
  DEF IInv, WInv, Settled, Handled, Pending, Found, Whats, OnQuit, Moved
<1> QED BY <1>1, <1>2, <1>3, <1>4, <1>5, <1>6 DEF IInv, WInv

\* A pair is dropped.
LEMMA OnFinishedKeeps ==
    ASSUME IInv, NEW k \in Kinds, OnFinished(k)
    PROVE  IInv'
<1>1. /\ QueueInv' /\ Queued(k, "finished") /\ ~Queued(k, "finished")'
      /\ \A l \in Kinds, v \in Whats :
           l # k \/ v # "finished" => (Queued(l, v)' <=> Queued(l, v))
  BY QueueTaken, KindsAssumption DEF IInv, Whats, OnFinished
<1>2. Shapes'
  BY <1>1, KindsAssumption
  DEF IInv, WInv, Shapes, Phases, OnFinished, RefreshControls, RunAllowed
<1>3. Pairs'
  BY <1>1, KindsAssumption
  DEF IInv, WInv, Shapes, Pairs, Whats, OnFinished
<1>4. Controls'
  BY <1>1, KindsAssumption
  DEF IInv, WInv, Shapes, Pairs, Controls, Pending, Whats, OnFinished
<1>5. Rows'
  BY <1>1, KindsAssumption
  DEF IInv, WInv, Shapes, Pairs, Rows, Known, Backed, Whats, OnFinished
<1>6. Settled'
  BY <1>1, KindsAssumption
  DEF IInv, WInv, Pairs, Settled, Handled, Pending, Found, Whats, OnFinished
<1> QED BY <1>1, <1>2, <1>3, <1>4, <1>5, <1>6 DEF IInv, WInv

\* A worker emits its terminal signal, once.
LEMMA EmitKeeps ==
    ASSUME IInv, NEW k \in Kinds, Emit(k)
    PROVE  IInv'
<1>0. ~Queued(k, "result") /\ ~Queued(k, "quit")
  BY DEF IInv, WInv, Pairs, Emit, Moved
<1>1. /\ QueueInv'
      /\ \A l \in Kinds, v \in Whats :
           Queued(l, v)' <=> Queued(l, v) \/ (l = k /\ v \in Emitted(k))
      /\ "quit" \in Emitted(k) /\ Emitted(k) \subseteq {"result", "quit"}
      /\ k # "log" => "result" \in Emitted(k)
  BY <1>0, QueueEmits DEF IInv, Emit, Emitted
<1>2. Shapes'
  BY <1>1, KindsAssumption
  DEF IInv, WInv, Shapes, Phases, Emit, Moved
<1>3. Pairs'
  BY <1>1, KindsAssumption
  DEF IInv, WInv, Shapes, Pairs, Whats, Emit, Moved
<1>4. Controls'
  BY <1>1, KindsAssumption
  DEF IInv, WInv, Controls, Pending, Whats, Emit, Moved, jobVars
<1>5. Rows'
  BY <1>1, KindsAssumption
  DEF IInv, WInv, Rows, Known, Backed, Whats, Emit, Moved, jobVars
<1>6. Settled'
  BY <1>1, KindsAssumption
  DEF IInv, WInv, Settled, Handled, Pending, Found, Whats, Emit, Moved
<1> QED BY <1>1, <1>2, <1>3, <1>4, <1>5, <1>6 DEF IInv, WInv

\* A thread ends.
LEMMA ThreadEndsKeeps ==
    ASSUME IInv, NEW k \in Kinds, ThreadEnds(k)
    PROVE  IInv'
<1>0. ~Queued(k, "finished")
  BY DEF IInv, WInv, Pairs, ThreadEnds, Moved
<1>1. /\ QueueInv'
      /\ \A l \in Kinds, v \in Whats :
           Queued(l, v)' <=> Queued(l, v) \/ (l = k /\ v = "finished")
  BY <1>0, QueueEnds DEF IInv, ThreadEnds, Whats
<1>2. Shapes'
  BY <1>1, KindsAssumption
  DEF IInv, WInv, Shapes, Phases, ThreadEnds, Moved
<1>3. Pairs'
  BY <1>1, KindsAssumption
  DEF IInv, WInv, Shapes, Pairs, Whats, ThreadEnds, Moved, jobVars, pairVars, Phases
<1>4. Controls'
  BY <1>1, KindsAssumption
  DEF IInv, WInv, Controls, Pending, Whats, ThreadEnds, Moved, jobVars
<1>5. Rows'
  BY <1>1, KindsAssumption
  DEF IInv, WInv, Shapes, Pairs, Controls, Rows, Known, Backed, Pending, Whats,
      ThreadEnds, Moved, jobVars, pairVars, Phases
<1>6. Settled'
  BY <1>1, KindsAssumption
  DEF IInv, WInv, Shapes, Pairs, Controls, Rows, Settled, Handled, Pending, Known,
      Found, Whats, ThreadEnds, Moved, jobVars, pairVars, Phases
<1> QED BY <1>1, <1>2, <1>3, <1>4, <1>5, <1>6 DEF IInv, WInv

\* The viewers touch nothing else of the window.
LEMMA ViewerKeeps ==
    ASSUME IInv, OpenViewer \/ ViewerStep
    PROVE  IInv'
<1>1. UNCHANGED <<row, table, filter, dataset, runEnabled, current, target, ref, phase,
                  result, query, events, open, missed>>
  BY DEF OpenViewer, ViewerStep, jobVars, pairVars
<1>2. QueueInv' /\ \A l, v : Queued(l, v)' <=> Queued(l, v)
  BY <1>1, QueueStays DEF IInv
<1>3. Shapes' /\ Pairs'
  BY <1>1, <1>2 DEF IInv, WInv, Shapes, Pairs
<1>4. Controls' /\ Rows'
  BY <1>1, <1>2 DEF IInv, WInv, Controls, Rows, Pending, Known, Backed
<1>5. Settled'
  BY <1>1, <1>2 DEF IInv, WInv, Settled, Handled, Pending, Found
<1> QED BY <1>2, <1>3, <1>4, <1>5 DEF IInv, WInv

-----------------------------------------------------------------------------
(* The theorems.                                                           *)

LEMMA WindowStarts ==
    ASSUME Init
    PROVE  IInv
<1>1. QueueInv /\ \A k, w : ~Queued(k, w)
  BY DEF Init, QueueInv, Queued
<1>2. Shapes /\ Pairs
  BY <1>1 DEF Init, Shapes, Pairs, Phases, Status
<1>3. Controls
  BY <1>1, KindsAssumption DEF Init, Controls, Pending
<1>4. Rows
  BY <1>1, KindsAssumption DEF Init, Rows, Known, Backed
<1>5. Settled
  BY <1>1, KindsAssumption DEF Init, Settled, Pending
<1> QED BY <1>1, <1>2, <1>3, <1>4, <1>5 DEF IInv, WInv

LEMMA WindowSteps ==
    ASSUME IInv, Next
    PROVE  IInv'
<1>1. CASE UserStep
  <2>1. CASE SelectSegy \/ Cancel \/ Close \/ ViewLog \/ OpenViewer
    BY <2>1, SelectSegyKeeps, CancelKeeps, CloseKeeps, ViewLogKeeps, ViewerKeeps
  <2>2. CASE \E j \in Ids : Run(j) \/ Resume(j)
    BY <2>2, RunKeeps, ResumeKeeps
  <2>3. CASE \E f \in StatusFilters : ChangeFilter(f)
    BY <2>3, ChangeFilterKeeps
  <2> QED BY <1>1, <2>1, <2>2, <2>3 DEF UserStep
<1>2. CASE HandleEvent
  <2>1. CASE OnJobResult \/ OnHistoryResult \/ OnImportResult
    BY <2>1, OnJobResultKeeps, OnHistoryResultKeeps, OnImportResultKeeps
  <2>2. CASE \E k \in Kinds : OnQuit(k) \/ OnFinished(k)
    BY <2>2, OnQuitKeeps, OnFinishedKeeps
  <2> QED BY <1>2, <2>1, <2>2 DEF HandleEvent
<1>3. CASE ViewerStep
  BY <1>3, ViewerKeeps
<1>4. ASSUME NEW k \in Kinds, ThreadStep(k) PROVE IInv'
  BY <1>4, JobBeginsKeeps, JobEndsKeeps, AnswerKeeps, EmitKeeps, ThreadEndsKeeps
  DEF ThreadStep
<1> QED BY <1>1, <1>2, <1>3, <1>4 DEF Next

\* The pairs, the queue, the rows and the table agree as IInv says in every
\* reachable state, for every set of jobs and filters.
THEOREM WindowInvariant == Spec => []IInv
<1>1. Init => IInv
  BY WindowStarts
<1>2. IInv /\ [Next]_vars => IInv'
  <2> SUFFICES ASSUME IInv, UNCHANGED vars PROVE IInv'
    BY WindowSteps
  <2>1. UNCHANGED <<row, table, filter, dataset, runEnabled, current, target, ref, phase,
                    result, query, events, open, missed>>
    BY DEF vars, jobVars, pairVars
  <2>2. QueueInv' /\ \A l, v : Queued(l, v)' <=> Queued(l, v)
    BY <2>1, QueueStays DEF IInv
  <2>3. Shapes' /\ Pairs'
    BY <2>1, <2>2 DEF IInv, WInv, Shapes, Pairs
  <2>4. Controls' /\ Rows'
    BY <2>1, <2>2 DEF IInv, WInv, Controls, Rows, Pending, Known, Backed
  <2>5. Settled'
    BY <2>1, <2>2 DEF IInv, WInv, Settled, Handled, Pending, Found
  <2> QED BY <2>2, <2>3, <2>4, <2>5 DEF IInv, WInv
<1> QED BY <1>1, <1>2, PTL DEF Spec

\* Closing the window destroys no running QThread of its four pairs.
THEOREM CloseIsSafe == Spec => []CloseNeverKillsThread
<1>1. IInv => CloseNeverKillsThread
  BY DEF IInv, WInv, Pairs, Controls, CloseNeverKillsThread, Alive
<1> QED BY <1>1, WindowInvariant, PTL

\* Cancel and closeEvent reach the job that is running, and no other.
THEOREM CancelIsAimed == Spec => []CancelTargetsTheRunningJob
<1>1. ASSUME IInv PROVE CancelTargetsTheRunningJob
  <2>1. Unhandled("job") <=> Pending("job")
    BY <1>1 DEF IInv, QueueInv, Unhandled, Pending, Queued
  <2> QED BY <1>1, <2>1 DEF IInv, WInv, Controls, CancelTargetsTheRunningJob
<1> QED BY <1>1, WindowInvariant, PTL

\* No import's thread ever exists beside a job's.
THEOREM ImportsWaitForJobs == Spec => []ImportAndRunExclusive
<1>1. IInv => ImportAndRunExclusive
  BY DEF IInv, WInv, Controls, ImportAndRunExclusive
<1> QED BY <1>1, WindowInvariant, PTL

\* What the table offers for viewing is COMPLETED in SQLite.
THEOREM ViewsAreOfCompleted == Spec => []ViewOnlyCompleted
<1>1. IInv => ViewOnlyCompleted
  BY DEF IInv, WInv, Rows, Backed, ViewOnlyCompleted
<1> QED BY <1>1, WindowInvariant, PTL

\* With nothing in flight and no refresh missed, the table shows the rows.
THEOREM TableSettles == Spec => []TableSettled
<1>1. ASSUME IInv, Quiet, ~missed PROVE table = Found(filter)
  <2>1. \A k \in Kinds : phase[k] = "none" /\ ~Queued(k, "result")
    BY <1>1 DEF IInv, WInv, Pairs, Quiet, Queued
  <2>2. ~Pending("job") /\ ~Pending("history")
    BY <2>1, KindsAssumption DEF Pending
  <2> QED BY <1>1, <2>2 DEF IInv, WInv, Settled, Handled
<1>2. IInv => TableSettled
  BY <1>1 DEF TableSettled
<1> QED BY <1>2, WindowInvariant, PTL

-----------------------------------------------------------------------------
(* The types, and how long the queue may become.                           *)

LEMMA KindsAreFour ==
    IsFiniteSet(Kinds) /\ Cardinality(Kinds) \in Nat
<1>1. IsFiniteSet({"job", "import", "history", "log"})
  <2>1. IsFiniteSet({"job"})
    BY FS_Singleton
  <2>2. IsFiniteSet({"job"} \cup {"import"})
    BY <2>1, FS_AddElement
  <2>3. IsFiniteSet({"job"} \cup {"import"} \cup {"history"})
    BY <2>2, FS_AddElement
  <2>4. IsFiniteSet({"job"} \cup {"import"} \cup {"history"} \cup {"log"})
    BY <2>3, FS_AddElement
  <2>5. {"job"} \cup {"import"} \cup {"history"} \cup {"log"}
          = {"job", "import", "history", "log"}
    OBVIOUS
  <2> QED BY <2>4, <2>5
<1>2. IsFiniteSet(Kinds)
  BY <1>1, KindsAssumption, FS_Subset
<1> QED BY <1>2, FS_CardinalityType

\* Each kind of work has two places in the queue: one for its result or, once
\* that and the quit are handled, for its finished, and one for its quit.
Place(signal) == <<signal.kind, IF signal.what = "quit" THEN 2 ELSE 1>>

\* No two queued signals are in the same place, so the queue is never longer
\* than there are places.
LEMMA QueueIsShort ==
    ASSUME IInv
    PROVE  Len(events) <= 2 * Cardinality(Kinds)
<1> DEFINE n      == Len(events)
           places == Kinds \X (1 .. 2)
           f      == [i \in 1 .. n |-> Place(events[i])]
<1>1. /\ n \in Nat
      /\ \A i \in 1 .. n : events[i] \in [kind : Kinds, what : Whats]
  <2> DEFINE signals == [kind : Kinds, what : Whats]
  <2>1. events \in Seq(signals)
    BY DEF IInv, QueueInv
  <2>2. n \in Nat /\ \A i \in 1 .. n : events[i] \in signals
    <3> HIDE DEF signals
    <3> QED BY <2>1
  <2> QED BY <2>2
<1>2. f \in [1 .. n -> places]
  BY <1>1 DEF Place
<1>3. ASSUME NEW i \in 1 .. n, NEW j \in 1 .. n, f[i] = f[j]
      PROVE  i = j
  <2> DEFINE k == events[i].kind
  <2>1. /\ k \in Kinds /\ events[j].kind = k
        /\ events[i].what = "quit" <=> events[j].what = "quit"
        /\ events[i].what \in Whats /\ events[j].what \in Whats
    BY <1>1, <1>3 DEF Place
  <2>2. events[i] = Signal(k, events[i].what) /\ events[j] = Signal(k, events[j].what)
    BY <1>1, <2>1 DEF Signal
  <2>3. events[i].what = events[j].what
    <3>1. Queued(k, events[i].what) /\ Queued(k, events[j].what)
      BY <2>2 DEF Queued
    <3>2. ~(Queued(k, "result") /\ Queued(k, "finished"))
      BY <2>1 DEF IInv, WInv, Pairs
    <3> HIDE DEF k
    <3> QED BY <2>1, <3>1, <3>2 DEF Whats
  <2> QED BY <2>2, <2>3 DEF IInv, QueueInv
<1>4. f \in Injection(1 .. n, places)
  <2> HIDE DEF f, places
  <2> QED BY <1>2, <1>3, Zenon DEF Injection, IsInjective
<1>5. /\ IsFiniteSet(1 .. n) /\ Cardinality(1 .. n) = n
      /\ IsFiniteSet(1 .. 2) /\ Cardinality(1 .. 2) = 2
  <2>1. 1 \in Int /\ 2 \in Int /\ n \in Int
    BY <1>1
  <2>2. /\ IsFiniteSet(1 .. n)
        /\ Cardinality(1 .. n) = IF 1 > n THEN 0 ELSE n - 1 + 1
    BY <2>1, FS_Interval
  <2>3. /\ IsFiniteSet(1 .. 2)
        /\ Cardinality(1 .. 2) = IF 1 > 2 THEN 0 ELSE 2 - 1 + 1
    BY <2>1, FS_Interval
  <2> HIDE DEF n
  <2> QED BY <1>1, <2>2, <2>3
<1>6. IsFiniteSet(places) /\ Cardinality(places) = Cardinality(Kinds) * 2
  BY <1>5, KindsAreFour, FS_Product
<1>7. Cardinality(1 .. n) <= Cardinality(places)
  <2> HIDE DEF f, places
  <2> QED BY <1>4, <1>6, FS_Injection
<1> QED BY <1>5, <1>6, <1>7, KindsAreFour

\* The variables that only the types speak of.
Ranges ==
    /\ filter \in StatusFilters /\ query \in StatusFilters
    /\ current \in Ids \cup {NoId} /\ target \in Ids \cup {NoId}
    /\ resume \in BOOLEAN /\ asked \in BOOLEAN
    /\ viewer \in {"none", "idle", "busy"}
    /\ open \in BOOLEAN /\ missed \in BOOLEAN

LEMMA UserRanges ==
    ASSUME Ranges, UserStep
    PROVE  Ranges'
<1> USE DEF Ranges
<1>1. CASE SelectSegy
  BY <1>1 DEF SelectSegy, jobVars
<1>2. CASE Cancel
  BY <1>2 DEF Cancel, CancelAccepted
<1>3. CASE Close
  BY <1>3 DEF Close, CancelAccepted
<1>4. CASE ViewLog
  BY <1>4 DEF ViewLog, jobVars
<1>5. CASE OpenViewer
  BY <1>5 DEF OpenViewer, jobVars
<1>6. ASSUME NEW j \in Ids, Run(j) \/ Resume(j) PROVE Ranges'
  BY <1>6 DEF Run, Resume, StartJob
<1>7. ASSUME NEW f \in StatusFilters, ChangeFilter(f) PROVE Ranges'
  BY <1>7 DEF ChangeFilter, RefreshHistory, jobVars
<1> QED BY <1>1, <1>2, <1>3, <1>4, <1>5, <1>6, <1>7 DEF UserStep

LEMMA HandlerRanges ==
    ASSUME Ranges, HandleEvent
    PROVE  Ranges'
<1> USE DEF Ranges
<1>1. CASE OnJobResult
  BY <1>1 DEF OnJobResult, Reconcile, RefreshHistory
<1>2. CASE OnHistoryResult
  BY <1>2 DEF OnHistoryResult, jobVars
<1>3. CASE OnImportResult
  BY <1>3 DEF OnImportResult, jobVars
<1>4. ASSUME NEW k \in Kinds, OnQuit(k) \/ OnFinished(k) PROVE Ranges'
  BY <1>4 DEF OnQuit, OnFinished, jobVars
<1> QED BY <1>1, <1>2, <1>3, <1>4 DEF HandleEvent

LEMMA RangesKept ==
    ASSUME Ranges, [Next]_vars
    PROVE  Ranges'
<1>1. CASE ViewerStep
  BY <1>1 DEF Ranges, ViewerStep, jobVars
<1>2. ASSUME NEW k \in Kinds, ThreadStep(k) PROVE Ranges'
  BY <1>2 DEF Ranges, ThreadStep, JobBegins, JobEnds, Answer, Emit, ThreadEnds, jobVars
<1>3. CASE UNCHANGED vars
  BY <1>3 DEF Ranges, vars, jobVars
<1> QED BY <1>1, <1>2, <1>3, UserRanges, HandlerRanges DEF Next

\* Every variable has its type, and the GUI thread's queue holds at most two
\* signals of each kind of work: no worker signals twice, and none is started
\* before its predecessor's last signal is handled.
THEOREM WindowTypeCorrect == Spec => []TypeOK
<1>1. Init => Ranges
  BY FiltersAssumption DEF Init, Ranges
<1>2. Ranges /\ [Next]_vars => Ranges'
  BY RangesKept
<1>3. IInv /\ Ranges => TypeOK
  <2> SUFFICES ASSUME IInv, Ranges PROVE TypeOK
    OBVIOUS
  <2>1. events \in Seq([kind : Kinds, what : {"result", "quit", "finished"}])
    BY DEF IInv, QueueInv, Whats
  <2>2. DOMAIN result = Kinds
    BY DEF IInv, WInv, Shapes
  <2> QED BY <2>1, <2>2, QueueIsShort DEF IInv, WInv, Shapes, Ranges, TypeOK
<1> QED BY <1>1, <1>2, <1>3, WindowInvariant, PTL DEF Spec
=============================================================================
