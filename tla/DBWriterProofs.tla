--------------------------- MODULE DBWriterProofs ---------------------------
(***************************************************************************)
(* Theorems about DBWriter, for any number of tables, cap and batch size.  *)
(*                                                                         *)
(* None of them is inductive.  CountersBalance: a COPY that succeeds takes *)
(* as many rows off the queue as it wrote, which is right only while the   *)
(* queue has that many.  It does, since an overflow during the COPY        *)
(* replaces the row it gives up.  NoSilentLoss: RowInv says which rows are *)
(* queued, which are in the batch of an unfinished COPY and which of those *)
(* that are missing were counted.  AnnouncementsAreSpaced: the interval is *)
(* claimed when the POST is sent, before the task waits for it.            *)
(***************************************************************************)
EXTENDS Delivery, FiniteSetTheorems, TLAPS

-----------------------------------------------------------------------------
(* Facts about queues *)

\* What a put and a flush leave of a queue, and what a flush takes.
LEMMA QueueFacts ==
    ASSUME NEW q \in Seq(Nat), NEW row \in Nat
    PROVE  /\ Append(q, row) \in Seq(Nat) /\ Len(Append(q, row)) = Len(q) + 1
           /\ q # <<>> => /\ Append(Tail(q), row) \in Seq(Nat)
                          /\ Len(Append(Tail(q), row)) = Len(q)
OBVIOUS

\* The batch _flush copies out of a queue and what popleft leaves of it.
LEMMA SliceFacts ==
    ASSUME NEW q \in Seq(Nat), NEW n \in 0..Len(q)
    PROVE  /\ Front(q, n) \in Seq(Nat) /\ Len(Front(q, n)) = n
           /\ Rest(q, n) \in Seq(Nat) /\ Len(Rest(q, n)) = Len(q) - n
BY DEF Rest, Front

\* What a COPY may leave in the table are rows.
LEMMA CopyType ==
    ASSUME TypeOK, cursor \in Tables
    PROVE  /\ CopyDedup(stored[cursor], in_flight) \in SUBSET Nat
           /\ CopyOutcome \subseteq SUBSET Nat
<1>1. stored[cursor] \in SUBSET Nat
    BY DEF TypeOK
<1>2. RowsOf(in_flight) \in SUBSET Nat
    BY DEF TypeOK, RowsOf
<1>3. CopyDedup(stored[cursor], in_flight) \in SUBSET Nat
    BY <1>1, <1>2 DEF CopyDedup
<1> QED
    BY <1>1, <1>3 DEF CopyOutcome

-----------------------------------------------------------------------------
(* The invariant *)

\* The invariant holds of a new writer.
LEMMA InitWInv == Init => WInv
<1> SUFFICES ASSUME Init PROVE WInv
    OBVIOUS
<1>1. NTables \in Nat /\ MaxQueue \in Nat
    BY WriterAssumption
<1> QED
    BY <1>1 DEF Init, WInv, TypeOK, Bounded, CountersBalance, BatchIsQueued, Tables

\* A step that leaves the queues and the counters alone.
LEMMA CountsUntouched ==
    ASSUME WInv, UNCHANGED <<offered, queues, dropped, written>>
    PROVE  Bounded' /\ CountersBalance'
BY DEF WInv, Bounded, CountersBalance

\* A put keeps the queue within its cap and the counters balanced.
LEMMA PutKeeps ==
    ASSUME WInv, NEW t \in Tables, Put(t)
    PROVE  WInv'
<1> DEFINE q == queues[t]
           row == offered[t] + 1
<1>1. MaxQueue \in Nat \ {0}
    BY WriterAssumption
<1>2. q \in Seq(Nat) /\ row \in Nat /\ dropped[t] \in Nat /\ written[t] \in Nat
      /\ offered[t] \in Nat
    BY DEF WInv, TypeOK
<1>3. Len(q) <= MaxQueue /\ offered[t] = written[t] + dropped[t] + Len(q)
    BY DEF WInv, Bounded, CountersBalance
<1> DEFINE kept == IF Full(q) THEN Tail(q) ELSE q
           lost == IF Full(q) THEN 1 ELSE 0
           new == Append(kept, row)
<1>4. /\ new \in Seq(Nat) /\ Len(new) = Len(q) + 1 - lost /\ Len(new) <= MaxQueue
      /\ lost \in {0, 1}
    <2>1. CASE Full(q)
        <3>1. q # <<>>
            BY <1>1, <1>2, <2>1 DEF Full
        <3>2. Append(Tail(q), row) \in Seq(Nat) /\ Len(Append(Tail(q), row)) = Len(q)
            BY <1>2, <3>1, QueueFacts
        <3> QED
            BY <1>2, <1>3, <2>1, <3>2 DEF Full
    <2>2. CASE ~Full(q)
        <3>1. Append(q, row) \in Seq(Nat) /\ Len(Append(q, row)) = Len(q) + 1
            BY <1>2, QueueFacts
        <3> QED
            BY <1>1, <1>2, <2>2, <3>1 DEF Full
    <2> QED
        BY <2>1, <2>2
<1>5. /\ offered' = [offered EXCEPT ![t] = row]
      /\ queues' = [queues EXCEPT ![t] = new]
      /\ dropped' = [dropped EXCEPT ![t] = @ + lost]
      /\ UNCHANGED <<written, stored, flusher, notices, stopper>>
    <2>1. dropped' = [dropped EXCEPT ![t] = IF Full(q) THEN @ + 1 ELSE @]
        BY DEF Put
    <2>2. dropped' = [dropped EXCEPT ![t] = @ + lost]
        <3>1. dropped[t] + 0 = dropped[t]
            BY <1>2
        <3>2. CASE Full(q)
            BY <2>1, <3>2
        <3>3. CASE ~Full(q)
            BY <2>1, <3>1, <3>3
        <3> QED
            BY <3>2, <3>3
    <2> QED
        BY <2>2 DEF Put
<1> HIDE DEF new, lost, kept, q, row
<1>6. TypeOK'
    <2>1. offered' \in [Tables -> Nat]
        BY <1>2, <1>5 DEF WInv, TypeOK
    <2>2. queues' \in [Tables -> Seq(Nat)]
        BY <1>4, <1>5 DEF WInv, TypeOK
    <2>3. lost \in Nat /\ dropped[t] + lost \in Nat
        BY <1>2, <1>4
    <2>4. dropped' \in [Tables -> Nat]
        BY <1>5, <2>3 DEF WInv, TypeOK
    <2>5. /\ written' = written /\ stored' = stored /\ pc' = pc /\ cursor' = cursor
          /\ in_flight' = in_flight /\ landed' = landed /\ notices' = notices
          /\ stopper' = stopper
        BY <1>5 DEF flusher
    <2> QED
        BY <2>1, <2>2, <2>4, <2>5 DEF WInv, TypeOK
<1>7. \A u \in Tables : Len(queues[u]) \in Nat
    BY DEF WInv, TypeOK
<1>8. Bounded'
    BY <1>4, <1>5 DEF WInv, TypeOK, Bounded
<1>9. CountersBalance'
    <2> SUFFICES ASSUME NEW u \in Tables
                 PROVE  offered'[u] = written'[u] + dropped'[u] + Len(queues'[u])
        BY DEF CountersBalance
    <2>1. CASE u = t
        <3>1. /\ offered'[t] = row /\ written'[t] = written[t]
              /\ dropped'[t] = dropped[t] + lost /\ queues'[t] = new
            BY <1>5 DEF WInv, TypeOK
        <3>2. row = offered[t] + 1 /\ Len(q) \in Nat
            BY <1>2 DEF row
        <3>3. row = written[t] + (dropped[t] + lost) + Len(new)
            <4>1. lost \in Nat /\ Len(new) = Len(q) + 1 - lost
                BY <1>4
            <4>2. offered[t] = written[t] + dropped[t] + Len(q)
                BY <1>3
            <4> QED
                BY <1>2, <3>2, <4>1, <4>2
        <3> QED
            BY <2>1, <3>1, <3>3
    <2>2. CASE u # t
        BY <1>5, <2>2 DEF WInv, TypeOK, CountersBalance
    <2> QED
        BY <2>1, <2>2
<1>10. BatchIsQueued'
    <2>1. pc' = pc /\ cursor' = cursor /\ in_flight' = in_flight
        BY <1>5 DEF flusher
    <2>2. \A u \in Tables : Len(queues'[u]) >= Len(queues[u])
        <3>1. Len(new) >= Len(q) /\ Len(q) \in Nat
            BY <1>2, <1>4
        <3> QED
            BY <1>5, <1>7, <3>1 DEF WInv, TypeOK, q
    <2>3. in_flight \in Seq(Nat) /\ \A u \in Tables : queues'[u] \in Seq(Nat)
        BY <1>6 DEF TypeOK, WInv
    <2>4. Len(in_flight) \in Nat /\ \A u \in Tables : Len(queues'[u]) \in Nat
        BY <2>3
    <2> QED
        BY <1>7, <2>1, <2>2, <2>4 DEF WInv, BatchIsQueued
<1> QED
    BY <1>6, <1>8, <1>9, <1>10 DEF WInv

\* The batch taken is a piece of the queue.
LEMMA TakeKeeps ==
    ASSUME WInv, FlushTake
    PROVE  WInv'
<1> DEFINE q == queues[cursor]
           n == Least(Len(q), Batch * BatchesPerPass)
<1>1. cursor \in Tables
    BY WriterAssumption DEF FlushTake, WInv, TypeOK, Tables
<1>2. q \in Seq(Nat) /\ Len(q) \in Nat
    BY <1>1 DEF WInv, TypeOK
<1>3. Batch * BatchesPerPass \in Nat
    BY WriterAssumption
<1>4. n \in 0..Len(q)
    BY <1>2, <1>3 DEF Least
<1>5. in_flight' = Front(q, n)
    BY DEF FlushTake
<1>6. in_flight' \in Seq(Nat) /\ Len(in_flight') = n
    BY <1>2, <1>4, <1>5, SliceFacts
<1>7. TypeOK'
    BY <1>6 DEF FlushTake, WInv, TypeOK
<1>8. BatchIsQueued'
    BY <1>1, <1>2, <1>4, <1>6 DEF FlushTake, BatchIsQueued
<1> QED
    BY <1>7, <1>8, CountsUntouched DEF FlushTake, WInv

\* A COPY that succeeds turns queued rows into written ones.
LEMMA DoneKeeps ==
    ASSUME WInv, CopyDone
    PROVE  WInv'
<1> DEFINE q == queues[cursor]
           n == Len(in_flight)
<1>1. cursor \in Tables /\ n <= Len(q)
    BY DEF CopyDone, WInv, BatchIsQueued
<1>2. q \in Seq(Nat) /\ Len(q) \in Nat /\ n \in Nat /\ written[cursor] \in Nat
    BY <1>1 DEF WInv, TypeOK
<1> HIDE DEF q, n
<1>3. Rest(q, n) \in Seq(Nat) /\ Len(Rest(q, n)) = Len(q) - n
    <2>1. n \in 0..Len(q)
        BY <1>1, <1>2
    <2> QED
        BY <1>2, <2>1, SliceFacts
<1>4. /\ queues' = [queues EXCEPT ![cursor] = Rest(q, n)]
      /\ written' = [written EXCEPT ![cursor] = @ + n]
      /\ landed' = landed + n /\ in_flight' = <<>>
      /\ cursor' = cursor + 1 /\ pc' = "flush"
      /\ UNCHANGED <<offered, dropped, notices, stopper>>
    BY DEF CopyDone, q, n
<1>5. stored' \in [Tables -> SUBSET Nat]
    BY <1>1, CopyType DEF CopyDone, WInv, TypeOK
<1>6. cursor' \in 1..NTables + 1
    BY <1>1, <1>4, WriterAssumption DEF Tables
<1>7. TypeOK'
    <2>1. written[cursor] + n \in Nat /\ landed + n \in Nat
        BY <1>2 DEF WInv, TypeOK
    <2>2. written' \in [Tables -> Nat] /\ queues' \in [Tables -> Seq(Nat)]
        BY <1>3, <1>4, <2>1 DEF WInv, TypeOK
    <2> QED
        BY <1>4, <1>5, <1>6, <2>1, <2>2 DEF WInv, TypeOK
<1>8. \A u \in Tables : /\ Len(queues[u]) \in Nat /\ offered[u] \in Nat
                        /\ written[u] \in Nat /\ dropped[u] \in Nat
    BY DEF WInv, TypeOK
<1>9. Bounded'
    BY <1>1, <1>2, <1>3, <1>4, <1>8, WriterAssumption DEF WInv, TypeOK, Bounded, q
<1>10. CountersBalance'
    <2> SUFFICES ASSUME NEW u \in Tables
                 PROVE  offered'[u] = written'[u] + dropped'[u] + Len(queues'[u])
        BY DEF CountersBalance
    <2>1. CASE u = cursor
        <3>1. /\ offered'[cursor] = offered[cursor] /\ written'[cursor] = written[cursor] + n
              /\ dropped'[cursor] = dropped[cursor] /\ queues'[cursor] = Rest(q, n)
            BY <1>1, <1>4 DEF WInv, TypeOK
        <3>2. offered[cursor] = written[cursor] + dropped[cursor] + Len(q)
            BY <1>1 DEF WInv, CountersBalance, q
        <3>3. offered[cursor] = (written[cursor] + n) + dropped[cursor] + Len(Rest(q, n))
            BY <1>1, <1>2, <1>3, <1>8, <3>2
        <3> QED
            BY <2>1, <3>1, <3>3
    <2>2. CASE u # cursor
        BY <1>4, <2>2 DEF WInv, TypeOK, CountersBalance
    <2> QED
        BY <2>1, <2>2
<1>11. BatchIsQueued'
    BY <1>4 DEF BatchIsQueued
<1> QED
    BY <1>7, <1>9, <1>10, <1>11 DEF WInv

\* Every put, every step of a flush and every step of stop() keeps the invariant.
LEMMA NextWInv == WInv /\ [Next]_vars => WInv'
<1> SUFFICES ASSUME WInv, [Next]_vars PROVE WInv'
    OBVIOUS
<1>1. NTables \in Nat /\ \A t \in Tables : t \in 1..NTables
    BY WriterAssumption DEF Tables
<1>2. ASSUME UNCHANGED <<offered, queues, dropped, written>>, TypeOK', BatchIsQueued'
      PROVE  WInv'
    BY <1>2, CountsUntouched DEF WInv
<1>3. ASSUME NEW t \in Tables, Put(t) PROVE WInv'
    BY <1>3, PutKeeps
<1>4. CASE FlushEmpty
    <2>1. cursor' \in 1..NTables + 1
        BY <1>1, <1>4 DEF FlushEmpty, WInv, TypeOK
    <2>2. TypeOK' /\ BatchIsQueued'
        BY <1>4, <2>1 DEF FlushEmpty, WInv, TypeOK, BatchIsQueued
    <2> QED
        BY <1>2, <1>4, <2>2 DEF FlushEmpty
<1>5. CASE FlushTake
    BY <1>5, TakeKeeps
<1>6. CASE CopyDone
    BY <1>6, DoneKeeps
<1>7. CASE CopyFailed
    <2>1. cursor \in Tables /\ CopyOutcome \subseteq SUBSET Nat
        BY <1>7, CopyType DEF CopyFailed, WInv, BatchIsQueued
    <2>2. stored' \in [Tables -> SUBSET Nat]
        BY <1>7, <2>1 DEF CopyFailed, WInv, TypeOK
    <2>3. TypeOK' /\ BatchIsQueued'
        BY <1>7, <2>1, <2>2 DEF CopyFailed, WInv, TypeOK, BatchIsQueued
    <2> QED
        BY <1>2, <1>7, <2>3 DEF CopyFailed
<1>8. CASE BackoffOver
    <2>1. cursor' \in 1..NTables + 1
        BY <1>1, <1>8 DEF BackoffOver, WInv, BatchIsQueued
    <2>2. TypeOK' /\ BatchIsQueued'
        BY <1>8, <2>1 DEF BackoffOver, WInv, TypeOK, BatchIsQueued
    <2> QED
        BY <1>2, <1>8, <2>2 DEF BackoffOver
<1>9. CASE PassEnds
    <2>1. /\ UNCHANGED <<offered, queues, dropped, written, stored, in_flight>>
          /\ notices' \in {notices, notices + 1} /\ stopper' \in {stopper, "done"}
          /\ pc' \in {"ended", "sleep", "flush"}
          /\ cursor' \in {cursor, 1} /\ landed' \in {landed, 0}
        BY <1>9 DEF PassEnds, LoopTop, BeginPass
    <2>2. TypeOK' /\ BatchIsQueued'
        BY <1>1, <2>1 DEF WInv, TypeOK, BatchIsQueued
    <2> QED
        BY <1>2, <2>1, <2>2
<1>10. CASE WakeUp
    <2>1. /\ UNCHANGED <<offered, queues, dropped, written, stored, in_flight, notices, stopper>>
          /\ pc' \in {"ended", "flush"} /\ cursor' \in {cursor, 1} /\ landed' \in {landed, 0}
        BY <1>10 DEF WakeUp, LoopTop, BeginPass
    <2>2. TypeOK' /\ BatchIsQueued'
        BY <1>1, <2>1 DEF WInv, TypeOK, BatchIsQueued
    <2> QED
        BY <1>2, <2>1, <2>2
<1>11. CASE NoticeEnds
    <2>1. TypeOK' /\ BatchIsQueued'
        BY <1>11 DEF NoticeEnds, WInv, TypeOK, BatchIsQueued, flusher
    <2> QED
        BY <1>2, <1>11, <2>1 DEF NoticeEnds
<1>12. CASE Stop
    <2>1. TypeOK' /\ BatchIsQueued'
        BY <1>12 DEF Stop, WInv, TypeOK, BatchIsQueued, flusher
    <2> QED
        BY <1>2, <1>12, <2>1 DEF Stop
<1>13. CASE TaskEnded
    <2>1. TypeOK' /\ BatchIsQueued'
        BY <1>1, <1>13 DEF TaskEnded, BeginPass, WInv, TypeOK, BatchIsQueued
    <2> QED
        BY <1>2, <1>13, <2>1 DEF TaskEnded
<1>14. CASE TaskCancelled
    <2>1. stored' \in [Tables -> SUBSET Nat]
        <3>1. CASE UNCHANGED stored
            BY <3>1 DEF WInv, TypeOK
        <3>2. CASE /\ pc = "copy"
                   /\ \E table \in CopyOutcome : stored' = [stored EXCEPT ![cursor] = table]
            BY <3>2, CopyType DEF WInv, TypeOK, BatchIsQueued
        <3> QED
            BY <1>14, <3>1, <3>2 DEF TaskCancelled
    <2>2. TypeOK' /\ BatchIsQueued'
        BY <1>1, <1>14, <2>1 DEF TaskCancelled, BeginPass, WInv, TypeOK, BatchIsQueued
    <2> QED
        BY <1>2, <1>14, <2>2 DEF TaskCancelled
<1>15. CASE Stopped \/ UNCHANGED vars
    <2>1. UNCHANGED vars
        BY <1>15 DEF Stopped
    <2> QED
        BY <2>1 DEF vars, flusher, WInv, TypeOK, Bounded, CountersBalance, BatchIsQueued
<1> QED
    BY <1>3, <1>4, <1>5, <1>6, <1>7, <1>8, <1>9, <1>10, <1>11, <1>12, <1>13, <1>14, <1>15
    DEF Next, TaskStep, CopyStep

-----------------------------------------------------------------------------
(* What a loss is *)

\* The rows that left t's queue, and the row before the batch under way.
Gone(t) == offered[t] - Len(queues[t])
Base == in_flight[1] - 1

\* The rows of t the flusher is through with: those of a batch under way left
\* the queue only if an overflow pushed them out.
Through(t) == IF pc = "copy" /\ cursor = t THEN Base ELSE Gone(t)

Missing(n, rows) == Cardinality(1..n \ rows)

\* A deque holds the latest rows, in the order they came.
QueuesAreRuns == \A t \in Tables : \A i \in 1..Len(queues[t]) : queues[t][i] = Gone(t) + i

\* So does the batch, and it starts no later than its queue.
BatchIsARun ==
    pc = "copy" =>
        /\ in_flight # <<>> /\ Base \in Nat /\ Base <= Gone(cursor)
        /\ \A i \in 1..Len(in_flight) : in_flight[i] = Base + i

\* Each row the flusher is through with is stored or was dropped, and each row
\* that was pushed out under a COPY was dropped, stored or not.
MissingIsDropped ==
    \A t \in Tables : Missing(Through(t), stored[t]) + (Gone(t) - Through(t)) <= dropped[t]

RowInv == QueuesAreRuns /\ BatchIsARun /\ MissingIsDropped /\ StoredIsAPrefix

\* The missing rows of a table can be counted, and are none when all are there.
LEMMA MissingFacts ==
    ASSUME NEW n \in Nat, NEW S
    PROVE  /\ IsFiniteSet(1..n \ S) /\ Missing(n, S) \in Nat
           /\ Missing(n, S) <= 0 => 1..n \subseteq S
<1>1. IsFiniteSet(1..n)
    BY FS_Interval
<1>2. IsFiniteSet(1..n \ S)
    BY <1>1, FS_Subset
<1>3. Missing(n, S) \in Nat
    BY <1>2, FS_CardinalityType DEF Missing
<1>4. ASSUME Missing(n, S) <= 0 PROVE 1..n \ S = {}
    <2>1. Cardinality(1..n \ S) = 0
        BY <1>3, <1>4 DEF Missing
    <2> QED
        BY <1>2, <2>1, FS_EmptySet
<1> QED
    BY <1>2, <1>3, <1>4

\* A set of rows within another is missing no more.
LEMMA MissingWithin ==
    ASSUME NEW n \in Nat, NEW m \in Nat, NEW S, NEW T, 1..m \ T \subseteq 1..n \ S
    PROVE  Missing(m, T) <= Missing(n, S)
BY MissingFacts, FS_Subset DEF Missing

\* Going k rows further misses at most k more.
LEMMA MissingFurther ==
    ASSUME NEW n \in Nat, NEW k \in Nat, NEW S
    PROVE  Missing(n + k, S) <= Missing(n, S) + k
<1> DEFINE A == 1..n \ S
           B == n + 1..n + k
<1>1. IsFiniteSet(A) /\ Cardinality(A) = Missing(n, S)
    BY MissingFacts DEF Missing
<1>2. IsFiniteSet(B) /\ Cardinality(B) = k
    <2>1. n + 1 \in Int /\ n + k \in Int
        OBVIOUS
    <2>2. IsFiniteSet(B) /\ Cardinality(B) = IF n + 1 > n + k THEN 0 ELSE n + k - (n + 1) + 1
        BY <2>1, FS_Interval
    <2> QED
        BY <2>2
<1>3. IsFiniteSet(A \cup B) /\ Cardinality(A \cup B) <= Cardinality(A) + Cardinality(B)
    <2>1. IsFiniteSet(A \cap B)
        BY <1>1, FS_Subset
    <2>2. Cardinality(A \cap B) \in Nat /\ Cardinality(A) \in Nat /\ Cardinality(B) \in Nat
        BY <1>1, <1>2, <2>1, FS_CardinalityType
    <2>3. /\ IsFiniteSet(A \cup B)
          /\ Cardinality(A \cup B) = Cardinality(A) + Cardinality(B) - Cardinality(A \cap B)
        BY <1>1, <1>2, FS_Union
    <2> HIDE DEF A, B
    <2> QED
        BY <2>2, <2>3
<1>4. 1..(n + k) \ S \subseteq A \cup B
    OBVIOUS
<1>5. Cardinality(1..(n + k) \ S) <= Cardinality(A \cup B)
    BY <1>3, <1>4, FS_Subset
<1>6. Cardinality(1..(n + k) \ S) \in Nat /\ Cardinality(A \cup B) \in Nat
    BY <1>3, <1>4, FS_Subset, FS_CardinalityType
<1>7. Missing(n, S) \in Nat /\ Missing(n + k, S) = Cardinality(1..(n + k) \ S)
    BY MissingFacts DEF Missing
<1> HIDE DEF A, B
<1> QED
    BY <1>1, <1>2, <1>3, <1>5, <1>6, <1>7

\* A stored batch b+1..b+n fills the hole it left.
LEMMA MissingAfterBatch ==
    ASSUME NEW b \in Nat, NEW n \in Nat, NEW S, NEW T, S \cup (b + 1..b + n) \subseteq T
    PROVE  Missing(b + n, T) <= Missing(b, S)
<1>1. 1..(b + n) \ T \subseteq 1..b \ S
    OBVIOUS
<1> QED
    BY <1>1, MissingWithin

-----------------------------------------------------------------------------
(* No loss goes uncounted *)

\* What the state is made of.
LEMMA Counted ==
    ASSUME WInv, NEW t \in Tables
    PROVE  /\ offered[t] \in Nat /\ queues[t] \in Seq(Nat) /\ Len(queues[t]) \in Nat
           /\ dropped[t] \in Nat /\ written[t] \in Nat /\ stored[t] \in SUBSET Nat
           /\ Gone(t) = written[t] + dropped[t] /\ Gone(t) \in Nat
<1>1. /\ offered[t] \in Nat /\ queues[t] \in Seq(Nat) /\ dropped[t] \in Nat
      /\ written[t] \in Nat /\ stored[t] \in SUBSET Nat
    BY DEF WInv, TypeOK
<1>2. Len(queues[t]) \in Nat
    BY <1>1
<1>3. offered[t] = written[t] + dropped[t] + Len(queues[t])
    BY DEF WInv, CountersBalance
<1> QED
    BY <1>1, <1>2, <1>3 DEF Gone

\* The rows through are rows that left the queue.
LEMMA ThroughType ==
    ASSUME WInv, BatchIsARun, NEW t \in Tables
    PROVE  Through(t) \in Nat /\ Through(t) <= Gone(t)
BY Counted DEF BatchIsARun, Through

\* An answered or lost COPY: its table may hold the batch, and the flusher is
\* through with what left the queue.
LEMMA HeldInv ==
    ASSUME WInv, RowInv, pc = "copy", cursor \in Tables,
           NEW T, T = stored[cursor] \/ T = CopyDedup(stored[cursor], in_flight)
    PROVE  /\ Missing(Gone(cursor), T) <= dropped[cursor]
           /\ dropped[cursor] = 0 => \A row \in T : 1..row \subseteq T
<1> DEFINE S == stored[cursor]
           n == Len(in_flight)
<1>1. /\ Base \in Nat /\ Base <= Gone(cursor) /\ Gone(cursor) \in Nat
      /\ dropped[cursor] \in Nat /\ n \in Nat /\ S \in SUBSET Nat /\ T \in SUBSET Nat
    <2>1. n \in Nat
        BY DEF WInv, TypeOK
    <2>2. /\ Gone(cursor) \in Nat /\ dropped[cursor] \in Nat /\ S \in SUBSET Nat
        BY Counted
    <2>3. T \in SUBSET Nat
        BY <2>2, CopyType DEF WInv
    <2> QED
        BY <2>1, <2>2, <2>3 DEF RowInv, BatchIsARun
<1>2. Missing(Base, S) + (Gone(cursor) - Base) <= dropped[cursor]
    BY DEF RowInv, MissingIsDropped, Through
<1>3. Missing(Base, S) \in Nat /\ Missing(Base, T) \in Nat /\ Missing(Gone(cursor), T) \in Nat
    BY <1>1, MissingFacts
<1>4. S \subseteq T
    BY DEF CopyDedup
<1> HIDE DEF S, n
<1>5. Missing(Base, T) <= Missing(Base, S)
    <2>1. 1..Base \ T \subseteq 1..Base \ S
        BY <1>4
    <2> QED
        BY <1>1, <2>1, MissingWithin
<1>6. Missing(Gone(cursor), T) <= Missing(Base, T) + (Gone(cursor) - Base)
    <2> DEFINE k == Gone(cursor) - Base
    <2>1. k \in Nat /\ Base + k = Gone(cursor)
        BY <1>1
    <2>2. Missing(Base + k, T) <= Missing(Base, T) + k
        BY <1>1, <2>1, MissingFurther
    <2> QED
        BY <2>1, <2>2
<1>7. Missing(Gone(cursor), T) <= dropped[cursor]
    BY <1>1, <1>2, <1>3, <1>5, <1>6
<1>8. ASSUME dropped[cursor] = 0 PROVE \A row \in T : 1..row \subseteq T
    <2>1. Missing(Base, S) <= 0
        BY <1>1, <1>2, <1>3, <1>8
    <2>2. 1..Base \subseteq S
        BY <1>1, <2>1, MissingFacts
    <2>3. \A row \in S : 1..row \subseteq S
        BY <1>8 DEF RowInv, StoredIsAPrefix, S
    <2>4. RowsOf(in_flight) = Base + 1..Base + n
        <3>1. \A i \in 1..n : in_flight[i] = Base + i
            BY DEF RowInv, BatchIsARun, n
        <3>2. DOMAIN in_flight = 1..n
            BY DEF WInv, TypeOK, n
        <3>3. \A row \in Base + 1..Base + n : row - Base \in 1..n /\ row = Base + (row - Base)
            BY <1>1
        <3>4. \A i \in 1..n : Base + i \in Base + 1..Base + n
            BY <1>1
        <3> QED
            BY <3>1, <3>2, <3>3, <3>4 DEF RowsOf
    <2>5. CASE T = S
        BY <2>3, <2>5
    <2>6. CASE T = S \cup (Base + 1..Base + n)
        <3> SUFFICES ASSUME NEW row \in T, NEW i \in 1..row PROVE i \in T
            OBVIOUS
        <3>1. CASE row \in S
            BY <1>4, <2>3, <3>1
        <3>2. CASE row \in Base + 1..Base + n
            BY <1>1, <2>2, <2>6, <3>2
        <3> QED
            BY <2>6, <3>1, <3>2
    <2> QED
        BY <2>4, <2>5, <2>6 DEF CopyDedup, S
<1> QED
    BY <1>7, <1>8

\* A step that neither hands over rows nor ends or starts a COPY.
LEMMA RowsUntouched ==
    ASSUME RowInv, UNCHANGED <<offered, queues, dropped, stored>>,
           \/ UNCHANGED <<pc, cursor, in_flight>>
           \/ pc # "copy" /\ pc' # "copy"
    PROVE  RowInv'
<1>1. \A t \in Tables : Gone(t)' = Gone(t) /\ Through(t)' = Through(t)
    BY DEF Gone, Through, Base
<1>2. QueuesAreRuns' /\ StoredIsAPrefix'
    BY <1>1 DEF RowInv, QueuesAreRuns, StoredIsAPrefix
<1>3. BatchIsARun'
    BY DEF RowInv, BatchIsARun, Base, Gone
<1>4. MissingIsDropped'
    BY <1>1 DEF RowInv, MissingIsDropped, Missing
<1> QED
    BY <1>2, <1>3, <1>4 DEF RowInv

\* The row an overflow gives up is counted, under a COPY or not.
LEMMA PutKeepsRows ==
    ASSUME WInv, RowInv, NEW t \in Tables, Put(t)
    PROVE  RowInv'
<1> DEFINE q == queues[t]
           lost == IF Full(q) THEN 1 ELSE 0
<1>1. /\ q \in Seq(Nat) /\ Len(q) \in Nat /\ offered[t] \in Nat /\ dropped[t] \in Nat
      /\ stored[t] \in SUBSET Nat /\ Gone(t) \in Nat
    BY Counted
<1>2. Full(q) => q # <<>>
    BY <1>1, WriterAssumption DEF Full
<1>3. offered'[t] = offered[t] + 1 /\ dropped'[t] = dropped[t] + lost
    <2>1. Full(q) => dropped'[t] = dropped[t] + 1
        BY DEF Put, WInv, TypeOK
    <2>2. ~Full(q) => dropped'[t] = dropped[t]
        BY DEF Put, WInv, TypeOK
    <2> QED
        BY <1>1, <2>1, <2>2 DEF Put, WInv, TypeOK
<1>4. /\ Len(queues'[t]) = Len(q) + 1 - lost
      /\ \A i \in 1..Len(queues'[t]) :
            queues'[t][i] = IF i = Len(q) + 1 - lost THEN offered[t] + 1 ELSE q[i + lost]
    <2>1. CASE Full(q)
        <3>1. queues'[t] = Append(Tail(q), offered[t] + 1)
            BY <2>1 DEF Put, WInv, TypeOK
        <3>2. Tail(q) \in Seq(Nat) /\ Len(Tail(q)) = Len(q) - 1
              /\ \A i \in 1..Len(q) - 1 : Tail(q)[i] = q[i + 1]
            BY <1>1, <1>2, <2>1
        <3> QED
            BY <1>1, <2>1, <3>1, <3>2
    <2>2. CASE ~Full(q)
        <3>1. queues'[t] = Append(q, offered[t] + 1)
            BY <2>2 DEF Put, WInv, TypeOK
        <3> QED
            BY <1>1, <2>2, <3>1
    <2> QED
        BY <2>1, <2>2
<1>5. lost \in {0, 1}
    OBVIOUS
<1>6. \A i \in 1..Len(q) : q[i] = Gone(t) + i
    BY DEF RowInv, QueuesAreRuns
<1>7. UNCHANGED <<stored, pc, cursor, in_flight>>
    BY DEF Put, flusher
<1>8. \A u \in Tables : u # t => /\ offered'[u] = offered[u] /\ queues'[u] = queues[u]
                                 /\ dropped'[u] = dropped[u]
    BY DEF Put, WInv, TypeOK
<1> HIDE DEF lost, q
<1>9. /\ Gone(t)' = Gone(t) + lost
      /\ \A u \in Tables : u # t => Gone(u)' = Gone(u)
    <2>1. Gone(t) = offered[t] - Len(q)
        BY DEF Gone, q
    <2>2. offered'[t] - Len(queues'[t]) = offered[t] - Len(q) + lost
        <3>1. offered'[t] = offered[t] + 1 /\ Len(queues'[t]) = Len(q) + 1 - lost
            BY <1>3, <1>4
        <3> QED
            BY <1>1, <1>5, <3>1
    <2>3. Gone(t)' = Gone(t) + lost
        BY <2>1, <2>2 DEF Gone
    <2> QED
        BY <1>8, <2>3 DEF Gone
<1>10. QueuesAreRuns'
    <2>1. \A i \in 1..Len(queues'[t]) : queues'[t][i] = Gone(t)' + i
        <3>1. Gone(t) = offered[t] - Len(q)
            BY DEF Gone, q
        <3>2. TAKE i \in 1..Len(queues'[t])
        <3>3. /\ Len(queues'[t]) = Len(q) + 1 - lost /\ i \in Nat
              /\ queues'[t][i] = IF i = Len(q) + 1 - lost THEN offered[t] + 1 ELSE q[i + lost]
            BY <1>4
        <3>4. CASE i = Len(q) + 1 - lost
            <4>1. queues'[t][i] = offered[t] + 1
                BY <3>3, <3>4
            <4>2. Gone(t)' + i = offered[t] - Len(q) + lost + (Len(q) + 1 - lost)
                BY <1>9, <3>1, <3>4
            <4> QED
                BY <1>1, <1>5, <4>1, <4>2
        <3>5. CASE i # Len(q) + 1 - lost
            <4>1. i + lost \in 1..Len(q)
                BY <1>1, <1>5, <3>3, <3>5
            <4>2. q[i + lost] = Gone(t) + (i + lost)
                BY <1>6, <4>1
            <4> QED
                BY <1>1, <1>5, <1>9, <3>3, <3>5, <4>2
        <3> QED
            BY <3>4, <3>5
    <2> QED
        BY <1>8, <1>9, <2>1 DEF RowInv, QueuesAreRuns
<1>11. BatchIsARun'
    <2>1. Base' = Base
        BY <1>7 DEF Base
    <2>2. ASSUME pc = "copy" PROVE cursor \in Tables /\ Gone(cursor)' >= Gone(cursor)
        <3>1. cursor \in Tables
            BY <2>2 DEF WInv, BatchIsQueued
        <3>2. Gone(cursor) \in Nat
            BY <3>1, Counted
        <3>3. CASE cursor = t
            BY <1>1, <1>5, <1>7, <1>9, <3>1, <3>3
        <3>4. CASE cursor # t
            BY <1>7, <1>9, <3>1, <3>2, <3>4
        <3> QED
            BY <3>1, <3>3, <3>4
    <2>3. ASSUME pc = "copy" PROVE Gone(cursor)' \in Int /\ Gone(cursor) \in Nat
        <3>1. Gone(cursor) \in Nat
            BY <2>2, <2>3, Counted
        <3> QED
            BY <1>1, <1>5, <1>7, <1>8, <1>9, <2>2, <2>3, <3>1
    <2> QED
        BY <1>7, <2>1, <2>2, <2>3 DEF RowInv, BatchIsARun
<1>12. MissingIsDropped'
    <2> SUFFICES ASSUME NEW u \in Tables
                 PROVE  Missing(Through(u)', stored[u]) + (Gone(u)' - Through(u)') <= dropped'[u]
        BY <1>7 DEF MissingIsDropped, Missing
    <2>1. Missing(Through(u), stored[u]) + (Gone(u) - Through(u)) <= dropped[u]
        BY DEF RowInv, MissingIsDropped
    <2>2. CASE u # t
        <3>1. Through(u)' = Through(u)
            BY <1>7, <1>9, <2>2 DEF Through, Base
        <3> QED
            BY <1>8, <1>9, <2>1, <2>2, <3>1
    <2>3. CASE u = t
        <3>1. /\ Through(t) \in Nat /\ Missing(Through(t), stored[t]) \in Nat
              /\ Missing(Through(t) + lost, stored[t]) \in Nat
              /\ Missing(Through(t) + lost, stored[t]) <= Missing(Through(t), stored[t]) + lost
            <4>1. Through(t) \in Nat /\ lost \in Nat /\ Through(t) + lost \in Nat
                BY <1>5, ThroughType DEF RowInv
            <4> QED
                BY <4>1, MissingFacts, MissingFurther
        <3>2. Through(t)' = Through(t) \/ (Through(t)' = Through(t) + lost
                                           /\ Through(t) = Gone(t))
            BY <1>7, <1>9 DEF Through, Base
        <3> QED
            BY <1>1, <1>3, <1>5, <1>9, <2>1, <2>3, <3>1, <3>2
    <2> QED
        BY <2>2, <2>3
<1>13. StoredIsAPrefix'
    <2>1. \A u \in Tables : dropped'[u] = 0 => dropped[u] = 0
        BY <1>1, <1>3, <1>5, <1>8
    <2> QED
        BY <1>7, <2>1 DEF RowInv, StoredIsAPrefix
<1> QED
    BY <1>10, <1>11, <1>12, <1>13 DEF RowInv

\* The batch starts where the queue does.
LEMMA TakeKeepsRows ==
    ASSUME WInv, RowInv, FlushTake
    PROVE  RowInv'
<1>1. PICK c \in Tables : c = cursor
    BY WriterAssumption DEF FlushTake, WInv, TypeOK, Tables
<1> DEFINE q == queues[c]
           n == Least(Len(q), Batch * BatchesPerPass)
<1>2. q \in Seq(Nat) /\ Len(q) \in Nat /\ Gone(c) \in Nat /\ Len(q) > 0
    BY <1>1, Counted DEF FlushTake
<1>3. n \in 1..Len(q)
    <2>1. Batch * BatchesPerPass \in Nat \ {0}
        BY WriterAssumption
    <2> QED
        BY <1>2, <2>1 DEF Least
<1>4. in_flight' = SubSeq(q, 1, n)
    BY <1>1 DEF FlushTake, Front
<1> HIDE DEF n
<1>5. Len(in_flight') = n /\ \A i \in 1..n : in_flight'[i] = q[i]
    BY <1>2, <1>3, <1>4
<1>6. \A i \in 1..Len(q) : q[i] = Gone(c) + i
    BY DEF RowInv, QueuesAreRuns
<1>7. pc' = "copy" /\ cursor' = c /\ UNCHANGED <<offered, queues, dropped, stored>>
    BY <1>1 DEF FlushTake
<1> HIDE DEF q
<1>8. \A i \in 1..n : in_flight'[i] = Gone(c) + i
    BY <1>2, <1>3, <1>5, <1>6
<1>9. Base' = Gone(c) /\ \A t \in Tables : Gone(t)' = Gone(t)
    <2>1. in_flight'[1] = Gone(c) + 1
        BY <1>2, <1>3, <1>8
    <2> QED
        BY <1>2, <1>7, <2>1 DEF Base, Gone
<1>10. BatchIsARun'
    <2>1. Base' \in Nat /\ Gone(cursor)' = Gone(c)
        BY <1>2, <1>7, <1>9 DEF Gone
    <2>2. Base' <= Gone(cursor)'
        BY <1>2, <1>9, <2>1
    <2>3. in_flight' # <<>>
        <3>1. Len(in_flight') > 0
            BY <1>2, <1>3, <1>5
        <3> QED
            BY <3>1
    <2>4. \A i \in 1..Len(in_flight') : in_flight'[i] = Base' + i
        BY <1>5, <1>8, <1>9
    <2> QED
        BY <1>7, <2>1, <2>2, <2>3, <2>4 DEF BatchIsARun
<1>11. \A t \in Tables : Through(t)' = Through(t)
    <2>1. pc # "copy"
        BY DEF FlushTake
    <2> QED
        BY <1>1, <1>7, <1>9, <2>1 DEF Through
<1>12. MissingIsDropped'
    BY <1>7, <1>9, <1>11 DEF RowInv, MissingIsDropped, Missing
<1>13. QueuesAreRuns' /\ StoredIsAPrefix'
    BY <1>7, <1>9 DEF RowInv, QueuesAreRuns, StoredIsAPrefix
<1> QED
    BY <1>10, <1>12, <1>13 DEF RowInv

\* popleft removes as many rows as were stored: those an overflow pushed out
\* under the COPY stay counted.
LEMMA DoneKeepsRows ==
    ASSUME WInv, RowInv, CopyDone
    PROVE  RowInv'
<1>0. PICK c \in Tables : c = cursor
    BY DEF CopyDone, WInv, BatchIsQueued
<1> DEFINE q == queues[c]
           n == Len(in_flight)
           T == CopyDedup(stored[c], in_flight)
<1>1. n <= Len(q) /\ pc = "copy"
    BY <1>0 DEF CopyDone, WInv, BatchIsQueued
<1>2. /\ q \in Seq(Nat) /\ Len(q) \in Nat /\ n \in Nat /\ Gone(c) \in Nat
      /\ dropped[c] \in Nat /\ offered[c] \in Nat /\ stored[c] \in SUBSET Nat
    BY <1>1, Counted DEF WInv, TypeOK
<1>3. /\ queues' = [queues EXCEPT ![c] = Rest(q, n)]
      /\ stored' = [stored EXCEPT ![c] = T]
      /\ pc' = "flush" /\ UNCHANGED <<offered, dropped>>
    BY <1>0 DEF CopyDone
<1>4. /\ queues'[c] = Rest(q, n) /\ stored'[c] = T
      /\ \A u \in Tables : u # c => queues'[u] = queues[u] /\ stored'[u] = stored[u]
    BY <1>1, <1>3 DEF WInv, TypeOK
<1>5. /\ Missing(Gone(c), T) <= dropped[c]
      /\ dropped[c] = 0 => \A row \in T : 1..row \subseteq T
    BY <1>0, <1>1, HeldInv
<1>6. /\ Base \in Nat /\ Base <= Gone(c) /\ RowsOf(in_flight) = Base + 1..Base + n
    <2>1. \A i \in 1..n : in_flight[i] = Base + i
        BY <1>0, <1>1 DEF RowInv, BatchIsARun
    <2>2. DOMAIN in_flight = 1..n
        BY DEF WInv, TypeOK
    <2>3. Base \in Nat /\ Base <= Gone(c)
        BY <1>0, <1>1 DEF RowInv, BatchIsARun
    <2> HIDE DEF n
    <2>4. \A row \in Base + 1..Base + n : row - Base \in 1..n /\ row = Base + (row - Base)
        BY <1>2, <2>3
    <2>5. \A i \in 1..n : Base + i \in Base + 1..Base + n
        BY <1>2, <2>3
    <2> QED
        BY <2>1, <2>2, <2>3, <2>4, <2>5 DEF RowsOf
<1> HIDE DEF n, q
<1>7. Rest(q, n) \in Seq(Nat) /\ Len(Rest(q, n)) = Len(q) - n
      /\ \A i \in 1..Len(q) - n : Rest(q, n)[i] = q[n + i]
    BY <1>1, <1>2 DEF Rest
<1>8. /\ Gone(c)' = Gone(c) + n
      /\ \A u \in Tables : u # c => Gone(u)' = Gone(u)
    <2>1. Gone(c) = offered[c] - Len(q)
        BY DEF Gone, q
    <2>2. offered'[c] - Len(queues'[c]) = offered[c] - Len(q) + n
        <3>1. offered'[c] = offered[c] /\ Len(queues'[c]) = Len(q) - n
            BY <1>3, <1>4, <1>7
        <3> QED
            BY <1>2, <3>1
    <2>3. Gone(c)' = Gone(c) + n
        BY <2>1, <2>2 DEF Gone
    <2> QED
        BY <1>3, <1>4, <2>3 DEF Gone
<1>9. QueuesAreRuns'
    <2>1. \A i \in 1..Len(q) : q[i] = Gone(c) + i
        BY <1>1 DEF RowInv, QueuesAreRuns, q
    <2>2. \A i \in 1..Len(queues'[c]) : queues'[c][i] = Gone(c)' + i
        <3>1. TAKE i \in 1..Len(queues'[c])
        <3>2. queues'[c] = Rest(q, n) /\ i \in 1..Len(q) - n
            BY <1>4, <1>7
        <3>3. n + i \in 1..Len(q) /\ Rest(q, n)[i] = q[n + i]
            BY <1>1, <1>2, <1>7, <3>2
        <3>4. q[n + i] = Gone(c) + (n + i)
            BY <2>1, <3>3
        <3> QED
            BY <1>2, <1>8, <3>2, <3>3, <3>4
    <2> QED
        BY <1>4, <1>8, <2>2 DEF RowInv, QueuesAreRuns
<1>10. BatchIsARun'
    BY <1>3 DEF BatchIsARun
<1>11. Missing(Gone(c) + n, T) <= dropped[c]
    <2>1. Missing(Base + n, T) <= Missing(Base, stored[c])
        <3>1. stored[c] \cup (Base + 1..Base + n) \subseteq T
            BY <1>6 DEF CopyDedup
        <3> QED
            BY <1>2, <1>6, <3>1, MissingAfterBatch
    <2>2. Missing(Gone(c) + n, T) <= Missing(Base + n, T) + (Gone(c) - Base)
        <3> DEFINE k == Gone(c) - Base
        <3>1. k \in Nat /\ Base + n \in Nat /\ (Base + n) + k = Gone(c) + n
            BY <1>2, <1>6
        <3> HIDE DEF k
        <3>2. Missing((Base + n) + k, T) <= Missing(Base + n, T) + k
            BY <3>1, MissingFurther
        <3> QED
            BY <3>1, <3>2 DEF k
    <2>3. Missing(Base, stored[c]) + (Gone(c) - Base) <= dropped[c]
        BY <1>0, <1>1 DEF RowInv, MissingIsDropped, Through
    <2>4. /\ Base + n \in Nat /\ Gone(c) + n \in Nat
          /\ Missing(Base, stored[c]) \in Nat /\ Missing(Base + n, T) \in Nat
          /\ Missing(Gone(c) + n, T) \in Nat
        <3>1. Base + n \in Nat /\ Gone(c) + n \in Nat
            BY <1>2, <1>6
        <3> QED
            BY <1>6, <3>1, MissingFacts
    <2> QED
        BY <1>2, <1>6, <2>1, <2>2, <2>3, <2>4
<1>12. MissingIsDropped'
    <2> SUFFICES ASSUME NEW u \in Tables
                 PROVE  Missing(Through(u)', stored'[u]) + (Gone(u)' - Through(u)') <= dropped'[u]
        BY DEF MissingIsDropped, Missing
    <2>1. Through(u)' = Gone(u)'
        BY <1>3 DEF Through
    <2>2. CASE u = c
        <3>1. Gone(c) + n \in Nat
            BY <1>2
        <3>3. Missing(Gone(c) + n, T) \in Nat
            BY <3>1, MissingFacts
        <3>2. Gone(u)' = Gone(c) + n /\ stored'[u] = T /\ dropped'[u] = dropped[c]
            BY <1>3, <1>4, <1>8, <2>2
        <3> QED
            BY <1>2, <1>11, <2>1, <3>1, <3>2, <3>3
    <2>3. CASE u # c
        <3>1. Through(u)' = Through(u) /\ Gone(u)' = Gone(u) /\ stored'[u] = stored[u]
            BY <1>0, <1>4, <1>8, <2>1, <2>3 DEF Through
        <3> QED
            BY <1>3, <3>1 DEF RowInv, MissingIsDropped
    <2> QED
        BY <2>2, <2>3
<1>13. StoredIsAPrefix'
    BY <1>3, <1>4, <1>5 DEF RowInv, StoredIsAPrefix
<1> QED
    BY <1>9, <1>10, <1>12, <1>13 DEF RowInv

\* A COPY that failed, or was cancelled, may have been committed.
LEMMA AbandonKeepsRows ==
    ASSUME WInv, RowInv, pc = "copy", pc' # "copy", UNCHANGED <<offered, queues, dropped>>,
           \/ UNCHANGED stored
           \/ \E table \in CopyOutcome : stored' = [stored EXCEPT ![cursor] = table]
    PROVE  RowInv'
<1>1. cursor \in Tables
    BY DEF WInv, BatchIsQueued
<1> DEFINE T == stored'[cursor]
<1>2. /\ T = stored[cursor] \/ T = CopyDedup(stored[cursor], in_flight)
      /\ \A u \in Tables : u # cursor => stored'[u] = stored[u]
    <2>1. CASE UNCHANGED stored
        BY <2>1
    <2>2. CASE \E table \in CopyOutcome : stored' = [stored EXCEPT ![cursor] = table]
        BY <1>1, <2>2 DEF CopyOutcome, WInv, TypeOK
    <2> QED
        BY <2>1, <2>2
<1>3. /\ Missing(Gone(cursor), T) <= dropped[cursor]
      /\ dropped[cursor] = 0 => \A row \in T : 1..row \subseteq T
    BY <1>1, <1>2, HeldInv
<1>4. \A u \in Tables : Gone(u)' = Gone(u) /\ Through(u)' = Gone(u)
    BY DEF Gone, Through
<1>5. QueuesAreRuns' /\ BatchIsARun'
    BY <1>4 DEF RowInv, QueuesAreRuns, BatchIsARun
<1>6. MissingIsDropped'
    <2> SUFFICES ASSUME NEW u \in Tables
                 PROVE  Missing(Gone(u), stored'[u]) + (Gone(u) - Gone(u)) <= dropped[u]
        BY <1>4 DEF MissingIsDropped, Missing
    <2>1. Gone(u) \in Nat /\ dropped[u] \in Nat /\ Missing(Gone(u), stored'[u]) \in Nat
        BY Counted, MissingFacts
    <2>2. CASE u = cursor
        BY <1>3, <2>1, <2>2
    <2>3. CASE u # cursor
        <3>1. Through(u) = Gone(u) /\ stored'[u] = stored[u]
            BY <1>2, <2>3 DEF Through
        <3> QED
            BY <2>1, <3>1 DEF RowInv, MissingIsDropped
    <2> QED
        BY <2>2, <2>3
<1>7. StoredIsAPrefix'
    BY <1>2, <1>3 DEF RowInv, StoredIsAPrefix
<1> QED
    BY <1>5, <1>6, <1>7 DEF RowInv

\* A new writer has lost nothing.
LEMMA InitRowInv == Init => RowInv
<1> SUFFICES ASSUME Init PROVE RowInv
    OBVIOUS
<1>1. \A t \in Tables : /\ Gone(t) = 0 /\ Through(t) = 0 /\ Missing(0, stored[t]) = 0
                        /\ dropped[t] = 0 /\ stored[t] = {} /\ queues[t] = <<>>
    BY FS_EmptySet DEF Init, Gone, Through, Missing
<1>2. pc # "copy"
    BY DEF Init
<1> QED
    BY <1>1, <1>2 DEF RowInv, QueuesAreRuns, BatchIsARun, MissingIsDropped, StoredIsAPrefix

\* Every put, every step of a flush and every step of stop() accounts for its rows.
LEMMA NextRowInv == WInv /\ RowInv /\ [Next]_vars => RowInv'
<1> SUFFICES ASSUME WInv, RowInv, [Next]_vars PROVE RowInv'
    OBVIOUS
<1>1. ASSUME NEW t \in Tables, Put(t) PROVE RowInv'
    BY <1>1, PutKeepsRows
<1>2. CASE FlushTake
    BY <1>2, TakeKeepsRows
<1>3. CASE CopyDone
    BY <1>3, DoneKeepsRows
<1>4. CASE CopyFailed
    BY <1>4, AbandonKeepsRows DEF CopyFailed
<1>5. CASE TaskCancelled
    <2>1. CASE pc = "copy"
        BY <1>5, <2>1, AbandonKeepsRows DEF TaskCancelled, BeginPass
    <2>2. CASE pc # "copy"
        BY <1>5, <2>2, RowsUntouched DEF TaskCancelled, BeginPass
    <2> QED
        BY <2>1, <2>2
<1>6. CASE FlushEmpty \/ BackoffOver \/ TaskEnded
    BY <1>6, RowsUntouched DEF FlushEmpty, BackoffOver, TaskEnded, BeginPass
<1>7. CASE PassEnds \/ WakeUp
    <2>1. /\ UNCHANGED <<offered, queues, dropped, stored>>
          /\ pc # "copy" /\ pc' # "copy"
        BY <1>7 DEF PassEnds, WakeUp, LoopTop, BeginPass
    <2> QED
        BY <2>1, RowsUntouched
<1>8. CASE NoticeEnds \/ Stop
    BY <1>8, RowsUntouched DEF NoticeEnds, Stop, flusher
<1>9. CASE Stopped \/ UNCHANGED vars
    BY <1>9, RowsUntouched DEF Stopped, vars, flusher
<1> QED
    BY <1>1, <1>2, <1>3, <1>4, <1>5, <1>6, <1>7, <1>8, <1>9 DEF Next, TaskStep, CopyStep

\* What is neither stored nor queued is missing, and was dropped.
LEMMA RowInvCounts == WInv /\ RowInv => LossesAreCounted
<1> SUFFICES ASSUME WInv, RowInv, NEW t \in Tables
             PROVE  Cardinality(Lost(t)) <= dropped[t]
    BY DEF LossesAreCounted
<1> DEFINE q == queues[t]
<1>1. /\ offered[t] \in Nat /\ q \in Seq(Nat) /\ Len(q) \in Nat /\ dropped[t] \in Nat
      /\ Gone(t) \in Nat
    BY Counted
<1>2. \A i \in 1..Len(q) : q[i] = Gone(t) + i
    BY DEF RowInv, QueuesAreRuns
<1>3. Lost(t) \subseteq 1..Gone(t) \ stored[t]
    <2>1. Gone(t) = offered[t] - Len(q)
        BY DEF Gone
    <2>2. DOMAIN q = 1..Len(q)
        BY <1>1
    <2> HIDE DEF q
    <2>3. ASSUME NEW row \in 1..offered[t], row > Gone(t) PROVE row \in RowsOf(q)
        <3>1. row - Gone(t) \in 1..Len(q)
            BY <1>1, <2>1, <2>3
        <3>2. q[row - Gone(t)] = row
            BY <1>1, <1>2, <3>1
        <3> QED
            BY <2>2, <3>1, <3>2 DEF RowsOf
    <2> QED
        BY <1>1, <2>3 DEF Lost, q
<1>4. Cardinality(Lost(t)) <= Missing(Gone(t), stored[t])
    BY <1>1, <1>3, MissingFacts, FS_Subset DEF Missing
<1>5. Missing(Gone(t), stored[t]) <= dropped[t]
    <2>1. Missing(Through(t), stored[t]) + (Gone(t) - Through(t)) <= dropped[t]
        BY DEF RowInv, MissingIsDropped
    <2>2. Through(t) \in Nat /\ Through(t) <= Gone(t)
        BY ThroughType DEF RowInv
    <2> DEFINE k == Gone(t) - Through(t)
    <2>3. k \in Nat /\ Through(t) + k = Gone(t)
        BY <1>1, <2>2
    <2>4. Missing(Through(t) + k, stored[t]) <= Missing(Through(t), stored[t]) + k
        BY <2>2, <2>3, MissingFurther
    <2>5. Missing(Through(t), stored[t]) \in Nat /\ Missing(Gone(t), stored[t]) \in Nat
        BY <1>1, <2>2, MissingFacts
    <2> QED
        BY <1>1, <2>1, <2>2, <2>3, <2>4, <2>5
<1>6. Cardinality(Lost(t)) \in Nat /\ Missing(Gone(t), stored[t]) \in Nat
    <2>1. IsFiniteSet(Lost(t))
        BY <1>1, <1>3, MissingFacts, FS_Subset
    <2> QED
        BY <1>1, <2>1, MissingFacts, FS_CardinalityType
<1> QED
    BY <1>1, <1>4, <1>5, <1>6

-----------------------------------------------------------------------------
(* The theorems *)

\* WInv is an invariant of the writer.
THEOREM Inductive == Spec => []WInv
BY InitWInv, NextWInv, PTL DEF Spec

\* Every variable keeps its type.
THEOREM TypeCorrect == Spec => []TypeOK
<1>1. WInv => TypeOK
    BY DEF WInv
<1> QED
    BY <1>1, Inductive, PTL

\* No deque of writer.py ever holds more than MAX_QUEUE_ROWS rows.
THEOREM QueuesBounded == Spec => []Bounded
<1>1. WInv => Bounded
    BY DEF WInv
<1> QED
    BY <1>1, Inductive, PTL

\* written + dropped + queued is what was handed over, at every moment, however
\* puts overtake COPYs.
THEOREM CountersCorrect == Spec => []CountersBalance
<1>1. WInv => CountersBalance
    BY DEF WInv
<1> QED
    BY <1>1, Inductive, PTL

\* RowInv is an invariant of the writer.
THEOREM RowsInductive == Spec => [](WInv /\ RowInv)
<1>1. Init => WInv /\ RowInv
    BY InitWInv, InitRowInv
<1>2. (WInv /\ RowInv) /\ [Next]_vars => (WInv /\ RowInv)'
    BY NextWInv, NextRowInv
<1> QED
    BY <1>1, <1>2, PTL DEF Spec

\* The rows a collector handed over and that are neither in the database nor
\* queued are no more than the writer's dropped counter says.
THEOREM NoSilentLoss == Spec => []LossesAreCounted
BY RowInvCounts, RowsInductive, PTL

\* A table that dropped nothing holds its rows without a hole.
THEOREM NoHoles == Spec => []StoredIsAPrefix
<1>1. RowInv => StoredIsAPrefix
    BY DEF RowInv
<1> QED
    BY <1>1, RowsInductive, PTL

-----------------------------------------------------------------------------
(* The writer with its announcements *)

\* The announcements do not touch the writer: with them it is still DBWriter.
THEOREM AnnouncedWriter == DeliverySpec => Spec
<1>1. DeliveryInit => Init
    BY DEF DeliveryInit
<1>2. [DeliveryNext]_all => [Next]_vars
    BY DEF DeliveryNext, WriterStep, Skip, Send, PostEnds, Second, Next, all
<1> QED
    BY <1>1, <1>2, PTL DEF DeliverySpec, Spec

\* The interval is claimed when the POST is sent.
PostInv == posting \in Nat /\ elapsed \in Nat /\ elapsed = silence

\* Two POSTs to the warehouse are MIN_INTERVAL_S apart, however tasks overlap.
THEOREM AnnouncementsAreSpaced == DeliverySpec => PostsAreSpaced
<1>1. DeliveryInit => PostInv
    BY DeliveryAssumption DEF DeliveryInit, PostInv
<1>2. PostInv /\ [DeliveryNext]_all => PostInv'
    BY DeliveryAssumption
    DEF PostInv, DeliveryNext, WriterStep, Skip, Send, PostEnds, Second, all, delivery, Least
<1>3. PostInv /\ [DeliveryNext]_all => [posting' > posting => silence >= MinInterval]_all
    BY DeliveryAssumption
    DEF PostInv, DeliveryNext, WriterStep, Skip, Send, PostEnds, Second, all, delivery, TooSoon
<1> QED
    BY <1>1, <1>2, <1>3, PTL DEF DeliverySpec, PostsAreSpaced

=============================================================================
