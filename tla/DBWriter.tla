------------------------------ MODULE DBWriter ------------------------------
(***************************************************************************)
(* The one database writer (api/src/collectors/writer.py) with the COPY it *)
(* awaits (_copy_dedup of adapters/database/repositories/raw.py).          *)
(*                                                                         *)
(* Rows of a table are numbered in the order the collectors hand them      *)
(* over.  put() never blocks; the flusher, first the writer's task and     *)
(* then stop()'s last drain, awaits the database with the rows of its      *)
(* batch still at the front of the queue, and puts go on meanwhile.        *)
(***************************************************************************)
EXTENDS Integers, Sequences, FiniteSets

CONSTANTS
    NTables,         \* TABLES, by position
    MaxQueue,        \* MAX_QUEUE_ROWS
    Batch,           \* settings.write_batch_rows
    BatchesPerPass,  \* a pass takes at most this many batches of a table
    MaxRows,         \* bound: rows handed over per table
    Broken,          \* tables whose COPY may fail
    Poisoned         \* tables whose COPY never succeeds

Tables == 1..NTables

ASSUME WriterAssumption ==
    /\ NTables \in Nat
    /\ MaxQueue \in Nat \ {0} /\ Batch \in Nat \ {0} /\ BatchesPerPass \in Nat \ {0}
    /\ MaxRows \in Nat
    /\ Broken \subseteq Tables /\ Poisoned \subseteq Broken

VARIABLES
    offered,   \* history: rows handed over so far, per table
    queues,    \* the deques, oldest row first
    dropped, written,
    stored,    \* the rows each table of the database holds
    pc,        \* where the flusher is
    cursor,    \* the table it is at
    in_flight, \* the rows of the COPY under way
    landed,    \* rows written in this pass
    notices,   \* notify tasks under way
    stopper    \* where stop() is

flusher == <<pc, cursor, in_flight, landed>>
vars == <<offered, queues, dropped, written, stored, flusher, notices, stopper>>

\* A step of the flusher that awaits nothing is not interleaved with a put.
Yielded == pc # "flush"

Least(a, b) == IF a <= b THEN a ELSE b
FullLate(q) == Len(q) > MaxQueue             \* mutant
Full(q) == Len(q) >= MaxQueue
FromTheEnd(q, n) == SubSeq(q, Len(q) - n + 1, Len(q))   \* mutant
Front(q, n) == SubSeq(q, 1, n)
Rest(q, n) == SubSeq(q, n + 1, Len(q))
RowsOf(q) == {q[i] : i \in DOMAIN q}

\* INSERT ... SELECT ... ON CONFLICT DO NOTHING, one transaction.
CopyDedup(table, rows) == table \cup RowsOf(rows)

-----------------------------------------------------------------------------
(* The producer side *)

\* put(): collectors are stopped before the writer is.  A full queue gives up
\* its oldest row.
Put(t) ==
    /\ Yielded /\ stopper = "none" /\ offered[t] < MaxRows
    /\ offered' = [offered EXCEPT ![t] = @ + 1]
    /\ LET kept == IF Full(queues[t]) THEN Tail(queues[t]) ELSE queues[t]
       IN  queues' = [queues EXCEPT ![t] = Append(kept, offered[t] + 1)]
    /\ dropped' = [dropped EXCEPT ![t] = IF Full(queues[t]) THEN @ + 1 ELSE @]
    /\ UNCHANGED <<written, stored, flusher, notices, stopper>>

-----------------------------------------------------------------------------
(* The flusher *)

BeginPass ==
    /\ pc' = "flush" /\ cursor' = 1 /\ landed' = 0

LoopForever == BeginPass      \* mutant

\* The head of the while loop in _run.
LoopTop ==
    IF stopper = "none" THEN BeginPass ELSE pc' = "ended" /\ UNCHANGED <<cursor, landed>>

FlushEmpty ==
    /\ pc = "flush" /\ cursor <= NTables /\ queues[cursor] = <<>>
    /\ cursor' = cursor + 1
    /\ UNCHANGED <<offered, queues, dropped, written, stored, pc, in_flight, landed, notices,
                   stopper>>

\* The batch is copied out of the queue, and stays in it.
FlushTake ==
    /\ pc = "flush" /\ cursor <= NTables /\ queues[cursor] # <<>>
    /\ in_flight' = Front(queues[cursor], Least(Len(queues[cursor]), Batch * BatchesPerPass))
    /\ pc' = "copy"
    /\ UNCHANGED <<offered, queues, dropped, written, stored, cursor, landed, notices, stopper>>

CopyDone ==
    /\ pc = "copy" /\ cursor \notin Poisoned
    /\ stored' = [stored EXCEPT ![cursor] = CopyDedup(@, in_flight)]
    /\ queues' = [queues EXCEPT ![cursor] = Rest(@, Len(in_flight))]
    /\ written' = [written EXCEPT ![cursor] = @ + Len(in_flight)]
    /\ landed' = landed + Len(in_flight)
    /\ in_flight' = <<>>
    /\ cursor' = cursor + 1
    /\ pc' = "flush"
    /\ UNCHANGED <<offered, dropped, notices, stopper>>

\* A COPY that ends in an error was rolled back, or was committed and its
\* answer lost.
CopyOutcome == {stored[cursor]} \cup
               (IF cursor \in Poisoned THEN {} ELSE {CopyDedup(stored[cursor], in_flight)})

\* Mutant: the rows of a failed COPY leave the queue.
CopyFailedForgets ==
    /\ pc = "copy" /\ cursor \in Broken
    /\ queues' = [queues EXCEPT ![cursor] = Rest(@, Len(in_flight))]
    /\ written' = [written EXCEPT ![cursor] = @ + Len(in_flight)]
    /\ in_flight' = <<>> /\ pc' = "backoff"
    /\ UNCHANGED <<offered, dropped, stored, cursor, landed, notices, stopper>>

CopyFailed ==
    /\ pc = "copy" /\ cursor \in Broken
    /\ \E table \in CopyOutcome : stored' = [stored EXCEPT ![cursor] = table]
    /\ in_flight' = <<>>
    /\ pc' = "backoff"
    /\ UNCHANGED <<offered, queues, dropped, written, cursor, landed, notices, stopper>>

\* Mutant: the same table is tried again.
BackoffRetries ==
    /\ pc = "backoff" /\ pc' = "flush"
    /\ UNCHANGED <<offered, queues, dropped, written, stored, cursor, in_flight, landed, notices,
                   stopper>>

BackoffOver ==
    /\ pc = "backoff"
    /\ cursor' = cursor + 1
    /\ pc' = "flush"
    /\ UNCHANGED <<offered, queues, dropped, written, stored, in_flight, landed, notices,
                   stopper>>

\* The pass is over: rows that landed are announced by a task of its own, and
\* the loop goes round at once while a queue holds a batch or more.
PassEnds ==
    /\ pc = "flush" /\ cursor = NTables + 1
    /\ notices' = IF landed > 0 THEN notices + 1 ELSE notices
    /\ IF stopper = "draining"
       THEN pc' = "ended" /\ stopper' = "done" /\ UNCHANGED <<cursor, landed>>
       ELSE /\ UNCHANGED stopper
            /\ IF \A t \in Tables : Len(queues[t]) < Batch
               THEN pc' = "sleep" /\ UNCHANGED <<cursor, landed>>
               ELSE LoopTop
    /\ UNCHANGED <<offered, queues, dropped, written, stored, in_flight>>

WakeUp ==
    /\ pc = "sleep"
    /\ LoopTop
    /\ UNCHANGED <<offered, queues, dropped, written, stored, in_flight, notices, stopper>>

NoticeEnds ==
    /\ Yielded /\ notices > 0
    /\ notices' = notices - 1
    /\ UNCHANGED <<offered, queues, dropped, written, stored, flusher, stopper>>

-----------------------------------------------------------------------------
(* stop() *)

Stop ==
    /\ Yielded /\ stopper = "none"
    /\ stopper' = "waiting"
    /\ UNCHANGED <<offered, queues, dropped, written, stored, flusher, notices>>

TaskEnded ==
    /\ pc = "ended" /\ stopper = "waiting"
    /\ stopper' = "draining"
    /\ BeginPass
    /\ UNCHANGED <<offered, queues, dropped, written, stored, in_flight, notices>>

\* wait_for gives up after 30 s and cancels the task at the await it is in; a
\* cancelled COPY may have been committed.
TaskCancelled ==
    /\ pc \in {"copy", "backoff", "sleep"} /\ stopper = "waiting"
    /\ stopper' = "draining"
    /\ \/ UNCHANGED stored
       \/ pc = "copy" /\ \E table \in CopyOutcome : stored' = [stored EXCEPT ![cursor] = table]
    /\ in_flight' = <<>>
    /\ BeginPass
    /\ UNCHANGED <<offered, queues, dropped, written, notices>>

-----------------------------------------------------------------------------
(* The specification *)

Init ==
    /\ offered = [t \in Tables |-> 0] /\ queues = [t \in Tables |-> <<>>]
    /\ dropped = [t \in Tables |-> 0] /\ written = [t \in Tables |-> 0]
    /\ stored = [t \in Tables |-> {}]
    /\ pc = "flush" /\ cursor = 1 /\ in_flight = <<>> /\ landed = 0
    /\ notices = 0 /\ stopper = "none"

\* stop() has returned: manager.stop goes on without the writer.
Stopped == stopper = "done" /\ notices = 0 /\ UNCHANGED vars

CopyStep == CopyDone \/ CopyFailed
TaskStep == FlushEmpty \/ FlushTake \/ BackoffOver \/ PassEnds \/ WakeUp

Next == \/ \E t \in Tables : Put(t)
        \/ TaskStep \/ CopyStep \/ NoticeEnds
        \/ Stop \/ TaskEnded \/ TaskCancelled \/ Stopped

\* The event loop runs every runnable task and a COPY returns or raises.  A
\* database that is asked again and again answers in the end, except for a
\* table that cannot take its rows.  Nothing is asked of the notices.
Fairness ==
    /\ WF_vars(TaskStep) /\ WF_vars(CopyStep) /\ WF_vars(TaskEnded)
    /\ \A t \in Tables \ Poisoned : SF_vars(CopyDone /\ cursor = t)

Spec == Init /\ [][Next]_vars
FairSpec == Spec /\ Fairness

-----------------------------------------------------------------------------
(* What the writer promises *)

\* Every variable holds a value the code could hold.
TypeOK ==
    /\ offered \in [Tables -> Nat] /\ queues \in [Tables -> Seq(Nat)]
    /\ dropped \in [Tables -> Nat] /\ written \in [Tables -> Nat]
    /\ stored \in [Tables -> SUBSET Nat]
    /\ pc \in {"flush", "copy", "backoff", "sleep", "ended"}
    /\ cursor \in 1..NTables + 1 /\ in_flight \in Seq(Nat)
    /\ landed \in Nat /\ notices \in Nat
    /\ stopper \in {"none", "waiting", "draining", "done"}

\* No queue outgrows its cap, whatever the database does ("BOUNDED", writer.py).
Bounded == \A t \in Tables : Len(queues[t]) <= MaxQueue

\* The writer's counters account for every row handed over: written, dropped
\* or queued, also while an overflow overtakes a COPY.
CountersBalance ==
    \A t \in Tables : offered[t] = written[t] + dropped[t] + Len(queues[t])

\* The rows of the COPY under way are no more than the queue holds.
BatchIsQueued ==
    /\ pc \in {"copy", "backoff"} => cursor \in Tables
    /\ pc = "copy" => Len(in_flight) <= Len(queues[cursor])

\* What every step preserves, and CountersBalance needs: popleft never finds a
\* queue that an overflow emptied under the COPY, and no deque outgrows its cap.
WInv == TypeOK /\ Bounded /\ CountersBalance /\ BatchIsQueued

Lost(t) == 1..offered[t] \ (stored[t] \cup RowsOf(queues[t]))

\* A row that is neither stored nor queued was counted as dropped: failed,
\* repeated, cancelled and half-acknowledged COPYs lose nothing silently.
LossesAreCounted == \A t \in Tables : Cardinality(Lost(t)) <= dropped[t]

\* As long as a table has dropped nothing the database holds a prefix of its
\* rows, whatever failed and was tried again.
StoredIsAPrefix ==
    \A t \in Tables : dropped[t] = 0 =>
        \A row \in stored[t] : 1..row \subseteq stored[t]

\* A table that cannot take its rows does not hold up the others.
FailureIsIsolated ==
    \A t \in Tables \ Poisoned : queues[t] # <<>> ~> (queues[t] = <<>> \/ stopper # "none")

\* stop() returns, with the database down and notices hanging.
StopReturns == stopper = "waiting" ~> stopper = "done"

=============================================================================
