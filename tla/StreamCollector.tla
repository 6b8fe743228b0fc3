--------------------------- MODULE StreamCollector ---------------------------
(***************************************************************************)
(* One collector task (api/src/collectors/stream.py) with its session row  *)
(* in stream_runs (adapters/database/repositories/raw.py), the snapshot    *)
(* task it starts, and the venue at the other end of the socket.           *)
(*                                                                         *)
(* The collector is a coroutine: between two awaits it runs alone.  pc is  *)
(* the await it is suspended at, or the place inside a handler ("tail",    *)
(* "replay") that it must leave before anything else can run.  The replay  *)
(* of the buffer is one step per buffered message.                         *)
(***************************************************************************)
EXTENDS BookSync

CONSTANTS
    KeptLevels,      \* snapshot_levels: levels a side of a stored snapshot, 0 = all
    Faults,          \* which of FaultKinds the environment may commit
    MaxBoots,        \* bound: process starts
    MaxReconnects,   \* bound: sessions reopened by one process
    MaxPeriodic,     \* bound: periodic book snapshots of one process
    MaxTrades        \* bound: trades the venue prints

FaultKinds == {"loss", "fetch", "resubscribe", "disconnect", "connect", "db", "crash"}

ASSUME LimitAssumption ==
    /\ KeptLevels \in Nat /\ Faults \subseteq FaultKinds
    /\ MaxBoots \in Nat /\ MaxReconnects \in Nat /\ MaxPeriodic \in Nat /\ MaxTrades \in Nat

VARIABLES
    \* the venue and the socket
    venue_id,        \* the venue's last update
    pushed,          \* the last update covered by a depth message
    printed,         \* the last trade id
    subscribed,      \* this connection is sent book messages
    wire,            \* messages on their way to, or waiting for, the collector
    \* the coroutine
    pc, reason, boots, reconnects, stopping,
    \* OrderBook
    ladders, update_id, synced,
    \* session-local sync state
    buffer, snapshot_task, awaiting_first, first_update_id, resync_reason,
    replaying,       \* the part of the swapped-out buffer still to replay
    anchor,          \* update id of the snapshot the book began from
    \* counters of the session and its row id
    events, resyncs, traded, run_id,
    \* rows handed to the writer by this process, by table
    book_events, book_snapshots, trades,
    received,        \* history: depth messages handled by this process
    \* the stream_runs table
    runs

venue   == <<venue_id, pushed, printed>>
socket  == <<subscribed, wire>>
control == <<pc, reason, boots, reconnects, stopping>>
ob      == <<ladders, update_id, synced>>
task    == <<snapshot_task, resync_reason>>
replay  == <<replaying, anchor>>
counts  == <<events, resyncs, traded>>
run     == <<run_id, runs>>
vars == <<venue, socket, control, ob, buffer, task, awaiting_first, first_update_id,
          replay, counts, run, book_events, book_snapshots, trades, received>>

-----------------------------------------------------------------------------
(* Values *)

NoTask  == [status |-> "none", snapshot |-> NoId]
Started == [status |-> "running", snapshot |-> NoId]
Unsubscribed == [status |-> "unsubscribed", snapshot |-> NoId]
Failed  == [status |-> "failed", snapshot |-> NoId]
Served(n) == [status |-> "served", snapshot |-> n]
Done(n) == [status |-> "done", snapshot |-> n]
IsDone(t) == t.status \in {"done", "failed"}

\* Nothing else in the process runs until the handler yields.
Yielded == pc \notin {"tail", "replay"}

\* An await inside the session, where a cancellation is caught by run().
InSession == pc \in {"connect", "start_run", "recv", "update_run"}

\* since, here and below, is history: the snapshot the book of a row began from.
EventRow(ev, kind, applied, top, since) ==
    [kind |-> kind, applied |-> applied, update_id |-> ev.update_id,
     first_update_id |-> ev.first_update_id, prev_update_id |-> ev.prev_update_id,
     levels |-> ev.levels, top |-> top, since |-> since]

Applied(ev, book) == EventRow(ev, "diff", TRUE, Top(book), anchor)
NotApplied(ev)    == EventRow(ev, "diff", FALSE, {}, NoId)
Anchor(ev, book)  == EventRow(ev, "snapshot", TRUE, Top(book), ev.update_id)

\* Mutant: the far end of each ladder is stored.
SnapshotRowFar(id, book, why, since) ==
    [update_id |-> id, reason |-> why, ladders |-> FarLadder(book, KeptLevels), since |-> since]
SnapshotRow(id, book, why, since) ==
    [update_id |-> id, reason |-> why, ladders |-> Ladder(book, KeptLevels), since |-> since]

NewRun == [open |-> TRUE, reason |-> "none", first |-> NoId, last |-> NoId,
           events |-> 0, trades |-> 0, resyncs |-> 0]

BookIdOrNone == IF update_id = 0 THEN NoId ELSE update_id

\* A stream_runs row after update_run, finish_run and close_orphan_runs.
UpdatedRow(r) ==
    [open |-> r.open, reason |-> r.reason,
     first |-> IF r.first = NoId THEN first_update_id ELSE r.first,
     last |-> BookIdOrNone, events |-> events, trades |-> traded, resyncs |-> resyncs]

FinishedRow(r) ==
    [open |-> FALSE, reason |-> reason, first |-> r.first,
     last |-> IF BookIdOrNone = NoId THEN r.last ELSE BookIdOrNone,
     events |-> events, trades |-> traded, resyncs |-> resyncs]

OrphanRow(r) ==
    [open |-> FALSE, reason |-> "orphan_closed_on_startup", first |-> r.first,
     last |-> r.last, events |-> r.events, trades |-> r.trades, resyncs |-> r.resyncs]

-----------------------------------------------------------------------------
(* The venue *)

VenueUpdate ==
    /\ Yielded /\ venue_id < MaxId
    /\ venue_id' = venue_id + 1
    /\ UNCHANGED <<pushed, printed, socket, control, ob, buffer, task, awaiting_first,
                   first_update_id, replay, counts, run, book_events, book_snapshots,
                   trades, received>>

\* The venue closes a batch.  A connection that is not subscribed misses it,
\* and a slow consumer may be skipped.
VenuePush ==
    /\ Yielded /\ pushed < venue_id
    /\ pushed' = venue_id
    /\ \/ \E ev \in DiffEvents(pushed, venue_id) :
            wire' = IF subscribed THEN Append(wire, ev) ELSE wire
       \/ "loss" \in Faults /\ subscribed /\ UNCHANGED wire
    /\ UNCHANGED <<venue_id, printed, subscribed, control, ob, buffer, task, awaiting_first,
                   first_update_id, replay, counts, run, book_events, book_snapshots,
                   trades, received>>

VenueTrade ==
    /\ Yielded /\ printed < MaxTrades /\ InSession /\ pc # "connect"
    /\ printed' = printed + 1
    /\ wire' = Append(wire, [kind |-> "trade", update_id |-> printed + 1])
    /\ UNCHANGED <<venue_id, pushed, subscribed, control, ob, buffer, task, awaiting_first,
                   first_update_id, replay, counts, run, book_events, book_snapshots,
                   trades, received>>

-----------------------------------------------------------------------------
(* The snapshot task: fetch_snapshot (REST) or request_resync (Deribit) *)

\* The REST answer is the venue's book at the moment it is served, cut at the limit.
FetchServed ==
    /\ Yielded /\ ~InBand /\ snapshot_task.status = "running"
    /\ snapshot_task' = Served(venue_id)
    /\ UNCHANGED <<venue, socket, control, ob, buffer, resync_reason, awaiting_first,
                   first_update_id, replay, counts, run, book_events, book_snapshots,
                   trades, received>>

\* The stream may run ahead of the answer on its way; the answer is read only
\* when the next depth message finds the task done.
FetchAnswered ==
    /\ Yielded /\ snapshot_task.status = "served"
    /\ snapshot_task' = Done(snapshot_task.snapshot)
    /\ UNCHANGED <<venue, socket, control, ob, buffer, resync_reason, awaiting_first,
                   first_update_id, replay, counts, run, book_events, book_snapshots,
                   trades, received>>

FetchFailed ==
    /\ Yielded /\ ~InBand /\ "fetch" \in Faults
    /\ snapshot_task.status \in {"running", "served"}
    /\ snapshot_task' = Failed
    /\ UNCHANGED <<venue, socket, control, ob, buffer, resync_reason, awaiting_first,
                   first_update_id, replay, counts, run, book_events, book_snapshots,
                   trades, received>>

Unsubscribe ==
    /\ Yielded /\ InBand /\ snapshot_task.status = "running"
    /\ snapshot_task' = Unsubscribed
    /\ subscribed' = FALSE
    /\ UNCHANGED <<venue, wire, control, ob, buffer, resync_reason, awaiting_first,
                   first_update_id, replay, counts, run, book_events, book_snapshots,
                   trades, received>>

\* Subscribing brings the book as of the last batch, then the batches after it.
Resubscribe ==
    /\ Yielded /\ snapshot_task.status = "unsubscribed"
    /\ snapshot_task' = Done(NoId)
    /\ subscribed' = TRUE
    /\ wire' = Append(wire, SnapshotEvent(pushed))
    /\ UNCHANGED <<venue, control, ob, buffer, resync_reason, awaiting_first,
                   first_update_id, replay, counts, run, book_events, book_snapshots,
                   trades, received>>

\* A send on a dying socket raises, before or after the unsubscribe.
ResubscribeFailed ==
    /\ Yielded /\ InBand /\ "resubscribe" \in Faults
    /\ snapshot_task.status \in {"running", "unsubscribed"}
    /\ snapshot_task' = Failed
    /\ UNCHANGED <<venue, socket, control, ob, buffer, resync_reason, awaiting_first,
                   first_update_id, replay, counts, run, book_events, book_snapshots,
                   trades, received>>

-----------------------------------------------------------------------------
(* Opening a session *)

\* Mutant: the first update id of the last session survives.
OpenSessionKeepsFirst ==
    /\ pc' = "connect" /\ buffer' = <<>> /\ awaiting_first' = FALSE
    /\ first_update_id' = first_update_id
    /\ events' = 0 /\ resyncs' = 0 /\ traded' = 0

\* _open_session up to its first await.
OpenSession ==
    /\ pc' = "connect"
    /\ buffer' = <<>>
    /\ awaiting_first' = FALSE
    /\ first_update_id' = NoId
    /\ events' = 0 /\ resyncs' = 0 /\ traded' = 0

\* A process starts: CollectorManager.start closes the rows the last process
\* left open, then starts the collector, all of whose state is new.
OrphansAreLeft(table)     == table                                    \* mutant
EveryRowIsAnOrphan(table) == [i \in DOMAIN table |-> OrphanRow(table[i])]  \* mutant

CloseOrphans(table) ==
    [i \in DOMAIN table |-> IF table[i].open THEN OrphanRow(table[i]) ELSE table[i]]

Start ==
    /\ pc \in {"off", "done"} /\ boots < MaxBoots
    /\ boots' = boots + 1
    /\ runs' = CloseOrphans(runs)
    /\ OpenSession
    /\ reason' = "none" /\ reconnects' = 0 /\ stopping' = FALSE
    /\ ladders' = EmptyLadders /\ update_id' = 0 /\ synced' = FALSE
    /\ snapshot_task' = NoTask /\ resync_reason' = "none"
    /\ replaying' = <<>> /\ anchor' = NoId /\ run_id' = NoId
    /\ book_events' = <<>> /\ book_snapshots' = <<>> /\ trades' = <<>> /\ received' = <<>>
    /\ wire' = <<>> /\ subscribed' = FALSE
    /\ UNCHANGED venue

\* Binance streams start with the connection; Deribit answers the subscription
\* with the book as of the last batch.
Connected ==
    /\ pc = "connect"
    /\ pc' = "start_run"
    /\ subscribed' = TRUE
    /\ wire' = IF InBand THEN <<SnapshotEvent(pushed)>> ELSE <<>>
    /\ UNCHANGED <<venue, reason, boots, reconnects, stopping, ob, buffer, task,
                   awaiting_first, first_update_id, replay, counts, run, book_events,
                   book_snapshots, trades, received>>

\* _start_snapshot_fetch, when no fetch is running.
StartSnapshotFetch(why) ==
    /\ resync_reason' = why
    /\ snapshot_task' = IF InBand /\ why = "sync" THEN snapshot_task
                        ELSE IF ~InBand /\ snapshot_task.status \in {"running", "served"}
                             THEN snapshot_task
                        ELSE Started

RunStarted ==
    /\ pc = "start_run"
    /\ runs' = Append(runs, NewRun)
    /\ run_id' = Len(runs) + 1
    /\ StartSnapshotFetch("sync")
    /\ pc' = "recv"
    /\ UNCHANGED <<venue, socket, reason, boots, reconnects, stopping, ob, buffer,
                   awaiting_first, first_update_id, replay, counts, book_events,
                   book_snapshots, trades, received>>

-----------------------------------------------------------------------------
(* Ending a session *)

\* _close_session up to its first await.  Nobody reads the socket any more.
CloseSession(why) ==
    /\ pc' = "closing"
    /\ reason' = why
    /\ snapshot_task' = NoTask
    /\ subscribed' = FALSE /\ wire' = <<>>

\* Mutants: a stop is taken for a lost connection, a lost connection for a stop.
AfterCloseRetries == pc' = "sleep" /\ reconnects' = reconnects + 1
AfterCloseGivesUp == pc' = "done" /\ UNCHANGED reconnects

\* What run() does after _close_session.
AfterClose ==
    IF reason = "shutdown" \/ stopping
    THEN pc' = "done" /\ UNCHANGED reconnects
    ELSE pc' = "sleep" /\ reconnects' = reconnects + 1

\* connect or start_run raised.  A failed INSERT may have been committed.
OpenFailed ==
    /\ \/ pc = "connect" /\ "connect" \in Faults /\ UNCHANGED runs
       \/ pc = "start_run" /\ "db" \in Faults /\ runs' \in {runs, Append(runs, NewRun)}
    /\ CloseSession("error")
    /\ UNCHANGED <<venue, boots, reconnects, stopping, ob, buffer, resync_reason,
                   awaiting_first, first_update_id, replay, counts, run_id, book_events,
                   book_snapshots, trades, received>>

\* The venue hung up: the message loop ends or raises.
Disconnected ==
    /\ pc = "recv" /\ "disconnect" \in Faults
    /\ CloseSession("closed")
    /\ UNCHANGED <<venue, boots, reconnects, stopping, ob, buffer, resync_reason,
                   awaiting_first, first_update_id, replay, counts, run, book_events,
                   book_snapshots, trades, received>>

SourceClosed ==
    /\ pc = "closing"
    /\ synced' = FALSE
    /\ IF run_id = NoId THEN AfterClose ELSE pc' = "finish_run" /\ UNCHANGED reconnects
    /\ UNCHANGED <<venue, socket, reason, boots, stopping, ladders, update_id, buffer, task,
                   awaiting_first, first_update_id, replay, counts, run, book_events,
                   book_snapshots, trades, received>>

FinishRun ==
    /\ pc = "finish_run"
    /\ \/ runs' = [runs EXCEPT ![run_id] = FinishedRow(@)]
       \/ "db" \in Faults /\ UNCHANGED runs      \* logged, and forgotten
    /\ run_id' = NoId
    /\ AfterClose
    /\ UNCHANGED <<venue, socket, reason, boots, stopping, ob, buffer, task, awaiting_first,
                   first_update_id, replay, counts, book_events, book_snapshots, trades,
                   received>>

Reconnect ==
    /\ pc = "sleep" /\ reconnects <= MaxReconnects
    /\ OpenSession
    /\ synced' = FALSE
    /\ UNCHANGED <<venue, socket, reason, boots, reconnects, stopping, ladders, update_id,
                   task, replay, run, book_events, book_snapshots, trades, received>>

\* stop(): a cancellation delivered at the await the task is suspended at.
\* Inside the session run() closes it; in _close_session or the reconnect
\* sleep it ends the task on the spot, whatever the statement in flight did.
Stop ==
    /\ ~stopping
    /\ stopping' = TRUE
    /\ \/ /\ InSession
          /\ CloseSession("shutdown")
          /\ \/ UNCHANGED runs
             \/ pc = "start_run" /\ runs' = Append(runs, NewRun)
             \/ pc = "update_run" /\ runs' = [runs EXCEPT ![run_id] = UpdatedRow(@)]
       \/ /\ pc \in {"closing", "finish_run", "sleep"}
          /\ pc' = "done"
          /\ \/ UNCHANGED runs
             \/ pc = "finish_run" /\ runs' = [runs EXCEPT ![run_id] = FinishedRow(@)]
          /\ UNCHANGED <<reason, snapshot_task, socket>>
    /\ UNCHANGED <<venue, boots, reconnects, ob, buffer, resync_reason, awaiting_first,
                   first_update_id, replay, counts, run_id, book_events, book_snapshots,
                   trades, received>>

\* The process dies.  What it held is gone; the database is not.
Crash ==
    /\ "crash" \in Faults /\ Yielded /\ pc \notin {"off", "done"}
    /\ pc' = "off"
    /\ UNCHANGED <<venue, socket, reason, boots, reconnects, stopping, ob, buffer, task,
                   awaiting_first, first_update_id, replay, counts, run, book_events,
                   book_snapshots, trades, received>>

-----------------------------------------------------------------------------
(* Handling a message *)

Receive(kinds) ==
    /\ pc = "recv" /\ wire # <<>> /\ Head(wire).kind \in kinds
    /\ wire' = Tail(wire)
    /\ UNCHANGED <<venue, subscribed, reason, boots, reconnects, stopping, run>>

ReceiveDepth(kind) ==
    /\ Receive({kind})
    /\ events' = events + 1
    /\ received' = Append(received, Head(wire).update_id)
    /\ UNCHANGED <<traded, trades>>

RecvTrade ==
    /\ Receive({"trade"})
    /\ traded' = traded + 1
    /\ trades' = Append(trades, Head(wire).update_id)
    /\ pc' = "tail"
    /\ UNCHANGED <<ob, buffer, task, awaiting_first, first_update_id, replay, events, resyncs,
                   book_events, book_snapshots, received>>

\* _adopt_snapshot, except for awaiting_first.
Adopt(id, levels, why) ==
    /\ ladders' = Reset(levels)
    /\ update_id' = id
    /\ synced' = TRUE
    /\ first_update_id' = IF first_update_id = NoId THEN id ELSE first_update_id
    /\ resyncs' = IF why = "sync" THEN resyncs ELSE resyncs + 1
    /\ anchor' = id
    /\ book_snapshots' = Append(book_snapshots, SnapshotRow(id, Reset(levels), why, id))

\* An in-band snapshot supersedes whatever was buffered.
RecvSnapshot ==
    /\ ReceiveDepth("snapshot")
    /\ Adopt(Head(wire).update_id, Head(wire).levels,
             IF first_update_id = NoId THEN "sync" ELSE "resync")
    /\ book_events' = Append(book_events, Anchor(Head(wire), Reset(Head(wire).levels)))
    /\ awaiting_first' = FALSE
    /\ buffer' = <<>>
    /\ pc' = "tail"
    /\ UNCHANGED <<task, replaying>>

\* While the book is not synced a diff is buffered, and only then is the
\* snapshot task looked at: running, failed, or done.
RecvUnsynced ==
    /\ ReceiveDepth("diff") /\ ~synced /\ ~IsDone(snapshot_task)
    /\ buffer' = Append(buffer, Head(wire))
    /\ pc' = "tail"
    /\ UNCHANGED <<ob, task, awaiting_first, first_update_id, replay, resyncs, book_events,
                   book_snapshots>>

RecvFetchFailed ==
    /\ ReceiveDepth("diff") /\ ~synced /\ snapshot_task.status = "failed"
    /\ buffer' = Append(buffer, Head(wire))
    /\ snapshot_task' = IF InBand /\ resync_reason = "sync" THEN NoTask ELSE Started
    /\ pc' = "tail"
    /\ UNCHANGED <<ob, resync_reason, awaiting_first, first_update_id, replay, resyncs,
                   book_events, book_snapshots>>

\* request_resync returns None: its answer is a message still to come.
RecvResyncSent ==
    /\ ReceiveDepth("diff") /\ ~synced /\ snapshot_task = Done(NoId)
    /\ buffer' = Append(buffer, Head(wire))
    /\ snapshot_task' = NoTask
    /\ pc' = "tail"
    /\ UNCHANGED <<ob, resync_reason, awaiting_first, first_update_id, replay, resyncs,
                   book_events, book_snapshots>>

RecvFetchDone ==
    /\ ReceiveDepth("diff") /\ ~synced
    /\ snapshot_task.status = "done" /\ snapshot_task.snapshot # NoId
    /\ LET id == snapshot_task.snapshot IN
       /\ Adopt(id, SnapshotLevels(id), IF resync_reason = "none" THEN "sync" ELSE resync_reason)
       /\ book_events' = Append(book_events, Anchor(SnapshotEvent(id), Reset(SnapshotLevels(id))))
    /\ snapshot_task' = NoTask
    /\ awaiting_first' = TRUE
    /\ replaying' = Append(buffer, Head(wire))
    /\ buffer' = <<>>
    /\ pc' = "replay"
    /\ UNCHANGED resync_reason

\* The sequence check of a live diff.
LiveOk(ev) ==
    IF awaiting_first THEN FirstEventOk(ev, update_id) ELSE NextEventOk(ev, update_id)

\* Mutants: the message is recorded now and by the replay; no snapshot is asked for.
GapRecordsTwice(ev) ==
    /\ synced' = FALSE
    /\ buffer' = Append(buffer, ev) /\ book_events' = Append(book_events, NotApplied(ev))
    /\ StartSnapshotFetch("resync")
GapWithoutFetch(ev) ==
    /\ synced' = FALSE
    /\ buffer' = Append(buffer, ev) /\ UNCHANGED <<book_events, task>>

\* The book is not trusted any more and a snapshot is asked for.  A REST venue
\* keeps the message for the replay, which records it either way.
Gap(ev) ==
    /\ synced' = FALSE
    /\ IF InBand
       THEN book_events' = Append(book_events, NotApplied(ev)) /\ UNCHANGED buffer
       ELSE buffer' = Append(buffer, ev) /\ UNCHANGED book_events
    /\ StartSnapshotFetch("resync")

\* OrderBook.apply of a diff that passed the check.
ApplyDiff(ev) ==
    /\ ladders' = Apply(ladders, ev)
    /\ update_id' = ev.update_id
    /\ awaiting_first' = FALSE

RecvApplied ==
    /\ ReceiveDepth("diff") /\ synced /\ LiveOk(Head(wire))
    /\ ~IsCrossed(Apply(ladders, Head(wire)))
    /\ ApplyDiff(Head(wire))
    /\ book_events' = Append(book_events, Applied(Head(wire), Apply(ladders, Head(wire))))
    /\ pc' = "tail"
    /\ UNCHANGED <<synced, buffer, task, first_update_id, replay, resyncs, book_snapshots>>

RecvCrossed ==
    /\ ReceiveDepth("diff") /\ synced /\ LiveOk(Head(wire))
    /\ IsCrossed(Apply(ladders, Head(wire)))
    /\ ApplyDiff(Head(wire))
    /\ Gap(Head(wire))
    /\ pc' = "tail"
    /\ UNCHANGED <<first_update_id, replay, resyncs, book_snapshots>>

RecvGap ==
    /\ ReceiveDepth("diff") /\ synced /\ ~LiveOk(Head(wire))
    /\ Gap(Head(wire))
    /\ pc' = "tail"
    /\ UNCHANGED <<ladders, update_id, awaiting_first, first_update_id, replay, resyncs,
                   book_snapshots>>

-----------------------------------------------------------------------------
(* _replay_buffer, one buffered message at a time *)

ReplayNext ==
    /\ pc = "replay" /\ replaying # <<>>
    /\ replaying' = Tail(replaying)
    /\ UNCHANGED <<venue, socket, control, anchor, first_update_id, counts, run,
                   book_snapshots, trades, received>>

ReplayOk(ev) ==
    IF awaiting_first THEN FirstEventOk(ev, anchor) ELSE NextEventOk(ev, update_id)

ReplayDrop ==
    /\ ReplayNext /\ DropBeforeSnapshot(Head(replaying), anchor)
    /\ book_events' = Append(book_events, NotApplied(Head(replaying)))
    /\ UNCHANGED <<ob, buffer, task, awaiting_first>>

\* Mutant: the rest of the buffer is dropped.
ReplayForgets ==
    /\ ReplayNext /\ ~DropBeforeSnapshot(Head(replaying), anchor) /\ ~synced
    /\ UNCHANGED <<buffer, ob, task, awaiting_first, book_events>>

\* A gap further up this buffer: the rest waits for the next snapshot.
ReplayKeep ==
    /\ ReplayNext /\ ~DropBeforeSnapshot(Head(replaying), anchor) /\ ~synced
    /\ buffer' = Append(buffer, Head(replaying))
    /\ UNCHANGED <<ob, task, awaiting_first, book_events>>

ReplayJoins ==
    /\ ReplayNext /\ ~DropBeforeSnapshot(Head(replaying), anchor) /\ synced
    /\ ReplayOk(Head(replaying))
    /\ ApplyDiff(Head(replaying))

ReplayApplied ==
    /\ ReplayJoins /\ ~IsCrossed(Apply(ladders, Head(replaying)))
    /\ book_events' =
          Append(book_events, Applied(Head(replaying), Apply(ladders, Head(replaying))))
    /\ UNCHANGED <<synced, buffer, task>>

ReplayCrossed ==
    /\ ReplayJoins /\ IsCrossed(Apply(ladders, Head(replaying)))
    /\ Gap(Head(replaying))

ReplayGap ==
    /\ ReplayNext /\ ~DropBeforeSnapshot(Head(replaying), anchor) /\ synced
    /\ ~ReplayOk(Head(replaying))
    /\ Gap(Head(replaying))
    /\ UNCHANGED <<ladders, update_id, awaiting_first>>

ReplayEnd ==
    /\ pc = "replay" /\ replaying = <<>>
    /\ pc' = "tail"
    /\ UNCHANGED <<venue, socket, reason, boots, reconnects, stopping, ob, buffer, task,
                   awaiting_first, first_update_id, replay, counts, run, book_events,
                   book_snapshots, trades, received>>

-----------------------------------------------------------------------------
(* The end of every handler: _maybe_snapshot, then _maybe_update_run *)

\* settings.snapshot_interval_seconds have passed: at any time, within the bound.
PeriodicDue ==
    Len(SelectSeq(book_snapshots, LAMBDA row : row.reason = "periodic")) < MaxPeriodic

EndOfMessage ==
    /\ pc = "tail"
    /\ \/ UNCHANGED book_snapshots
       \/ /\ synced /\ PeriodicDue
          /\ book_snapshots' =
                Append(book_snapshots, SnapshotRow(update_id, ladders, "periodic", anchor))
    /\ pc' \in {"recv", "update_run"}
    /\ UNCHANGED <<venue, socket, reason, boots, reconnects, stopping, ob, buffer, task,
                   awaiting_first, first_update_id, replay, counts, run, book_events,
                   trades, received>>

\* update_run returns, times out or fails; the loop goes on all the same.
RunUpdated ==
    /\ pc = "update_run"
    /\ \/ runs' = [runs EXCEPT ![run_id] = UpdatedRow(@)]
       \/ "db" \in Faults /\ UNCHANGED runs
    /\ pc' = "recv"
    /\ UNCHANGED <<venue, socket, reason, boots, reconnects, stopping, ob, buffer, task,
                   awaiting_first, first_update_id, replay, counts, run_id, book_events,
                   book_snapshots, trades, received>>

-----------------------------------------------------------------------------
(* The specification *)

Init ==
    /\ venue_id = 0 /\ pushed = 0 /\ printed = 0
    /\ subscribed = FALSE /\ wire = <<>>
    /\ pc = "off" /\ reason = "none" /\ boots = 0 /\ reconnects = 0 /\ stopping = FALSE
    /\ ladders = EmptyLadders /\ update_id = 0 /\ synced = FALSE
    /\ buffer = <<>> /\ snapshot_task = NoTask /\ resync_reason = "none"
    /\ awaiting_first = FALSE /\ first_update_id = NoId
    /\ replaying = <<>> /\ anchor = NoId
    /\ events = 0 /\ resyncs = 0 /\ traded = 0 /\ run_id = NoId
    /\ book_events = <<>> /\ book_snapshots = <<>> /\ trades = <<>> /\ received = <<>>
    /\ runs = <<>>

VenueStep  == VenueUpdate \/ VenuePush \/ VenueTrade
FetchStep  == \/ FetchServed \/ FetchAnswered \/ FetchFailed
              \/ Unsubscribe \/ Resubscribe \/ ResubscribeFailed
OpenStep   == Start \/ Connected \/ RunStarted \/ OpenFailed \/ Reconnect
CloseStep  == Disconnected \/ SourceClosed \/ FinishRun
RecvStep   == \/ RecvTrade \/ RecvSnapshot \/ RecvUnsynced \/ RecvFetchFailed
              \/ RecvResyncSent \/ RecvFetchDone \/ RecvApplied \/ RecvCrossed \/ RecvGap
ReplayStep == \/ ReplayDrop \/ ReplayKeep \/ ReplayApplied \/ ReplayCrossed \/ ReplayGap
              \/ ReplayEnd
LoopStep   == EndOfMessage \/ RunUpdated

\* The process has ended and is not started again.
Ended == pc \in {"off", "done"} /\ boots = MaxBoots /\ UNCHANGED vars

Next == \/ VenueStep \/ FetchStep \/ OpenStep \/ CloseStep \/ RecvStep \/ ReplayStep
        \/ LoopStep \/ Stop \/ Crash \/ Ended

\* The event loop schedules every runnable task; connect, close and the
\* database calls have timeouts, so each returns or raises.
Fairness ==
    /\ WF_vars(RecvStep) /\ WF_vars(ReplayStep) /\ WF_vars(LoopStep)
    /\ WF_vars(Connected \/ OpenFailed) /\ WF_vars(RunStarted \/ OpenFailed)
    /\ WF_vars(SourceClosed \/ FinishRun) /\ WF_vars(Reconnect)
    /\ WF_vars(FetchStep)

Spec == Init /\ [][Next]_vars
FairSpec == Spec /\ Fairness

-----------------------------------------------------------------------------
(* What a correct collector promises *)

Event == [kind : {"diff", "snapshot"}, update_id : Ids, first_update_id : OptId,
          prev_update_id : OptId, levels : Levels]
Trade == [kind : {"trade"}, update_id : Nat]
TaskStatus == {"none", "running", "served", "unsubscribed", "done", "failed"}
PCs == {"off", "connect", "start_run", "recv", "tail", "replay", "update_run", "closing",
        "finish_run", "sleep", "done"}
Reasons == {"none", "closed", "error", "shutdown"}
RunRow == [open : BOOLEAN, reason : Reasons \cup {"orphan_closed_on_startup"},
           first : OptId, last : OptId, events : Nat, trades : Nat, resyncs : Nat]
BookEvent == [kind : {"diff", "snapshot"}, applied : BOOLEAN, update_id : Ids,
              first_update_id : OptId, prev_update_id : OptId, levels : Levels,
              top : SUBSET (Prices \X Nat \X Prices \X Nat), since : OptId]
BookSnapshot == [update_id : Ids, reason : {"sync", "resync", "periodic"},
                 ladders : Ladders, since : OptId]

\* Every variable holds a value the code could hold.
FlagsTypeOK ==
    /\ subscribed \in BOOLEAN /\ stopping \in BOOLEAN
    /\ synced \in BOOLEAN /\ awaiting_first \in BOOLEAN
VenueTypeOK ==
    /\ venue_id \in Ids /\ pushed \in 0..venue_id /\ printed \in Nat
    /\ wire \in Seq(Event \cup Trade)
ControlTypeOK ==
    /\ pc \in PCs /\ reason \in Reasons /\ boots \in Nat /\ reconnects \in Nat
SyncTypeOK ==
    /\ ladders \in Ladders /\ update_id \in Ids
    /\ buffer \in Seq(Event) /\ replaying \in Seq(Event) /\ anchor \in OptId
    /\ snapshot_task \in [status : TaskStatus, snapshot : OptId]
    /\ resync_reason \in {"none", "sync", "resync"}
    /\ first_update_id \in OptId
RowsTypeOK ==
    /\ events \in Nat /\ resyncs \in Nat /\ traded \in Nat
    /\ received \in Seq(Ids) /\ trades \in Seq(Nat)
    /\ book_events \in Seq(BookEvent) /\ book_snapshots \in Seq(BookSnapshot)
RunsTypeOK ==
    /\ runs \in Seq(RunRow) /\ run_id \in DOMAIN runs \cup {NoId}

TypeOK == /\ FlagsTypeOK /\ VenueTypeOK /\ ControlTypeOK /\ SyncTypeOK
          /\ RowsTypeOK /\ RunsTypeOK

\* A book the code calls synced is the venue's book at the update id it shows, but
\* for levels that its snapshot did not reach and no message touched since, which
\* are missing: no lost batch, late snapshot, replay or reconnect leaves any other
\* level wrong.  Of an in-band venue nothing is missing.
BookIsTheVenues == synced => Tells(ladders, anchor, update_id, 0)

\* The top of book stored with an applied message quotes what the venue quoted, and
\* is the venue's top unless that lies beyond the reach of the snapshot.
RecordedTopIsTheVenues ==
    \A i \in DOMAIN book_events :
        book_events[i].applied =>
            TopTells(book_events[i].top, book_events[i].since, book_events[i].update_id)

\* Every row of book_snapshots, periodic ones included, understates the venue's book
\* at its update id, and holds each known level among the venue's best KeptLevels.
AnchorsAreTheVenues ==
    \A i \in DOMAIN book_snapshots :
        Tells(book_snapshots[i].ladders, book_snapshots[i].since,
              book_snapshots[i].update_id, KeptLevels)

\* What the collector hands to the writer about the book is the venue's.
RecordIsTheVenues == RecordedTopIsTheVenues /\ AnchorsAreTheVenues

\* The ids of the diffs of a log, and whether they come in order and each once.
DiffIds(log) == {log[i].update_id : i \in {j \in DOMAIN log : log[j].kind = "diff"}}

DiffsInOrder(log) ==
    \A i, j \in DOMAIN log :
        (i < j /\ log[i].kind = "diff" /\ log[j].kind = "diff")
            => log[i].update_id < log[j].update_id

\* The messages recorded, then those waiting for a snapshot, are exactly the
\* messages received, each once and in order ("Nothing is thrown away",
\* README section 3, for a REST venue within a session): the two increase, and
\* have the same ids.
StreamIsRecorded ==
    pc # "off" =>
        LET kept == book_events \o buffer \o replaying
        IN  /\ DiffsInOrder(kept)
            /\ \A i, j \in DOMAIN received : i < j => received[i] < received[j]
            /\ DiffIds(kept) = {received[i] : i \in DOMAIN received}

\* Across gaps, resyncs and reconnects the diffs of one process are recorded in
\* the order they came and none twice.
RecordedInOrder == DiffsInOrder(book_events)

\* Whatever is lost, late or replayed, a reader of the book sees only what LiveBook
\* allows: each book it holds is begun from the venue's book at the snapshot's id and
\* takes over every change from there to the id it shows, that id never goes back while
\* the process lives (so no snapshot older than the book is adopted), a diff is followed
\* only by a synced book, and a crossed one is not synced.
Live == INSTANCE LiveBook WITH up <- pc \notin {"off", "done"}
LiveSpec == Live!Spec

\* An unsynced session is never stranded: a snapshot is being fetched, has been,
\* or is on the wire.
ResyncUnderWay ==
    (pc \in {"recv", "tail", "replay", "update_run"} /\ ~synced) =>
        IF InBand
        THEN \/ snapshot_task.status \in {"running", "unsubscribed"}
             \/ \E i \in DOMAIN wire : wire[i].kind = "snapshot"
        ELSE snapshot_task.status # "none"

\* "resyncs ... every one of them marks a sequence gap the venue protocol told us
\* about" (db/init/02-create-schema.sql): a session that lost nothing has none.
ResyncMeansLoss == resyncs = 0

\* A row of stream_runs without disconnected_at belongs to the session that is
\* alive, or to a process that is stopping or dead.
OpenRowIsTheSession ==
    \A i \in DOMAIN runs : runs[i].open => (i = run_id \/ stopping \/ pc = "off")

\* "The space between two rows is a DECLARED gap": the id ranges of two sessions
\* do not overlap, across crashes and restarts too.
SessionsDoNotOverlap ==
    \A i, j \in DOMAIN runs :
        (i < j /\ runs[i].last # NoId /\ runs[j].first # NoId) => runs[i].last <= runs[j].first

\* A closed row is final: no late refresh rewrites a declared boundary.
ClosedRowsAreFinal ==
    [][\A i \in DOMAIN runs : ~runs[i].open => runs'[i] = runs[i]]_vars

\* A stop is never swallowed by a reconnect or a database call.
StopEnds == stopping ~> pc = "done"

\* A session that ended is followed by the next attempt, unless it is stopped.
SessionIsReopened ==
    (pc = "closing" /\ reconnects < MaxReconnects) ~> (pc = "connect" \/ stopping)

-----------------------------------------------------------------------------
(* The inductive invariant: a message handled is one the venue sent, an anchor is *)
(* a real update id, and a row already handed over was true.                      *)

\* What the venue may have said: its diffs, its in-band snapshots, its trades.
GenuineDiffs ==
    {ev \in Event : /\ ev.kind = "diff"
                    /\ \E prev \in Ids : /\ prev < ev.update_id
                                         /\ ev \in DiffEvents(prev, ev.update_id)}
GenuineSnapshots == {SnapshotEvent(n) : n \in Ids}
GenuineMessages  == GenuineDiffs \cup GenuineSnapshots \cup Trade

\* Rows that say what the venue's book was.
TrueEvents ==
    {row \in BookEvent : row.applied => TopTells(row.top, row.since, row.update_id)}
TrueSnapshots ==
    {row \in BookSnapshot : Tells(row.ladders, row.since, row.update_id, KeptLevels)}

MessagesAreGenuine ==
    /\ wire \in Seq(GenuineMessages)
    /\ buffer \in Seq(GenuineDiffs) /\ replaying \in Seq(GenuineDiffs)

\* During a replay the book is still at the snapshot until a diff joins on.
ReplayStartsAtAnchor ==
    pc = "replay" => anchor \in Ids /\ ((awaiting_first /\ synced) => update_id = anchor)

RowsAreTrue ==
    book_events \in Seq(TrueEvents) /\ book_snapshots \in Seq(TrueSnapshots)

\* What every step preserves, and BookIsTheVenues and RecordIsTheVenues follow from.
IInv == /\ TypeOK
        /\ MessagesAreGenuine
        /\ ReplayStartsAtAnchor
        /\ BookIsTheVenues
        /\ RowsAreTrue

=============================================================================
