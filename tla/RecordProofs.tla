---------------------------- MODULE RecordProofs ----------------------------
(***************************************************************************)
(* What a collector leaves behind, for every venue, history and fault: the *)
(* rows of stream_runs, the order and the completeness of the rows of      *)
(* book_events, and that an unsynced session always has a snapshot to wait *)
(* for.                                                                    *)
(*                                                                         *)
(* None of these is inductive.  The boundaries of two sessions do not      *)
(* overlap because every snapshot that may open the next one, served,      *)
(* answered or on the wire, is no older than all that earlier rows claim;  *)
(* the rows of book_events are in order because rows, buffer, replay and   *)
(* wire are four pieces of one stream; and none is missing because what    *)
(* was received is, id by id, recorded, buffered or left to replay.        *)
(***************************************************************************)
EXTENDS StreamCollectorProofs

\* The message loop: from the first recv to the end of the session.
Loop == {"recv", "tail", "replay", "update_run"}

-----------------------------------------------------------------------------
(* An unsynced session is never stranded *)

SnapshotComes(w) == \E i \in DOMAIN w : w[i].kind = "snapshot"

\* A REST answer has an id; only a failed resubscription fails an in-band task;
\* an in-band session opens with its snapshot on the wire.
AnswerHasId == ~InBand /\ snapshot_task.status \in {"served", "done"}
                  => snapshot_task.snapshot # NoId
InBandNeverFails == InBand => snapshot_task.status # "failed"
OpensWithSnapshot == InBand /\ pc = "start_run" => SnapshotComes(wire)

FetchInv == AnswerHasId /\ InBandNeverFails /\ OpensWithSnapshot /\ ResyncUnderWay

\* A snapshot stays on the wire until it is at its head.
LEMMA SnapshotStays ==
    ASSUME NEW s \in Seq(Event \cup Trade)
    PROVE  /\ \A ev : SnapshotComes(s) \/ ev.kind = "snapshot" => SnapshotComes(Append(s, ev))
           /\ s # <<>> /\ SnapshotComes(s) /\ Head(s).kind # "snapshot" => SnapshotComes(Tail(s))
<1>1. ASSUME NEW ev, SnapshotComes(s) \/ ev.kind = "snapshot"
      PROVE  SnapshotComes(Append(s, ev))
  <2> DEFINE t == Append(s, ev)
  <2>1. /\ Len(s) \in Nat /\ DOMAIN s = 1..Len(s) /\ DOMAIN t = 1..Len(s) + 1
        /\ t[Len(s) + 1] = ev /\ \A i \in DOMAIN s : t[i] = s[i]
    OBVIOUS
  <2> HIDE DEF t
  <2>2. SnapshotComes(t)
    BY <1>1, <2>1 DEF SnapshotComes
  <2> QED BY <2>2 DEF t
<1>2. ASSUME s # <<>>, SnapshotComes(s), Head(s).kind # "snapshot"
      PROVE  SnapshotComes(Tail(s))
  <2>1. PICK i \in DOMAIN s : s[i].kind = "snapshot"
    BY <1>2 DEF SnapshotComes
  <2>2. i # 1 /\ i - 1 \in DOMAIN Tail(s) /\ Tail(s)[i - 1] = s[i]
    BY <1>2, <2>1
  <2> QED BY <2>1, <2>2 DEF SnapshotComes
<1> QED BY <1>1, <1>2

\* A step that leaves the snapshot task alone and keeps a snapshot on the wire.
LEMMA FetchUntouched ==
    ASSUME FetchInv, UNCHANGED snapshot_task, SnapshotComes(wire) => SnapshotComes(wire'),
           pc' \in Loop => pc \in Loop /\ (synced => synced'),
           pc' = "start_run" => pc = "start_run"
    PROVE  FetchInv'
<1>1. AnswerHasId' /\ InBandNeverFails' /\ OpensWithSnapshot'
  BY DEF FetchInv, AnswerHasId, InBandNeverFails, OpensWithSnapshot, SnapshotComes, InBand
<1>2. ResyncUnderWay'
  BY DEF FetchInv, ResyncUnderWay, SnapshotComes, InBand, Loop
<1> QED BY <1>1, <1>2 DEF FetchInv

\* No session, no task.
LEMMA FetchEnds ==
    ASSUME snapshot_task' = NoTask, pc' \notin Loop, pc' # "start_run"
    PROVE  FetchInv'
BY DEF FetchInv, AnswerHasId, InBandNeverFails, OpensWithSnapshot, ResyncUnderWay, NoTask, Loop

\* A fetch that has just been started.
LEMMA FetchStarts ==
    ASSUME snapshot_task' = Started, pc' # "start_run"
    PROVE  FetchInv'
BY DEF FetchInv, AnswerHasId, InBandNeverFails, OpensWithSnapshot, ResyncUnderWay, Started

\* A book that has just been adopted.
LEMMA FetchIsOver ==
    ASSUME FetchInv, snapshot_task' = snapshot_task \/ snapshot_task' = NoTask, synced',
           pc' # "start_run"
    PROVE  FetchInv'
BY DEF FetchInv, AnswerHasId, InBandNeverFails, OpensWithSnapshot, ResyncUnderWay, NoTask, InBand

\* The fetch invariant is preserved while no resubscription fails.
LEMMA FetchInvKept ==
    ASSUME IInv, RInv, FetchInv, ~InBand \/ "resubscribe" \notin Faults, [Next]_vars
    PROVE  FetchInv'
<1>a. Typed
  BY TypedFollows
<1>b. wire \in Seq(Event \cup Trade) /\ venue_id \in Nat
  BY <1>a DEF Typed
<1>1. CASE VenueStep
  <2>1. UNCHANGED <<snapshot_task, synced, pc>>
    BY <1>1 DEF VenueStep, VenueUpdate, VenuePush, VenueTrade, control, ob, task
  <2>2. wire' = wire \/ \E ev : wire' = Append(wire, ev)
    BY <1>1 DEF VenueStep, VenueUpdate, VenuePush, VenueTrade, socket
  <2>3. SnapshotComes(wire) => SnapshotComes(wire')
    BY <1>b, <2>2, SnapshotStays
  <2> QED BY <2>1, <2>3, FetchUntouched
<1>2. CASE FetchServed \/ FetchAnswered \/ FetchFailed
  <2>1. /\ UNCHANGED <<wire, synced, pc>>
        /\ snapshot_task.status \in {"running", "served"}
        /\ \/ ~InBand /\ snapshot_task' = Served(venue_id)
           \/ snapshot_task.status = "served" /\ snapshot_task' = Done(snapshot_task.snapshot)
           \/ ~InBand /\ snapshot_task' = Failed
    BY <1>2 DEF FetchServed, FetchAnswered, FetchFailed, socket, control, ob
  <2>2. venue_id # NoId
    BY <1>b DEF NoId
  <2>3. CASE ~InBand
    BY <2>1, <2>2, <2>3 DEF FetchInv, AnswerHasId, InBandNeverFails, OpensWithSnapshot,
                            ResyncUnderWay, InBand, Served, Done, Failed
  <2>4. CASE InBand
    BY <2>1, <2>4 DEF FetchInv, AnswerHasId, InBandNeverFails, OpensWithSnapshot,
                      ResyncUnderWay, InBand, SnapshotComes, Done
  <2> QED BY <2>3, <2>4
<1>3. CASE Unsubscribe
  <2>1. UNCHANGED <<wire, synced, pc>> /\ InBand /\ snapshot_task' = Unsubscribed
    BY <1>3 DEF Unsubscribe, control, ob
  <2> QED BY <2>1 DEF FetchInv, AnswerHasId, InBandNeverFails, OpensWithSnapshot,
                      ResyncUnderWay, InBand, SnapshotComes, Unsubscribed
<1>4. CASE Resubscribe
  <2>1. /\ snapshot_task.status = "unsubscribed" /\ snapshot_task' = Done(NoId)
        /\ wire' = Append(wire, SnapshotEvent(pushed))
    BY <1>4 DEF Resubscribe
  <2>2. InBand
    BY <2>1 DEF RInv, AnswerIsAhead, TaskIsAhead
  <2>3. SnapshotComes(wire')
    <3>1. SnapshotEvent(pushed).kind = "snapshot"
      BY DEF SnapshotEvent
    <3> QED BY <1>b, <2>1, <3>1, SnapshotStays
  <2> QED BY <2>1, <2>2, <2>3 DEF FetchInv, AnswerHasId, InBandNeverFails, OpensWithSnapshot,
                                  ResyncUnderWay, InBand, SnapshotComes, Done
<1>5. CASE ResubscribeFailed
  BY <1>5 DEF ResubscribeFailed
<1>6. CASE Start \/ OpenFailed \/ Disconnected
  BY <1>6, FetchEnds DEF Start, OpenSession, OpenFailed, Disconnected, CloseSession, Loop
<1>7. CASE Connected
  <2>1. /\ UNCHANGED <<snapshot_task, synced>> /\ pc' = "start_run"
        /\ wire' = IF InBand THEN <<SnapshotEvent(pushed)>> ELSE <<>>
    BY <1>7 DEF Connected, ob, task
  <2>2. InBand => SnapshotComes(wire')
    <3>1. SnapshotEvent(pushed).kind = "snapshot"
      BY DEF SnapshotEvent
    <3> QED BY <2>1, <3>1 DEF SnapshotComes
  <2> QED BY <2>1, <2>2 DEF FetchInv, AnswerHasId, InBandNeverFails, OpensWithSnapshot,
                            ResyncUnderWay, InBand, SnapshotComes
<1>8. CASE RunStarted
  <2>1. /\ UNCHANGED <<wire, synced>> /\ pc = "start_run" /\ pc' = "recv"
        /\ snapshot_task' = IF InBand THEN snapshot_task
                            ELSE IF snapshot_task.status \in {"running", "served"}
                                 THEN snapshot_task ELSE Started
    BY <1>8 DEF RunStarted, StartSnapshotFetch, socket, ob
  <2>2. CASE InBand
    BY <2>1, <2>2 DEF FetchInv, AnswerHasId, InBandNeverFails, OpensWithSnapshot,
                      ResyncUnderWay, InBand, SnapshotComes
  <2>3. CASE ~InBand
    BY <2>1, <2>3 DEF FetchInv, AnswerHasId, InBandNeverFails, OpensWithSnapshot,
                      ResyncUnderWay, InBand, Started
  <2> QED BY <2>2, <2>3
<1>9. CASE Reconnect \/ SourceClosed \/ FinishRun
  <2>1. UNCHANGED <<snapshot_task, wire>> /\ pc' \in {"connect", "sleep", "done", "finish_run"}
    BY <1>9 DEF Reconnect, OpenSession, SourceClosed, FinishRun, AfterClose, socket, task
  <2> QED BY <2>1, FetchUntouched DEF Loop
<1>10. CASE LoopStep \/ ReplayEnd \/ ReplayDrop \/ ReplayKeep
  <2>1. UNCHANGED <<snapshot_task, wire, synced>> /\ pc \in Loop /\ pc' \in Loop
    BY <1>10 DEF LoopStep, EndOfMessage, RunUpdated, ReplayEnd, ReplayDrop, ReplayKeep,
                 ReplayNext, socket, control, ob, task, Loop
  <2> QED BY <2>1, FetchUntouched DEF Loop
<1>11. CASE Stop
  <2>1. \/ snapshot_task' = NoTask /\ pc' = "closing"
        \/ UNCHANGED <<snapshot_task, wire>> /\ pc' = "done"
    BY <1>11 DEF Stop, CloseSession, socket
  <2> QED BY <2>1, FetchEnds, FetchUntouched DEF Loop
<1>12. CASE Crash \/ UNCHANGED vars
  <2>1. UNCHANGED <<snapshot_task, wire, synced>> /\ (pc' = pc \/ pc' = "off")
    BY <1>12 DEF Crash, vars, socket, control, ob, task
  <2> QED BY <2>1, FetchUntouched DEF Loop
<1>13. CASE RecvTrade \/ RecvUnsynced \/ RecvApplied
  <2>1. /\ UNCHANGED <<snapshot_task, synced>> /\ pc = "recv" /\ pc' = "tail"
        /\ wire # <<>> /\ wire' = Tail(wire) /\ Head(wire).kind # "snapshot"
    BY <1>13 DEF RecvTrade, RecvUnsynced, RecvApplied, ReceiveDepth, Receive, ob, task
  <2> QED BY <1>b, <2>1, SnapshotStays, FetchUntouched DEF Loop
<1>14. CASE RecvSnapshot \/ RecvFetchDone
  <2>1. /\ snapshot_task' = snapshot_task \/ snapshot_task' = NoTask
        /\ synced' /\ pc' # "start_run"
    BY <1>14 DEF RecvSnapshot, RecvFetchDone, Adopt, task
  <2> QED BY <2>1, FetchIsOver
<1>15. CASE RecvFetchFailed
  <2>1. /\ snapshot_task.status = "failed" /\ pc' = "tail"
        /\ snapshot_task' = IF InBand /\ resync_reason = "sync" THEN NoTask ELSE Started
    BY <1>15 DEF RecvFetchFailed
  <2>2. ~InBand
    BY <2>1 DEF FetchInv, InBandNeverFails
  <2> QED BY <2>1, <2>2, FetchStarts
<1>16. CASE RecvResyncSent
  <2>1. /\ snapshot_task = Done(NoId) /\ ~synced /\ synced' = synced /\ pc = "recv"
        /\ pc' = "tail" /\ wire # <<>> /\ wire' = Tail(wire) /\ Head(wire).kind # "snapshot"
        /\ snapshot_task' = NoTask
    BY <1>16 DEF RecvResyncSent, ReceiveDepth, Receive, ob
  <2>2. InBand
    BY <2>1 DEF FetchInv, AnswerHasId, Done
  <2>3. SnapshotComes(wire)
    BY <2>1, <2>2 DEF FetchInv, ResyncUnderWay, SnapshotComes, Done
  <2>4. SnapshotComes(wire')
    BY <1>b, <2>1, <2>3, SnapshotStays
  <2> QED BY <2>1, <2>2, <2>4 DEF FetchInv, AnswerHasId, InBandNeverFails, OpensWithSnapshot,
                                  ResyncUnderWay, InBand, SnapshotComes, NoTask
<1>17. CASE RecvCrossed \/ RecvGap \/ ReplayCrossed \/ ReplayGap
  <2>1. /\ pc' \in {"tail", "replay"}
        /\ snapshot_task' = IF ~InBand /\ snapshot_task.status \in {"running", "served"}
                            THEN snapshot_task ELSE Started
    BY <1>17 DEF RecvCrossed, RecvGap, ReplayCrossed, ReplayGap, ReplayJoins, ReplayNext, Gap,
                 StartSnapshotFetch, control
  <2>2. CASE ~InBand /\ snapshot_task.status \in {"running", "served"}
    BY <2>1, <2>2 DEF FetchInv, AnswerHasId, InBandNeverFails, OpensWithSnapshot,
                      ResyncUnderWay, InBand
  <2>3. CASE ~(~InBand /\ snapshot_task.status \in {"running", "served"})
    BY <2>1, <2>3, FetchStarts
  <2> QED BY <2>2, <2>3
<1>18. CASE ReplayApplied
  <2>1. UNCHANGED snapshot_task /\ synced' /\ pc' # "start_run"
    BY <1>18 DEF ReplayApplied, ReplayJoins, ReplayNext, task, control
  <2> QED BY <2>1, FetchIsOver
<1> QED
  BY <1>1, <1>2, <1>3, <1>4, <1>5, <1>6, <1>7, <1>8, <1>9, <1>10, <1>11, <1>12, <1>13, <1>14,
     <1>15, <1>16, <1>17, <1>18
  DEF Next, FetchStep, OpenStep, CloseStep, RecvStep, ReplayStep, Ended

\* Whatever the venue loses and however often a fetch fails, a session whose book is
\* not trusted is waiting for a snapshot that is asked for or on its way: in band as
\* long as no send of a resubscription raises, which only a dying socket does.
THEOREM NeverStranded ==
    ASSUME ~InBand \/ "resubscribe" \notin Faults
    PROVE  Spec => []ResyncUnderWay
<1>1. Init => FetchInv
  BY DEF Init, FetchInv, AnswerHasId, InBandNeverFails, OpensWithSnapshot, ResyncUnderWay, NoTask
<1>2. IInv /\ RInv /\ FetchInv /\ [Next]_vars => FetchInv'
  BY FetchInvKept
<1>3. FetchInv => ResyncUnderWay
  BY DEF FetchInv
<1> QED BY <1>1, <1>2, <1>3, Inductive, NothingIsBehind, PTL DEF Spec

-----------------------------------------------------------------------------
(* A session has one row, and closes it once *)

\* Outside a session there is no row; in one it is the last of the table, and open.
NoRowYet == pc \in {"connect", "start_run", "sleep"} => run_id = NoId
RowInHand == pc \in Loop \cup {"finish_run"} => run_id # NoId
RowIsLast == run_id # NoId => run_id = Len(runs)
RowIsOpen == (run_id # NoId /\ pc \notin {"off", "done"}) => runs[run_id].open

\* A session that ended has nothing on its way; one that opens has no first id.
NothingPending ==
    /\ pc \in {"closing", "finish_run", "sleep"} =>
          snapshot_task = NoTask /\ wire = <<>> /\ subscribed = FALSE
    /\ pc \in {"connect", "start_run"} => first_update_id = NoId

RowInv == NoRowYet /\ RowInHand /\ RowIsLast /\ RowIsOpen /\ NothingPending

\* The table and the row a collector holds.
LEMMA RowsTyped ==
    ASSUME IInv
    PROVE  /\ runs \in Seq(RunRow) /\ Len(runs) \in Nat /\ DOMAIN runs = 1..Len(runs)
           /\ run_id # NoId => run_id \in DOMAIN runs
           /\ Len(runs) + 1 # NoId
           /\ Append(runs, NewRun) \in Seq(RunRow) /\ Len(Append(runs, NewRun)) = Len(runs) + 1
           /\ Append(runs, NewRun)[Len(runs) + 1] = NewRun
           /\ \A i \in DOMAIN runs : Append(runs, NewRun)[i] = runs[i]
<1>1. runs \in Seq(RunRow) /\ (run_id # NoId => run_id \in DOMAIN runs)
  BY DEF IInv, TypeOK, RunsTypeOK
<1>2. NewRun \in RunRow
  BY RunRowsType
<1> QED BY <1>1, <1>2 DEF NoId

\* One row is rewritten.
LEMMA RowRewritten ==
    ASSUME IInv, NEW r
    PROVE  LET t == [runs EXCEPT ![run_id] = r]
           IN  /\ DOMAIN t = DOMAIN runs /\ Len(t) = Len(runs)
               /\ run_id # NoId => t[run_id] = r
               /\ \A i \in DOMAIN runs : i # run_id => t[i] = runs[i]
<1> DEFINE t == [runs EXCEPT ![run_id] = r]
<1>1. runs \in Seq(RunRow) /\ (run_id # NoId => run_id \in DOMAIN runs)
  BY RowsTyped
<1>2. DOMAIN t = DOMAIN runs /\ Len(t) = Len(runs)
  BY <1>1
<1>3. run_id # NoId => t[run_id] = r
  BY <1>1
<1>4. \A i \in DOMAIN runs : i # run_id => t[i] = runs[i]
  BY <1>1
<1> QED BY <1>2, <1>3, <1>4

\* A step that leaves the table and the row alone.
LEMMA RowUntouched ==
    ASSUME RowInv, UNCHANGED <<run_id, runs>>, NothingPending',
           pc' \in {"connect", "start_run", "sleep"} =>
              run_id = NoId \/ pc \in {"connect", "start_run", "sleep"},
           pc' \in Loop \cup {"finish_run"} => run_id # NoId \/ pc \in Loop \cup {"finish_run"},
           pc \in {"off", "done"} => pc' \in {"off", "done"}
    PROVE  RowInv'
<1>1. NoRowYet' /\ RowInHand' /\ RowIsLast' /\ RowIsOpen'
  BY DEF RowInv, NoRowYet, RowInHand, RowIsLast, RowIsOpen
<1> QED BY <1>1 DEF RowInv

\* The row in hand is refreshed, or closed with the process that held it.
LEMMA RowRefreshed ==
    ASSUME IInv, RowInv, UNCHANGED run_id, NothingPending', NEW r,
           runs' = [runs EXCEPT ![run_id] = r], run_id # NoId,
           \/ pc' \in Loop \cup {"closing"} /\ r.open = runs[run_id].open /\ pc \in Loop
           \/ pc' = "done"
    PROVE  RowInv'
<1>1. Len(runs') = Len(runs) /\ runs'[run_id] = r
  BY RowRewritten
<1>2. NoRowYet' /\ RowInHand' /\ RowIsLast' /\ RowIsOpen'
  BY <1>1 DEF RowInv, NoRowYet, RowInHand, RowIsLast, RowIsOpen, Loop
<1> QED BY <1>2 DEF RowInv

\* A row is closed, or left open by a failed statement, at the end of its session.
LEMMA RowLeft ==
    ASSUME run_id' = NoId, NothingPending', pc' \notin Loop \cup {"finish_run"}
    PROVE  RowInv'
BY DEF RowInv, NoRowYet, RowInHand, RowIsLast, RowIsOpen

\* The row invariant is preserved.
LEMMA RowInvKept == IInv /\ RInv /\ RowInv /\ [Next]_vars => RowInv'
<1> SUFFICES ASSUME IInv, RInv, RowInv, [Next]_vars PROVE RowInv'
  OBVIOUS
<1>a. NothingPending /\ NoRowYet /\ RowInHand
  BY DEF RowInv
<1>1. CASE VenueStep
  <2>1. UNCHANGED <<run_id, runs, pc, snapshot_task, subscribed, first_update_id>>
    BY <1>1 DEF VenueStep, VenueUpdate, VenuePush, VenueTrade, socket, control, task, run
  <2>2. subscribed = FALSE /\ pc \in {"closing", "finish_run", "sleep"} => wire' = wire
    BY <1>1 DEF VenueStep, VenueUpdate, VenuePush, VenueTrade, socket, InSession
  <2>3. NothingPending'
    BY <1>a, <2>1, <2>2 DEF NothingPending
  <2> QED BY <2>1, <2>3, RowUntouched
<1>2. CASE FetchStep
  <2>1. UNCHANGED <<run_id, runs, pc, first_update_id>> /\ snapshot_task.status # "none"
    BY <1>2 DEF FetchStep, FetchServed, FetchAnswered, FetchFailed, Unsubscribe, Resubscribe,
                ResubscribeFailed, control, run
  <2>2. NothingPending'
    BY <1>a, <2>1 DEF NothingPending, NoTask
  <2> QED BY <2>1, <2>2, RowUntouched
<1>3. CASE Start
  <2>1. run_id' = NoId /\ pc' = "connect" /\ first_update_id' = NoId
    BY <1>3 DEF Start, OpenSession
  <2>2. NothingPending'
    BY <2>1 DEF NothingPending
  <2> QED BY <2>1, <2>2, RowLeft DEF Loop
<1>4. CASE Connected
  <2>1. /\ UNCHANGED <<run_id, runs, first_update_id>>
        /\ pc = "connect" /\ pc' = "start_run"
    BY <1>4 DEF Connected, run
  <2>2. NothingPending'
    BY <1>a, <2>1 DEF NothingPending
  <2> QED BY <2>1, <2>2, RowUntouched DEF Loop
<1>5. CASE RunStarted
  <2>1. /\ runs' = Append(runs, NewRun) /\ run_id' = Len(runs) + 1 /\ pc' = "recv"
    BY <1>5 DEF RunStarted
  <2>2. /\ Len(runs') = run_id' /\ runs'[run_id'] = NewRun /\ run_id' # NoId
    BY <2>1, RowsTyped
  <2>3. NewRun.open
    BY DEF NewRun
  <2> QED BY <2>1, <2>2, <2>3
          DEF RowInv, NoRowYet, RowInHand, RowIsLast, RowIsOpen, NothingPending, Loop
<1>6. CASE OpenFailed
  <2>1. /\ run_id' = run_id /\ pc \in {"connect", "start_run"} /\ pc' = "closing"
        /\ snapshot_task' = NoTask /\ wire' = <<>> /\ subscribed' = FALSE
    BY <1>6 DEF OpenFailed, CloseSession
  <2>2. run_id' = NoId /\ NothingPending'
    BY <1>a, <2>1 DEF NoRowYet, NothingPending
  <2> QED BY <2>1, <2>2, RowLeft DEF Loop
<1>7. CASE Reconnect
  <2>1. UNCHANGED <<run_id, runs>> /\ pc = "sleep" /\ pc' = "connect" /\ first_update_id' = NoId
    BY <1>7 DEF Reconnect, OpenSession, run
  <2>2. NothingPending'
    BY <2>1 DEF NothingPending
  <2> QED BY <2>1, <2>2, RowUntouched DEF Loop
<1>8. CASE Disconnected
  <2>1. /\ UNCHANGED <<run_id, runs>> /\ pc = "recv" /\ pc' = "closing"
        /\ snapshot_task' = NoTask /\ wire' = <<>> /\ subscribed' = FALSE
    BY <1>8 DEF Disconnected, CloseSession, run
  <2>2. NothingPending'
    BY <2>1 DEF NothingPending
  <2> QED BY <2>1, <2>2, RowUntouched DEF Loop
<1>9. CASE SourceClosed
  <2>1. /\ UNCHANGED <<run_id, runs, snapshot_task, wire, subscribed>> /\ pc = "closing"
        /\ IF run_id = NoId THEN pc' \in {"done", "sleep"} ELSE pc' = "finish_run"
    BY <1>9 DEF SourceClosed, AfterClose, socket, task, run
  <2>2. NothingPending'
    BY <1>a, <2>1 DEF NothingPending
  <2> QED BY <2>1, <2>2, RowUntouched DEF Loop
<1>10. CASE FinishRun
  <2>1. /\ UNCHANGED <<snapshot_task, wire, subscribed>> /\ pc = "finish_run"
        /\ run_id' = NoId /\ pc' \in {"done", "sleep"}
    BY <1>10 DEF FinishRun, AfterClose, socket, task
  <2>2. NothingPending'
    BY <1>a, <2>1 DEF NothingPending
  <2> QED BY <2>1, <2>2, RowLeft DEF Loop
<1>11. CASE RecvStep \/ ReplayStep \/ EndOfMessage
  <2>1. UNCHANGED <<run_id, runs>> /\ pc \in Loop /\ pc' \in Loop
    BY <1>11 DEF RecvStep, RecvTrade, RecvSnapshot, RecvUnsynced, RecvFetchFailed,
         RecvResyncSent, RecvFetchDone, RecvApplied, RecvCrossed, RecvGap, ReceiveDepth, Receive,
         ReplayStep, ReplayDrop, ReplayKeep, ReplayApplied, ReplayCrossed, ReplayGap, ReplayEnd,
         ReplayJoins, ReplayNext, EndOfMessage, control, run, Loop
  <2>2. NothingPending'
    BY <2>1 DEF NothingPending, Loop
  <2> QED BY <2>1, <2>2, RowUntouched DEF Loop
<1>12. CASE RunUpdated
  <2>1. /\ run_id' = run_id /\ pc = "update_run" /\ pc' = "recv"
        /\ runs' = runs \/ runs' = [runs EXCEPT ![run_id] = UpdatedRow(@)]
    BY <1>12 DEF RunUpdated
  <2>2. NothingPending' /\ run_id # NoId
    BY <1>a, <2>1 DEF NothingPending, RowInHand, Loop
  <2>3. CASE runs' = runs
    BY <2>1, <2>2, <2>3, RowUntouched DEF Loop
  <2>4. CASE runs' = [runs EXCEPT ![run_id] = UpdatedRow(@)]
    <3>1. UpdatedRow(runs[run_id]).open = runs[run_id].open
      BY DEF UpdatedRow
    <3> QED BY <2>1, <2>2, <2>4, <3>1, RowRefreshed DEF Loop
  <2> QED BY <2>1, <2>3, <2>4
<1>13. CASE Stop
  <2>1. CASE InSession /\ CloseSession("shutdown")
    <3>1. /\ run_id' = run_id /\ pc' = "closing"
          /\ snapshot_task' = NoTask /\ wire' = <<>> /\ subscribed' = FALSE
          /\ \/ runs' = runs /\ pc \in {"connect", "start_run", "recv", "update_run"}
             \/ pc = "start_run"
             \/ pc = "update_run" /\ runs' = [runs EXCEPT ![run_id] = UpdatedRow(@)]
      BY <1>13, <2>1 DEF Stop, CloseSession, InSession
    <3>2. NothingPending'
      BY <3>1 DEF NothingPending
    <3>3. CASE runs' = runs /\ pc \in {"connect", "start_run", "recv", "update_run"}
      BY <3>1, <3>2, <3>3, RowUntouched DEF Loop
    <3>4. CASE pc = "start_run"
      <4>1. run_id' = NoId
        BY <1>a, <3>1, <3>4 DEF NoRowYet
      <4> QED BY <3>1, <3>2, <4>1, RowLeft DEF Loop
    <3>5. CASE pc = "update_run" /\ runs' = [runs EXCEPT ![run_id] = UpdatedRow(@)]
      <4>1. UpdatedRow(runs[run_id]).open = runs[run_id].open
        BY DEF UpdatedRow
      <4>2. run_id # NoId /\ pc \in Loop
        BY <1>a, <3>5 DEF RowInHand, Loop
      <4> QED BY <3>1, <3>2, <3>5, <4>1, <4>2, RowRefreshed
    <3> QED BY <3>1, <3>3, <3>4, <3>5
  <2>2. CASE ~(InSession /\ CloseSession("shutdown"))
    <3>1. /\ run_id' = run_id /\ pc' = "done"
          /\ \/ runs' = runs
             \/ pc = "finish_run" /\ runs' = [runs EXCEPT ![run_id] = FinishedRow(@)]
      BY <1>13, <2>2 DEF Stop
    <3>2. NothingPending'
      BY <3>1 DEF NothingPending
    <3>3. CASE runs' = runs
      BY <3>1, <3>2, <3>3, RowUntouched DEF Loop
    <3>4. CASE pc = "finish_run" /\ runs' = [runs EXCEPT ![run_id] = FinishedRow(@)]
      <4>1. run_id # NoId
        BY <1>a, <3>4 DEF RowInHand
      <4> QED BY <3>1, <3>2, <3>4, <4>1, RowRefreshed
    <3> QED BY <3>1, <3>3, <3>4
  <2> QED BY <2>1, <2>2
<1>14. CASE Crash \/ UNCHANGED vars
  <2>1. /\ UNCHANGED <<run_id, runs, snapshot_task, wire, subscribed, first_update_id>>
        /\ pc' = pc \/ pc' = "off"
    BY <1>14 DEF Crash, vars, socket, control, task, run
  <2>2. NothingPending'
    BY <1>a, <2>1 DEF NothingPending
  <2> QED BY <2>1, <2>2, RowUntouched DEF Loop
<1> QED BY <1>1, <1>2, <1>3, <1>4, <1>5, <1>6, <1>7, <1>8, <1>9, <1>10, <1>11, <1>12, <1>13, <1>14
        DEF Next, OpenStep, CloseStep, LoopStep, Ended

LEMMA InitRowInv == Init => RowInv
BY DEF Init, RowInv, NoRowYet, RowInHand, RowIsLast, RowIsOpen, NothingPending, Loop, NoTask

\* RowInv is an invariant of the collector.
THEOREM RowsInductive == Spec => []RowInv
BY InitRowInv, RowInvKept, Inductive, NothingIsBehind, PTL DEF Spec

\* How a step may change the table: the orphans of the last process are closed, a
\* row is added, the row in hand is refreshed or closed.
LEMMA TableSteps ==
    ASSUME [Next]_vars
    PROVE  \/ runs' = runs
           \/ Start /\ runs' = CloseOrphans(runs)
           \/ /\ pc = "start_run" /\ runs' = Append(runs, NewRun)
              /\ "db" \notin Faults => RunStarted \/ stopping'
           \/ pc = "update_run" /\ runs' = [runs EXCEPT ![run_id] = UpdatedRow(@)]
           \/ pc = "finish_run" /\ runs' = [runs EXCEPT ![run_id] = FinishedRow(@)]
<1>1. CASE VenueStep \/ FetchStep \/ Connected \/ Reconnect \/ Disconnected \/ SourceClosed
           \/ EndOfMessage \/ Crash \/ UNCHANGED vars
  <2>1. runs' = runs
    BY <1>1 DEF VenueStep, VenueUpdate, VenuePush, VenueTrade, FetchStep, FetchServed,
       FetchAnswered, FetchFailed, Unsubscribe, Resubscribe, ResubscribeFailed, Connected,
       Reconnect, Disconnected, SourceClosed, EndOfMessage, Crash, vars, run
  <2> QED BY <2>1
<1>2. CASE RecvStep
  <2>1. runs' = runs
    BY <1>2 DEF RecvStep, RecvTrade, RecvSnapshot, RecvUnsynced, RecvFetchFailed, RecvResyncSent,
       RecvFetchDone, RecvApplied, RecvCrossed, RecvGap, ReceiveDepth, Receive, run
  <2> QED BY <2>1
<1>3. CASE ReplayStep
  <2>1. runs' = runs
    BY <1>3 DEF ReplayStep, ReplayDrop, ReplayKeep, ReplayApplied, ReplayCrossed, ReplayGap,
       ReplayEnd, ReplayJoins, ReplayNext, run
  <2> QED BY <2>1
<1>4. CASE Start
  BY <1>4 DEF Start
<1>5. CASE RunStarted
  BY <1>5 DEF RunStarted
<1>6. CASE OpenFailed
  BY <1>6 DEF OpenFailed
<1>7. CASE FinishRun
  BY <1>7 DEF FinishRun
<1>8. CASE RunUpdated
  BY <1>8 DEF RunUpdated
<1>9. CASE Stop
  BY <1>9 DEF Stop
<1> QED BY <1>1, <1>2, <1>3, <1>4, <1>5, <1>6, <1>7, <1>8, <1>9
        DEF Next, OpenStep, CloseStep, LoopStep, Ended

\* No step rewrites a closed row: what is refreshed or closed is the row in hand, and
\* that one is open.
LEMMA ClosedRowsStay ==
    ASSUME IInv, RowInv, [Next]_vars
    PROVE  \A i \in DOMAIN runs : ~runs[i].open => runs'[i] = runs[i]
<1> SUFFICES ASSUME NEW i \in DOMAIN runs, ~runs[i].open PROVE runs'[i] = runs[i]
  OBVIOUS
<1>1. CASE Start /\ runs' = CloseOrphans(runs)
  BY <1>1 DEF CloseOrphans
<1>2. CASE runs' = Append(runs, NewRun)
  BY <1>2, RowsTyped
<1>3. CASE pc \in {"update_run", "finish_run"} /\ \E r : runs' = [runs EXCEPT ![run_id] = r]
  <2>1. PICK r : runs' = [runs EXCEPT ![run_id] = r]
    BY <1>3
  <2>2. run_id # NoId
    BY <1>3 DEF RowInv, RowInHand, Loop
  <2>3. i # run_id
    BY <1>3, <2>2 DEF RowInv, RowIsOpen
  <2> QED BY <2>1, <2>3, RowRewritten
<1> QED BY <1>1, <1>2, <1>3, TableSteps

\* A row of stream_runs that has its disconnected_at is never written again: no late
\* refresh moves a declared boundary.
THEOREM BoundariesAreFinal == Spec => ClosedRowsAreFinal
<1>1. IInv /\ RowInv /\ [Next]_vars
      => [\A i \in DOMAIN runs : ~runs[i].open => runs'[i] = runs[i]]_vars
  BY ClosedRowsStay
<1> QED BY <1>1, Inductive, RowsInductive, PTL DEF Spec, ClosedRowsAreFinal

\* Only a process that is stopping or dead leaves an open row that no session holds.
LEMMA OpenRowsKept ==
    ASSUME IInv, RowInv, "db" \notin Faults, OpenRowIsTheSession, [Next]_vars
    PROVE  OpenRowIsTheSession'
<1> SUFFICES ASSUME NEW i \in DOMAIN runs', runs'[i].open
             PROVE  i = run_id' \/ stopping' \/ pc' = "off"
  BY DEF OpenRowIsTheSession
<1>1. CASE Start
  BY <1>1 DEF Start, CloseOrphans, OrphanRow
<1>2. (~Start) => (stopping => stopping') /\ (pc = "off" => pc' = "off")
  <2> SUFFICES ASSUME ~Start PROVE (stopping => stopping') /\ (pc = "off" => pc' = "off")
    OBVIOUS
  <2>1. CASE VenueStep \/ FetchStep \/ RecvStep
    <3>1. CASE VenueStep \/ FetchStep
      BY <3>1 DEF VenueStep, VenueUpdate, VenuePush, VenueTrade, FetchStep, FetchServed,
         FetchAnswered, FetchFailed, Unsubscribe, Resubscribe, ResubscribeFailed, control
    <3>2. CASE RecvStep
      BY <3>2 DEF RecvStep, RecvTrade, RecvSnapshot, RecvUnsynced, RecvFetchFailed,
         RecvResyncSent, RecvFetchDone, RecvApplied, RecvCrossed, RecvGap, ReceiveDepth, Receive
    <3> QED BY <2>1, <3>1, <3>2
  <2>2. CASE ReplayStep
    BY <2>2 DEF ReplayStep, ReplayDrop, ReplayKeep, ReplayApplied, ReplayCrossed, ReplayGap,
       ReplayEnd, ReplayJoins, ReplayNext, control
  <2>3. CASE Connected \/ RunStarted \/ OpenFailed \/ Reconnect \/ CloseStep \/ LoopStep
    BY <2>3 DEF Connected, RunStarted, OpenFailed, Reconnect, CloseStep, Disconnected,
       SourceClosed, FinishRun, LoopStep, EndOfMessage, RunUpdated
  <2>4. CASE Stop
    BY <2>4 DEF Stop, InSession, CloseSession
  <2>5. CASE Crash \/ UNCHANGED vars
    BY <2>5 DEF Crash, vars, control
  <2> QED BY <2>1, <2>2, <2>3, <2>4, <2>5 DEF Next, OpenStep, Ended
<1>3. (~Start) => run_id' = run_id \/ (RunStarted /\ run_id' = Len(runs) + 1) \/ FinishRun
  <2> SUFFICES ASSUME ~Start, ~RunStarted, ~FinishRun PROVE run_id' = run_id
    BY DEF RunStarted
  <2>1. CASE VenueStep \/ FetchStep
    BY <2>1 DEF VenueStep, VenueUpdate, VenuePush, VenueTrade, FetchStep, FetchServed,
       FetchAnswered, FetchFailed, Unsubscribe, Resubscribe, ResubscribeFailed, run
  <2>2. CASE RecvStep
    BY <2>2 DEF RecvStep, RecvTrade, RecvSnapshot, RecvUnsynced, RecvFetchFailed, RecvResyncSent,
       RecvFetchDone, RecvApplied, RecvCrossed, RecvGap, ReceiveDepth, Receive, run
  <2>3. CASE ReplayStep
    BY <2>3 DEF ReplayStep, ReplayDrop, ReplayKeep, ReplayApplied, ReplayCrossed, ReplayGap,
       ReplayEnd, ReplayJoins, ReplayNext, run
  <2>4. CASE Connected \/ OpenFailed \/ Reconnect \/ Disconnected \/ SourceClosed \/ LoopStep
    BY <2>4 DEF Connected, OpenFailed, Reconnect, Disconnected, SourceClosed, LoopStep,
       EndOfMessage, RunUpdated, run
  <2>5. CASE Stop \/ Crash \/ UNCHANGED vars
    BY <2>5 DEF Stop, Crash, vars, run
  <2> QED BY <2>1, <2>2, <2>3, <2>4, <2>5 DEF Next, OpenStep, CloseStep, Ended
<1>4. CASE ~Start /\ runs' = runs
  <2>1. i = run_id \/ stopping \/ pc = "off"
    BY <1>4 DEF OpenRowIsTheSession
  <2>2. CASE RunStarted
    BY <1>4, <2>2, RowsTyped DEF RunStarted
  <2>3. CASE FinishRun
    <3>1. runs' = [runs EXCEPT ![run_id] = FinishedRow(@)]
      BY <2>3 DEF FinishRun
    <3>2. run_id # NoId /\ pc = "finish_run"
      BY <2>3 DEF FinishRun, RowInv, RowInHand
    <3>3. runs'[run_id] = FinishedRow(runs[run_id]) /\ ~FinishedRow(runs[run_id]).open
      BY <3>1, <3>2, RowRewritten DEF FinishedRow
    <3>4. i # run_id
      BY <3>3
    <3> QED BY <1>2, <1>4, <2>1, <3>4
  <2> QED BY <1>2, <1>3, <1>4, <2>1, <2>2, <2>3
<1>5. CASE ~Start /\ pc = "start_run" /\ runs' = Append(runs, NewRun)
           /\ (RunStarted \/ stopping')
  <2>1. CASE stopping'
    BY <2>1
  <2>2. CASE ~stopping'
    <3>1. run_id' = Len(runs) + 1
      BY <1>5, <2>2 DEF RunStarted
    <3>2. i = Len(runs) + 1 \/ (i \in DOMAIN runs /\ runs[i].open)
      BY <1>5, RowsTyped
    <3>3. ASSUME i \in DOMAIN runs, runs[i].open PROVE FALSE
      <4>1. run_id = NoId
        BY <1>5 DEF RowInv, NoRowYet
      <4>2. i # NoId
        BY <3>3, RowsTyped DEF NoId
      <4>3. stopping
        BY <1>5, <3>3, <4>1, <4>2 DEF OpenRowIsTheSession
      <4> QED BY <1>2, <1>5, <2>2, <4>3
    <3> QED BY <3>1, <3>2, <3>3
  <2> QED BY <2>1, <2>2
<1>6. CASE ~Start /\ pc = "update_run" /\ runs' = [runs EXCEPT ![run_id] = UpdatedRow(@)]
  <2>1. run_id # NoId
    BY <1>6 DEF RowInv, RowInHand, Loop
  <2>2. runs'[run_id] = UpdatedRow(runs[run_id]) /\ DOMAIN runs' = DOMAIN runs
    BY <1>6, <2>1, RowRewritten
  <2>3. UpdatedRow(runs[run_id]).open = runs[run_id].open
    BY DEF UpdatedRow
  <2>4. runs[i].open /\ i \in DOMAIN runs
    BY <1>6, <2>2, <2>3, RowRewritten
  <2>5. run_id' = run_id
    BY <1>3, <1>6 DEF RunStarted, FinishRun
  <2> QED BY <1>2, <1>6, <2>4, <2>5 DEF OpenRowIsTheSession
<1>7. CASE ~Start /\ pc = "finish_run" /\ runs' = [runs EXCEPT ![run_id] = FinishedRow(@)]
  <2>1. run_id # NoId
    BY <1>7 DEF RowInv, RowInHand
  <2>2. /\ runs'[run_id] = FinishedRow(runs[run_id]) /\ DOMAIN runs' = DOMAIN runs
        /\ ~FinishedRow(runs[run_id]).open
    BY <1>7, <2>1, RowRewritten DEF FinishedRow
  <2>3. i # run_id /\ runs[i].open /\ i \in DOMAIN runs
    BY <1>7, <2>2, RowRewritten
  <2> QED BY <1>2, <1>7, <2>3 DEF OpenRowIsTheSession
<1> QED BY <1>1, <1>4, <1>5, <1>6, <1>7, TableSteps

\* While no statement of the database fails, a row without disconnected_at is the row of
\* the session that is alive, or of a process that is stopping or dead.
THEOREM OpenRowsAreSessions ==
    ASSUME "db" \notin Faults
    PROVE  Spec => []OpenRowIsTheSession
<1>1. Init => OpenRowIsTheSession
  BY DEF Init, OpenRowIsTheSession
<1>2. IInv /\ RowInv /\ OpenRowIsTheSession /\ [Next]_vars => OpenRowIsTheSession'
  BY OpenRowsKept
<1> QED BY <1>1, <1>2, Inductive, RowsInductive, PTL DEF Spec
-----------------------------------------------------------------------------
(* The declared boundaries of two sessions do not overlap *)

\* A row claims nothing after n; and so do all rows but the one in hand.
Past(row, n) == row.last # NoId => row.last <= n
RestIsPast(table, id, n) == \A i \in DOMAIN table : i # id => Past(table[i], n)

RowsArePast ==
    \A i \in DOMAIN runs : Past(runs[i], venue_id) /\ (InBand => Past(runs[i], pushed))

\* Whatever a session may open with, is opening with, or has opened with is no older
\* than all that the rows before it claim.
NextIsLater ==
    /\ snapshot_task.snapshot # NoId => RestIsPast(runs, run_id, snapshot_task.snapshot)
    /\ \A k \in DOMAIN wire :
          wire[k].kind = "snapshot" => RestIsPast(runs, run_id, wire[k].update_id)
    /\ (run_id # NoId /\ first_update_id # NoId) => RestIsPast(runs, run_id, first_update_id)

BoundInv == RowsArePast /\ NextIsLater /\ SessionsDoNotOverlap

\* The boundaries a step may write: those of the row in hand, from the book and from
\* the snapshot the session opened with.
LEMMA ClaimsChange ==
    ASSUME IInv, RowInv, [Next]_vars, NEW i \in DOMAIN runs'
    PROVE  /\ \/ runs'[i].last = NoId
              \/ i \in DOMAIN runs /\ runs'[i].last = runs[i].last
              \/ i \in DOMAIN runs /\ i = run_id /\ runs'[i].last = update_id
           /\ \/ runs'[i].first = NoId
              \/ i \in DOMAIN runs /\ runs'[i].first = runs[i].first
              \/ i \in DOMAIN runs /\ i = run_id /\ runs'[i].first = first_update_id
<1>1. CASE runs' = runs
  BY <1>1
<1>2. CASE runs' = CloseOrphans(runs)
  BY <1>2 DEF CloseOrphans, OrphanRow
<1>3. CASE runs' = Append(runs, NewRun)
  <2>1. i \in DOMAIN runs \/ i = Len(runs) + 1
    BY <1>3, RowsTyped
  <2>2. NewRun.last = NoId /\ NewRun.first = NoId
    BY DEF NewRun
  <2>3. CASE i \in DOMAIN runs
    BY <1>3, <2>3, RowsTyped
  <2>4. CASE i = Len(runs) + 1
    BY <1>3, <2>2, <2>4, RowsTyped
  <2> QED BY <2>1, <2>3, <2>4
<1>4. CASE pc = "update_run" /\ runs' = [runs EXCEPT ![run_id] = UpdatedRow(@)]
  <2>1. run_id # NoId
    BY <1>4 DEF RowInv, RowInHand, Loop
  <2>2. /\ DOMAIN runs' = DOMAIN runs /\ runs'[run_id] = UpdatedRow(runs[run_id])
        /\ i # run_id => runs'[i] = runs[i]
    BY <1>4, <2>1, RowRewritten
  <2>3. LET r == UpdatedRow(runs[run_id])
        IN  r.last \in {NoId, update_id} /\ r.first \in {runs[run_id].first, first_update_id}
    BY DEF UpdatedRow, BookIdOrNone
  <2> QED BY <2>2, <2>3
<1>5. CASE pc = "finish_run" /\ runs' = [runs EXCEPT ![run_id] = FinishedRow(@)]
  <2>1. run_id # NoId
    BY <1>5 DEF RowInv, RowInHand
  <2>2. /\ DOMAIN runs' = DOMAIN runs /\ runs'[run_id] = FinishedRow(runs[run_id])
        /\ i # run_id => runs'[i] = runs[i]
    BY <1>5, <2>1, RowRewritten
  <2>3. LET r == FinishedRow(runs[run_id])
        IN  r.last \in {runs[run_id].last, update_id} /\ r.first = runs[run_id].first
    BY DEF FinishedRow, BookIdOrNone
  <2> QED BY <2>2, <2>3
<1> QED BY <1>1, <1>2, <1>3, <1>4, <1>5, TableSteps

\* The boundaries of a row are numbers.
LEMMA ClaimsTyped ==
    ASSUME IInv, NEW i \in DOMAIN runs
    PROVE  runs[i].last \in Int /\ runs[i].first \in Int
<1>1. runs[i] \in RunRow
  BY RowsTyped
<1> QED BY <1>1, BoundAssumption DEF RunRow, OptId, Ids, NoId

\* The venue's clocks do not go back.
LEMMA VenueGrows ==
    ASSUME IInv, [Next]_vars
    PROVE  /\ venue_id \in Nat /\ pushed \in Nat /\ venue_id' \in Nat /\ pushed' \in Nat
           /\ venue_id <= venue_id' /\ pushed <= pushed' /\ pushed <= venue_id
<1>a. venue_id \in Nat /\ pushed \in Nat /\ pushed <= venue_id
  BY TypedFollows DEF Typed
<1>1. CASE VenueStep
  BY <1>a, <1>1 DEF VenueStep, VenueUpdate, VenuePush, VenueTrade
<1>2. CASE ~VenueStep
  <2>1. UNCHANGED <<venue_id, pushed>>
    <3>1. CASE FetchStep \/ OpenStep \/ CloseStep \/ LoopStep \/ Stop \/ Crash \/ UNCHANGED vars
      BY <3>1 DEF FetchStep, FetchServed, FetchAnswered, FetchFailed, Unsubscribe, Resubscribe,
         ResubscribeFailed, OpenStep, Start, Connected, RunStarted, OpenFailed, Reconnect,
         CloseStep, Disconnected, SourceClosed, FinishRun, LoopStep, EndOfMessage, RunUpdated,
         Stop, Crash, vars, venue
    <3>2. CASE RecvStep
      BY <3>2 DEF RecvStep, RecvTrade, RecvSnapshot, RecvUnsynced, RecvFetchFailed,
         RecvResyncSent, RecvFetchDone, RecvApplied, RecvCrossed, RecvGap, ReceiveDepth, Receive,
         venue
    <3>3. CASE ReplayStep
      BY <3>3 DEF ReplayStep, ReplayDrop, ReplayKeep, ReplayApplied, ReplayCrossed, ReplayGap,
         ReplayEnd, ReplayJoins, ReplayNext, venue
    <3> QED BY <1>2, <3>1, <3>2, <3>3 DEF Next, Ended
  <2> QED BY <1>a, <2>1
<1> QED BY <1>1, <1>2

\* No row claims what the venue has not said.
LEMMA RowsStayPast ==
    ASSUME IInv, RInv, RowInv, RowsArePast, [Next]_vars
    PROVE  RowsArePast'
<1> SUFFICES ASSUME NEW i \in DOMAIN runs', runs'[i].last # NoId
             PROVE  runs'[i].last <= venue_id' /\ (InBand => runs'[i].last <= pushed')
  BY DEF RowsArePast, Past, InBand
<1>1. update_id \in Nat /\ update_id <= venue_id /\ (InBand => update_id <= pushed)
  BY TypedFollows DEF Typed, RInv, IdsArePast, StreamIsAhead
<1>2. CASE runs'[i].last = update_id
  BY <1>1, <1>2, VenueGrows
<1>3. CASE i \in DOMAIN runs /\ runs'[i].last = runs[i].last
  <2>1. runs[i].last \in Int /\ runs[i].last <= venue_id /\ (InBand => runs[i].last <= pushed)
    BY <1>3, ClaimsTyped DEF RowsArePast, Past
  <2> QED BY <1>3, <2>1, VenueGrows
<1> QED BY <1>2, <1>3, ClaimsChange

\* The first boundary of the last row is written behind all earlier rows.
LEMMA NoOverlapKept ==
    ASSUME IInv, RowInv, BoundInv, [Next]_vars
    PROVE  SessionsDoNotOverlap'
<1> SUFFICES ASSUME NEW i \in DOMAIN runs', NEW j \in DOMAIN runs', i < j,
                    runs'[i].last # NoId, runs'[j].first # NoId
             PROVE  runs'[i].last <= runs'[j].first
  BY DEF SessionsDoNotOverlap
<1>1. /\ j \in DOMAIN runs
      /\ runs'[j].first = runs[j].first \/ (j = run_id /\ runs'[j].first = first_update_id)
  BY ClaimsChange
<1>2. /\ i \in DOMAIN runs
      /\ runs'[i].last = runs[i].last \/ i = run_id
  BY ClaimsChange
<1>3. i # run_id
  <2>1. j <= Len(runs) /\ i \in Nat /\ j \in Nat /\ i # NoId
    BY <1>1, <1>2, RowsTyped DEF NoId
  <2>2. i = run_id => run_id = Len(runs)
    BY <2>1 DEF RowInv, RowIsLast
  <2> QED BY <2>1, <2>2, RowsTyped
<1>4. CASE runs'[j].first = runs[j].first
  BY <1>1, <1>2, <1>3, <1>4 DEF BoundInv, SessionsDoNotOverlap
<1>5. CASE j = run_id /\ runs'[j].first = first_update_id
  <2>1. run_id # NoId
    BY <1>1, <1>5, RowsTyped DEF NoId
  <2>2. RestIsPast(runs, run_id, first_update_id)
    BY <1>5, <2>1 DEF BoundInv, NextIsLater
  <2> QED BY <1>2, <1>3, <1>5, <2>2 DEF RestIsPast, Past
<1> QED BY <1>1, <1>4, <1>5

\* What the rest claims does not grow while the row in hand is the same, or there was none.
LEMMA RestStaysPast ==
    ASSUME IInv, RowInv, [Next]_vars, run_id' = run_id \/ run_id = NoId,
           NEW n, RestIsPast(runs, run_id, n)
    PROVE  RestIsPast(runs', run_id', n)
<1> SUFFICES ASSUME NEW i \in DOMAIN runs', i # run_id', runs'[i].last # NoId
             PROVE  runs'[i].last <= n
  BY DEF RestIsPast, Past
<1>1. i \in DOMAIN runs /\ (i = run_id \/ runs'[i].last = runs[i].last)
  BY ClaimsChange
<1>2. i # run_id
  BY <1>1, RowsTyped DEF NoId
<1> QED BY <1>1, <1>2, ClaimsChange DEF RestIsPast, Past

\* The invariant after a step, from what it says of each snapshot on its own.
LEMMA NextFollows ==
    ASSUME snapshot_task'.snapshot # NoId => RestIsPast(runs', run_id', snapshot_task'.snapshot),
           \A k \in DOMAIN wire' :
              wire'[k].kind = "snapshot" => RestIsPast(runs', run_id', wire'[k].update_id),
           (run_id' # NoId /\ first_update_id' # NoId) =>
              RestIsPast(runs', run_id', first_update_id')
    PROVE  NextIsLater'
BY DEF NextIsLater, RestIsPast, Past

\* A step that brings no new snapshot.
LEMMA NextKept ==
    ASSUME IInv, RowInv, NextIsLater, [Next]_vars, run_id' = run_id \/ run_id = NoId,
           snapshot_task'.snapshot # NoId => snapshot_task'.snapshot = snapshot_task.snapshot,
           \A k \in DOMAIN wire' : wire'[k].kind = "snapshot" =>
              \E m \in DOMAIN wire : wire'[k] = wire[m],
           first_update_id' = first_update_id \/ first_update_id' = NoId,
           run_id' # NoId => run_id # NoId \/ first_update_id' = NoId
    PROVE  NextIsLater'
<1>1. ASSUME snapshot_task'.snapshot # NoId
      PROVE  RestIsPast(runs', run_id', snapshot_task'.snapshot)
  BY <1>1, RestStaysPast DEF NextIsLater
<1>2. ASSUME NEW k \in DOMAIN wire', wire'[k].kind = "snapshot"
      PROVE  RestIsPast(runs', run_id', wire'[k].update_id)
  <2>1. PICK m \in DOMAIN wire : wire'[k] = wire[m]
    BY <1>2
  <2>2. RestIsPast(runs, run_id, wire[m].update_id)
    BY <1>2, <2>1 DEF NextIsLater
  <2> QED BY <2>1, <2>2, RestStaysPast
<1>3. ASSUME run_id' # NoId, first_update_id' # NoId
      PROVE  RestIsPast(runs', run_id', first_update_id')
  BY <1>3, RestStaysPast DEF NextIsLater
<1> QED BY <1>1, <1>2, <1>3, NextFollows

\* A session that has ended has nothing to open the next one with.
LEMMA NextIsEmpty ==
    ASSUME snapshot_task' = NoTask, wire' = <<>>, run_id' = NoId
    PROVE  NextIsLater'
BY NextFollows DEF NoTask

\* The messages of a wire that is read, or written to.
LEMMA WireMessages ==
    ASSUME NEW s \in Seq(Event \cup Trade)
    PROVE  /\ s # <<>> => \A k \in DOMAIN Tail(s) : \E m \in DOMAIN s : Tail(s)[k] = s[m]
           /\ s # <<>> => \E m \in DOMAIN s : Head(s) = s[m]
           /\ \A ev : \A k \in DOMAIN Append(s, ev) :
                Append(s, ev)[k] = ev \/ \E m \in DOMAIN s : Append(s, ev)[k] = s[m]
<1>1. ASSUME s # <<>>
      PROVE  /\ \A k \in DOMAIN Tail(s) : \E m \in DOMAIN s : Tail(s)[k] = s[m]
             /\ \E m \in DOMAIN s : Head(s) = s[m]
  <2>1. \A k \in DOMAIN Tail(s) : k + 1 \in DOMAIN s /\ Tail(s)[k] = s[k + 1]
    BY <1>1
  <2>2. 1 \in DOMAIN s /\ Head(s) = s[1]
    BY <1>1
  <2> QED BY <2>1, <2>2
<1>2. ASSUME NEW ev, NEW k \in DOMAIN Append(s, ev)
      PROVE  Append(s, ev)[k] = ev \/ \E m \in DOMAIN s : Append(s, ev)[k] = s[m]
  <2>1. k = Len(s) + 1 \/ (k \in DOMAIN s /\ Append(s, ev)[k] = s[k])
    BY <1>2
  <2>2. k = Len(s) + 1 => Append(s, ev)[k] = ev
    OBVIOUS
  <2> QED BY <2>1, <2>2
<1> QED BY <1>1, <1>2

\* What may open the next session stays behind nothing that is claimed.
LEMMA NextStaysLater ==
    ASSUME IInv, RInv, RowInv, BoundInv, [Next]_vars
    PROVE  NextIsLater'
<1>a. NextIsLater /\ RowsArePast
  BY DEF BoundInv
<1>b. wire \in Seq(Event \cup Trade) /\ venue_id \in Nat /\ pushed \in Nat
  BY TypedFollows DEF Typed
<1>c. RestIsPast(runs, run_id, venue_id) /\ (InBand => RestIsPast(runs, run_id, pushed))
  BY <1>a DEF RowsArePast, RestIsPast
<1>d. wire # <<>> => \A k \in DOMAIN Tail(wire) : \E m \in DOMAIN wire : Tail(wire)[k] = wire[m]
  BY <1>b, WireMessages
<1>1. CASE VenueStep
  <2>1. UNCHANGED <<run_id, snapshot_task, first_update_id>>
    BY <1>1 DEF VenueStep, VenueUpdate, VenuePush, VenueTrade, task, run
  <2>2. wire' = wire \/ \E ev : wire' = Append(wire, ev) /\ ev.kind # "snapshot"
    BY <1>1 DEF VenueStep, VenueUpdate, VenuePush, VenueTrade, DiffEvents, socket
  <2>3. \A k \in DOMAIN wire' : wire'[k].kind = "snapshot" =>
           \E m \in DOMAIN wire : wire'[k] = wire[m]
    BY <1>b, <2>2, WireMessages
  <2> QED BY <1>a, <2>1, <2>3, NextKept
<1>2. CASE FetchServed
  <2>1. UNCHANGED <<run_id, runs, wire, first_update_id>> /\ snapshot_task' = Served(venue_id)
    BY <1>2 DEF FetchServed, socket, run
  <2> QED BY <1>a, <1>c, <2>1, NextFollows DEF Served, NextIsLater
<1>3. CASE Resubscribe
  <2>1. /\ UNCHANGED <<run_id, runs, first_update_id>> /\ snapshot_task' = Done(NoId)
        /\ wire' = Append(wire, SnapshotEvent(pushed)) /\ snapshot_task.status = "unsubscribed"
    BY <1>3 DEF Resubscribe, run
  <2>2. InBand
    BY <2>1 DEF RInv, AnswerIsAhead, TaskIsAhead
  <2>3. SnapshotEvent(pushed).update_id = pushed
    BY DEF SnapshotEvent
  <2>4. \A k \in DOMAIN wire' : wire'[k].kind = "snapshot" =>
           RestIsPast(runs', run_id', wire'[k].update_id)
    <3> SUFFICES ASSUME NEW k \in DOMAIN wire', wire'[k].kind = "snapshot"
                 PROVE  RestIsPast(runs, run_id, wire'[k].update_id)
      BY <2>1
    <3>1. wire'[k] = SnapshotEvent(pushed) \/ \E m \in DOMAIN wire : wire'[k] = wire[m]
      BY <1>b, <2>1, WireMessages
    <3> QED BY <1>a, <1>c, <2>2, <2>3, <3>1 DEF NextIsLater
  <2> QED BY <1>a, <2>1, <2>4, NextFollows DEF Done, NextIsLater
<1>4. CASE FetchAnswered \/ FetchFailed \/ Unsubscribe \/ ResubscribeFailed
  <2>1. /\ UNCHANGED <<run_id, wire, first_update_id>>
        /\ snapshot_task'.snapshot \in {NoId, snapshot_task.snapshot}
    BY <1>4 DEF FetchAnswered, FetchFailed, Unsubscribe, ResubscribeFailed, socket, run, Done,
                Failed, Unsubscribed
  <2> QED BY <1>a, <2>1, NextKept
<1>5. CASE Start
  BY <1>5, NextIsEmpty DEF Start
<1>6. CASE Connected
  <2>1. /\ UNCHANGED <<run_id, runs, snapshot_task, first_update_id>>
        /\ wire' = IF InBand THEN <<SnapshotEvent(pushed)>> ELSE <<>>
    BY <1>6 DEF Connected, task, run
  <2>2. SnapshotEvent(pushed).update_id = pushed
    BY DEF SnapshotEvent
  <2>3. \A k \in DOMAIN wire' : wire'[k].kind = "snapshot" =>
           RestIsPast(runs', run_id', wire'[k].update_id)
    BY <1>c, <2>1, <2>2
  <2> QED BY <1>a, <2>1, <2>3, NextFollows DEF NextIsLater
<1>7. CASE RunStarted
  <2>1. /\ UNCHANGED <<wire, first_update_id>> /\ pc = "start_run"
        /\ snapshot_task'.snapshot \in {NoId, snapshot_task.snapshot}
    BY <1>7 DEF RunStarted, StartSnapshotFetch, Started, socket
  <2>2. run_id = NoId /\ first_update_id = NoId
    BY <2>1 DEF RowInv, NoRowYet, NothingPending
  <2> QED BY <1>a, <2>1, <2>2, NextKept
<1>8. CASE OpenFailed
  <2>1. /\ run_id' = run_id /\ pc \in {"connect", "start_run"}
        /\ snapshot_task' = NoTask /\ wire' = <<>>
    BY <1>8 DEF OpenFailed, CloseSession
  <2>2. run_id' = NoId
    BY <2>1 DEF RowInv, NoRowYet
  <2> QED BY <2>1, <2>2, NextIsEmpty
<1>9. CASE Reconnect \/ LoopStep \/ SourceClosed \/ ReplayEnd \/ Crash \/ UNCHANGED vars
  <2>1. /\ UNCHANGED <<run_id, wire, snapshot_task>>
        /\ first_update_id' \in {NoId, first_update_id}
    BY <1>9 DEF Reconnect, OpenSession, LoopStep, EndOfMessage, RunUpdated, SourceClosed,
       ReplayEnd, Crash, vars, socket, task, run
  <2> QED BY <1>a, <2>1, NextKept
<1>10. CASE Disconnected
  BY <1>10, <1>a, NextKept DEF Disconnected, CloseSession, NoTask, run
<1>11. CASE FinishRun
  <2>1. run_id' = NoId /\ pc = "finish_run" /\ UNCHANGED <<snapshot_task, wire>>
    BY <1>11 DEF FinishRun, socket, task
  <2>2. snapshot_task = NoTask /\ wire = <<>>
    BY <2>1 DEF RowInv, NothingPending
  <2> QED BY <2>1, <2>2, NextIsEmpty
<1>12. CASE Stop
  <2>1. /\ UNCHANGED <<run_id, first_update_id>>
        /\ \/ snapshot_task' = NoTask /\ wire' = <<>>
           \/ UNCHANGED <<snapshot_task, wire>>
    BY <1>12 DEF Stop, CloseSession, socket
  <2> QED BY <1>a, <2>1, NextKept DEF NoTask
<1>13. CASE RecvTrade \/ RecvUnsynced \/ RecvFetchFailed \/ RecvResyncSent \/ RecvApplied
            \/ RecvCrossed \/ RecvGap
  <2>1. /\ UNCHANGED <<run_id, first_update_id>> /\ wire # <<>> /\ wire' = Tail(wire)
        /\ snapshot_task'.snapshot \in {NoId, snapshot_task.snapshot}
    BY <1>13 DEF RecvTrade, RecvUnsynced, RecvFetchFailed, RecvResyncSent, RecvApplied,
       RecvCrossed, RecvGap, ReceiveDepth, Receive, Gap, StartSnapshotFetch, Started, NoTask,
       task, run
  <2> QED BY <1>a, <1>d, <2>1, NextKept
<1>14. CASE RecvSnapshot \/ RecvFetchDone
  <2>1. /\ UNCHANGED run_id /\ wire # <<>> /\ wire' = Tail(wire)
        /\ snapshot_task'.snapshot \in {NoId, snapshot_task.snapshot}
        /\ \/ first_update_id' = first_update_id
           \/ Head(wire).kind = "snapshot" /\ first_update_id' = Head(wire).update_id
           \/ /\ snapshot_task.snapshot # NoId
              /\ first_update_id' = snapshot_task.snapshot
    BY <1>14 DEF RecvSnapshot, RecvFetchDone, ReceiveDepth, Receive, Adopt, NoTask, task, run
  <2>2. RestIsPast(runs', run_id', first_update_id') \/ first_update_id' = first_update_id
    <3>1. CASE Head(wire).kind = "snapshot" /\ first_update_id' = Head(wire).update_id
      <4>1. RestIsPast(runs, run_id, first_update_id')
        BY <1>a, <1>b, <2>1, <3>1, WireMessages DEF NextIsLater
      <4> QED BY <2>1, <4>1, RestStaysPast
    <3>2. CASE snapshot_task.snapshot # NoId /\ first_update_id' = snapshot_task.snapshot
      BY <1>a, <2>1, <3>2, RestStaysPast DEF NextIsLater
    <3> QED BY <2>1, <3>1, <3>2
  <2>3. ASSUME snapshot_task'.snapshot # NoId
        PROVE  RestIsPast(runs', run_id', snapshot_task'.snapshot)
    BY <1>a, <2>1, <2>3, RestStaysPast DEF NextIsLater
  <2>4. ASSUME NEW k \in DOMAIN wire', wire'[k].kind = "snapshot"
        PROVE  RestIsPast(runs', run_id', wire'[k].update_id)
    <3>1. PICK m \in DOMAIN wire : wire'[k] = wire[m]
      BY <1>d, <2>1, <2>4
    <3>2. RestIsPast(runs, run_id, wire[m].update_id)
      BY <1>a, <2>4, <3>1 DEF NextIsLater
    <3> QED BY <2>1, <3>1, <3>2, RestStaysPast
  <2>5. (run_id' # NoId /\ first_update_id' # NoId) => RestIsPast(runs', run_id', first_update_id')
    BY <1>a, <2>1, <2>2, RestStaysPast DEF NextIsLater
  <2> QED BY <2>3, <2>4, <2>5, NextFollows
<1>15. CASE ReplayDrop \/ ReplayKeep \/ ReplayApplied \/ ReplayCrossed \/ ReplayGap
  <2>1. /\ UNCHANGED <<run_id, wire, first_update_id>>
        /\ snapshot_task'.snapshot \in {NoId, snapshot_task.snapshot}
    BY <1>15 DEF ReplayDrop, ReplayKeep, ReplayApplied, ReplayCrossed, ReplayGap, ReplayJoins,
       ReplayNext, Gap, StartSnapshotFetch, Started, socket, task, run
  <2> QED BY <1>a, <2>1, NextKept
<1> QED
  BY <1>1, <1>2, <1>3, <1>4, <1>5, <1>6, <1>7, <1>8, <1>9, <1>10, <1>11, <1>12, <1>13, <1>14, <1>15
  DEF Next, FetchStep, OpenStep, CloseStep, RecvStep, ReplayStep, Ended

\* The id ranges of two rows of stream_runs do not overlap: across gaps, resyncs,
\* crashes, restarts and failed statements, a later session starts where the earlier
\* ones had ended, or after.
THEOREM SessionsAreDisjoint == Spec => []SessionsDoNotOverlap
<1>1. Init => BoundInv
  BY DEF Init, BoundInv, RowsArePast, NextIsLater, SessionsDoNotOverlap, NoTask
<1>2. IInv /\ RInv /\ RowInv /\ BoundInv /\ [Next]_vars => BoundInv'
  <2> SUFFICES ASSUME IInv, RInv, RowInv, BoundInv, [Next]_vars PROVE BoundInv'
    OBVIOUS
  <2>1. RowsArePast'
    BY RowsStayPast DEF BoundInv
  <2>2. NextIsLater' /\ SessionsDoNotOverlap'
    BY NextStaysLater, NoOverlapKept
  <2> QED BY <2>1, <2>2 DEF BoundInv
<1>3. BoundInv => SessionsDoNotOverlap
  BY DEF BoundInv
<1> QED BY <1>1, <1>2, <1>3, Inductive, NothingIsBehind, RowsInductive, PTL DEF Spec
-----------------------------------------------------------------------------
(* The diffs of one process are recorded in order, none twice *)

IsDiff(ev) == ev.kind = "diff"
Sooner(ev, to) == (IsDiff(ev) /\ IsDiff(to)) => ev.update_id < to.update_id

Sorted(s) == \A i, j \in DOMAIN s : i < j => Sooner(s[i], s[j])
Before(s, ev) == \A i \in DOMAIN s : Sooner(s[i], ev)
After(ev, s) == \A i \in DOMAIN s : Sooner(ev, s[i])
Ahead(s, t) == \A i \in DOMAIN s, j \in DOMAIN t : Sooner(s[i], t[j])
UpTo(s, n) == \A i \in DOMAIN s : IsDiff(s[i]) => s[i].update_id <= n

\* What is recorded, held for a snapshot, left of a replay and on the wire: one stream.
Stream(rows, held, left, coming, n) ==
    /\ Sorted(rows) /\ Sorted(held) /\ Sorted(left) /\ Sorted(coming)
    /\ Ahead(rows, held) /\ Ahead(rows, left) /\ Ahead(rows, coming)
    /\ Ahead(held, left) /\ Ahead(held, coming) /\ Ahead(left, coming)
    /\ UpTo(rows, n) /\ UpTo(held, n) /\ UpTo(left, n) /\ UpTo(coming, n)

\* A buffer is kept only while the book is not synced; what a replay kept, it did not drop.
Held ==
    /\ pc # "replay" => replaying = <<>>
    /\ (synced /\ pc \notin {"off", "done"}) => buffer = <<>>
    /\ pc = "replay" => \A i \in DOMAIN buffer : ~DropBeforeSnapshot(buffer[i], anchor)

OrderInv == Stream(book_events, buffer, replaying, wire, pushed) /\ Held

\* What the four sequences are made of.
Item == Event \cup Trade \cup BookEvent

LEMMA ItemId == \A ev \in Item : ev.update_id \in Nat
BY BoundAssumption DEF Item, Event, Trade, BookEvent, Ids

\* The head of a sequence is sooner than its rest, and as late as the rest.
LEMMA TailOrder ==
    ASSUME NEW s \in Seq(Item), s # <<>>
    PROVE  /\ Tail(s) \in Seq(Item) /\ Head(s) \in Item
           /\ Sorted(s) => Sorted(Tail(s)) /\ After(Head(s), Tail(s))
           /\ \A t : Ahead(s, t) => Ahead(Tail(s), t) /\ After(Head(s), t)
           /\ \A t : Ahead(t, s) => Ahead(t, Tail(s)) /\ Before(t, Head(s))
           /\ \A n : UpTo(s, n) => UpTo(Tail(s), n) /\ (IsDiff(Head(s)) => Head(s).update_id <= n)
<1>1. /\ Tail(s) \in Seq(Item) /\ Head(s) = s[1] /\ 1 \in DOMAIN s /\ Head(s) \in Item
      /\ \A i \in DOMAIN Tail(s) :
            i \in Nat /\ 1 <= i /\ i + 1 \in DOMAIN s /\ Tail(s)[i] = s[i + 1]
  OBVIOUS
<1>2. ASSUME Sorted(s) PROVE Sorted(Tail(s)) /\ After(Head(s), Tail(s))
  <2>1. Sorted(Tail(s))
    BY <1>1, <1>2 DEF Sorted
  <2>2. ASSUME NEW i \in DOMAIN Tail(s) PROVE Sooner(Head(s), Tail(s)[i])
    <3>1. 1 < i + 1 /\ i + 1 \in DOMAIN s
      BY <1>1
    <3> QED BY <1>1, <1>2, <3>1 DEF Sorted
  <2> QED BY <2>1, <2>2 DEF After
<1>3. ASSUME NEW t, Ahead(s, t) PROVE Ahead(Tail(s), t) /\ After(Head(s), t)
  BY <1>1, <1>3 DEF Ahead, After
<1>4. ASSUME NEW t, Ahead(t, s) PROVE Ahead(t, Tail(s)) /\ Before(t, Head(s))
  BY <1>1, <1>4 DEF Ahead, Before
<1>5. ASSUME NEW n, UpTo(s, n)
      PROVE  UpTo(Tail(s), n) /\ (IsDiff(Head(s)) => Head(s).update_id <= n)
  BY <1>1, <1>5 DEF UpTo
<1> QED BY <1>1, <1>2, <1>3, <1>4, <1>5

\* An item put behind a sequence.
LEMMA AppendOrder ==
    ASSUME NEW s \in Seq(Item), NEW ev \in Item
    PROVE  /\ Append(s, ev) \in Seq(Item)
           /\ Sorted(s) /\ Before(s, ev) => Sorted(Append(s, ev))
           /\ \A t : Ahead(s, t) /\ After(ev, t) => Ahead(Append(s, ev), t)
           /\ \A t : Ahead(t, s) /\ Before(t, ev) => Ahead(t, Append(s, ev))
           /\ \A n : UpTo(s, n) /\ (IsDiff(ev) => ev.update_id <= n) => UpTo(Append(s, ev), n)
<1> DEFINE u == Append(s, ev)
<1>1. /\ Len(s) \in Nat /\ DOMAIN s = 1..Len(s) /\ DOMAIN u = 1..Len(s) + 1 /\ u \in Seq(Item)
      /\ u[Len(s) + 1] = ev /\ \A i \in DOMAIN s : u[i] = s[i]
  OBVIOUS
<1>2. \A i \in DOMAIN u : (i \in DOMAIN s /\ u[i] = s[i]) \/ (i = Len(s) + 1 /\ u[i] = ev)
  BY <1>1
<1>3. \A i, j \in DOMAIN u : i < j => i \in DOMAIN s /\ u[i] = s[i]
  BY <1>1
<1> HIDE DEF u
<1>4. ASSUME Sorted(s), Before(s, ev) PROVE Sorted(u)
  BY <1>2, <1>3, <1>4 DEF Sorted, Before
<1>5. ASSUME NEW t, Ahead(s, t), After(ev, t) PROVE Ahead(u, t)
  BY <1>2, <1>5 DEF Ahead, After
<1>6. ASSUME NEW t, Ahead(t, s), Before(t, ev) PROVE Ahead(t, u)
  BY <1>2, <1>6 DEF Ahead, Before
<1>7. ASSUME NEW n, UpTo(s, n), IsDiff(ev) => ev.update_id <= n PROVE UpTo(u, n)
  BY <1>2, <1>7 DEF UpTo
<1> QED BY <1>1, <1>4, <1>5, <1>6, <1>7 DEF u

\* The empty sequence is in order with everything.
LEMMA EmptyOrder ==
    /\ Sorted(<<>>) /\ \A t : Ahead(<<>>, t) /\ Ahead(t, <<>>) /\ After(t, <<>>) /\ Before(<<>>, t)
    /\ \A n : UpTo(<<>>, n)
BY DEF Sorted, Ahead, After, Before, UpTo

\* A row that says of a message what its kind and its id are.
Says(row, ev) == row \in Item /\ row.kind = ev.kind /\ row.update_id = ev.update_id

LEMMA SaysOrder ==
    ASSUME NEW row, NEW ev, Says(row, ev)
    PROVE  /\ IsDiff(row) <=> IsDiff(ev)
           /\ \A s : Before(s, ev) => Before(s, row)
           /\ \A s : After(ev, s) => After(row, s)
BY DEF Says, Before, After, Sooner, IsDiff

\* Four sequences of items that are one stream.
Streaming(a, b, c, d, n) ==
    /\ a \in Seq(Item) /\ b \in Seq(Item) /\ c \in Seq(Item) /\ d \in Seq(Item)
    /\ Stream(a, b, c, d, n)

\* The venue sends a message that is newer than what it had sent, or no diff.
LEMMA MoveSent ==
    ASSUME NEW a, NEW b, NEW c, NEW d, NEW n \in Nat, NEW m \in Nat, NEW ev \in Item,
           Streaming(a, b, c, d, n), n <= m, IsDiff(ev) => n < ev.update_id /\ ev.update_id <= m
    PROVE  Streaming(a, b, c, d, m) /\ Streaming(a, b, c, Append(d, ev), m)
<1>1. \A s \in Seq(Item) : UpTo(s, n) => UpTo(s, m) /\ Before(s, ev)
  <2> SUFFICES ASSUME NEW s \in Seq(Item), UpTo(s, n), NEW i \in DOMAIN s, IsDiff(s[i])
               PROVE  s[i].update_id <= m /\ (IsDiff(ev) => s[i].update_id < ev.update_id)
    BY DEF UpTo, Before, Sooner
  <2>1. s[i].update_id \in Nat /\ ev.update_id \in Nat /\ s[i].update_id <= n
    BY ItemId DEF UpTo
  <2> QED BY <2>1
<1> QED BY <1>1, AppendOrder DEF Streaming, Stream

\* The next message leaves the wire: for the buffer, or for a row when nothing is held.
LEMMA MoveReceived ==
    ASSUME NEW a, NEW b, NEW d, NEW n, Streaming(a, b, <<>>, d, n), d # <<>>
    PROVE  /\ Streaming(a, b, <<>>, Tail(d), n)
           /\ Streaming(a, Append(b, Head(d)), <<>>, Tail(d), n)
           /\ Streaming(a, <<>>, Append(b, Head(d)), Tail(d), n)
           /\ \A row : b = <<>> /\ Says(row, Head(d)) =>
                 Streaming(Append(a, row), <<>>, <<>>, Tail(d), n)
<1>1. /\ Tail(d) \in Seq(Item) /\ Head(d) \in Item /\ Sorted(Tail(d)) /\ After(Head(d), Tail(d))
      /\ Ahead(a, Tail(d)) /\ Before(a, Head(d)) /\ Ahead(b, Tail(d)) /\ Before(b, Head(d))
      /\ UpTo(Tail(d), n) /\ (IsDiff(Head(d)) => Head(d).update_id <= n)
  BY TailOrder DEF Streaming, Stream
<1>2. Streaming(a, b, <<>>, Tail(d), n)
  BY <1>1, EmptyOrder DEF Streaming, Stream
<1>3. /\ Append(b, Head(d)) \in Seq(Item) /\ Sorted(Append(b, Head(d)))
      /\ Ahead(Append(b, Head(d)), Tail(d)) /\ Ahead(a, Append(b, Head(d)))
      /\ UpTo(Append(b, Head(d)), n)
  BY <1>1, AppendOrder DEF Streaming, Stream
<1>4. /\ Streaming(a, Append(b, Head(d)), <<>>, Tail(d), n)
      /\ Streaming(a, <<>>, Append(b, Head(d)), Tail(d), n)
  BY <1>1, <1>3, EmptyOrder DEF Streaming, Stream
<1>5. ASSUME NEW row, b = <<>>, Says(row, Head(d))
      PROVE  Streaming(Append(a, row), <<>>, <<>>, Tail(d), n)
  <2>1. row \in Item /\ Before(a, row) /\ After(row, Tail(d)) /\ (IsDiff(row) => row.update_id <= n)
    BY <1>1, <1>5, SaysOrder DEF Says
  <2>2. /\ Append(a, row) \in Seq(Item) /\ Sorted(Append(a, row))
        /\ Ahead(Append(a, row), Tail(d)) /\ UpTo(Append(a, row), n)
    BY <1>1, <2>1, AppendOrder DEF Streaming, Stream
  <2> QED BY <1>1, <2>2, EmptyOrder DEF Streaming, Stream
<1> QED BY <1>2, <1>4, <1>5

\* The next message leaves the replay: for the buffer, or for a row when nothing is held.
LEMMA MoveReplayed ==
    ASSUME NEW a, NEW b, NEW c, NEW d, NEW n, Streaming(a, b, c, d, n), c # <<>>
    PROVE  /\ Streaming(a, Append(b, Head(c)), Tail(c), d, n)
           /\ \A row : b = <<>> /\ Says(row, Head(c)) =>
                 Streaming(Append(a, row), <<>>, Tail(c), d, n)
<1>1. /\ Tail(c) \in Seq(Item) /\ Head(c) \in Item /\ Sorted(Tail(c)) /\ After(Head(c), Tail(c))
      /\ Ahead(a, Tail(c)) /\ Before(a, Head(c)) /\ Ahead(b, Tail(c)) /\ Before(b, Head(c))
      /\ Ahead(Tail(c), d) /\ After(Head(c), d)
      /\ UpTo(Tail(c), n) /\ (IsDiff(Head(c)) => Head(c).update_id <= n)
  BY TailOrder DEF Streaming, Stream
<1>2. /\ Append(b, Head(c)) \in Seq(Item) /\ Sorted(Append(b, Head(c)))
      /\ Ahead(Append(b, Head(c)), Tail(c)) /\ Ahead(Append(b, Head(c)), d)
      /\ Ahead(a, Append(b, Head(c))) /\ UpTo(Append(b, Head(c)), n)
  BY <1>1, AppendOrder DEF Streaming, Stream
<1>3. Streaming(a, Append(b, Head(c)), Tail(c), d, n)
  BY <1>1, <1>2 DEF Streaming, Stream
<1>4. ASSUME NEW row, b = <<>>, Says(row, Head(c))
      PROVE  Streaming(Append(a, row), <<>>, Tail(c), d, n)
  <2>1. /\ row \in Item /\ Before(a, row) /\ After(row, Tail(c)) /\ After(row, d)
        /\ IsDiff(row) => row.update_id <= n
    BY <1>1, <1>4, SaysOrder DEF Says
  <2>2. /\ Append(a, row) \in Seq(Item) /\ Sorted(Append(a, row))
        /\ Ahead(Append(a, row), Tail(c)) /\ Ahead(Append(a, row), d) /\ UpTo(Append(a, row), n)
    BY <1>1, <2>1, AppendOrder DEF Streaming, Stream
  <2> QED BY <1>1, <1>4, <2>2, EmptyOrder DEF Streaming, Stream
<1> QED BY <1>3, <1>4

\* A row that is no diff is in order everywhere.
LEMMA MoveAnchor ==
    ASSUME NEW a, NEW b, NEW c, NEW d, NEW n, Streaming(a, b, c, d, n), NEW row \in Item,
           ~IsDiff(row)
    PROVE  Streaming(Append(a, row), b, c, d, n)
<1>1. \A s : Before(s, row) /\ After(row, s)
  BY DEF Before, After, Sooner
<1> QED BY <1>1, AppendOrder DEF Streaming, Stream

\* What was held, left or coming is forgotten; an opening snapshot is no diff.
LEMMA MoveForget ==
    ASSUME NEW a, NEW b, NEW c, NEW d, NEW n, Streaming(a, b, c, d, n)
    PROVE  /\ Streaming(a, <<>>, c, d, n) /\ Streaming(a, b, c, <<>>, n)
           /\ \A ev \in Item : ~IsDiff(ev) => Streaming(a, b, c, <<ev>>, n)
<1>1. ASSUME NEW ev \in Item, ~IsDiff(ev)
      PROVE  Streaming(a, b, c, <<ev>>, n)
  <2>1. <<ev>> \in Seq(Item) /\ DOMAIN <<ev>> = {1} /\ <<ev>>[1] = ev
    OBVIOUS
  <2>2. Sorted(<<ev>>) /\ UpTo(<<ev>>, n) /\ \A s : Ahead(s, <<ev>>)
    BY <1>1, <2>1 DEF Sorted, UpTo, Ahead, Sooner
  <2> QED BY <2>1, <2>2 DEF Streaming, Stream
<1> QED BY <1>1, EmptyOrder DEF Streaming, Stream

\* The stream of a collector, from its variables.
LEMMA StreamTyped ==
    ASSUME IInv
    PROVE  /\ wire \in Seq(Item) /\ buffer \in Seq(Item) /\ replaying \in Seq(Item)
           /\ book_events \in Seq(Item) /\ pushed \in Nat /\ venue_id \in Nat /\ pushed <= venue_id
           /\ \A i \in DOMAIN buffer : IsDiff(buffer[i])
           /\ replaying # <<>> => IsDiff(Head(replaying))
<1>1. /\ wire \in Seq(Event \cup Trade) /\ buffer \in Seq(Event) /\ replaying \in Seq(Event)
      /\ pushed \in Nat /\ venue_id \in Nat /\ pushed <= venue_id
  BY TypedFollows DEF Typed
<1>2. book_events \in Seq(BookEvent)
  BY DEF IInv, TypeOK, RowsTypeOK
<1>3. buffer \in Seq(GenuineDiffs) /\ replaying \in Seq(GenuineDiffs)
  BY DEF IInv, MessagesAreGenuine
<1>4. \A ev \in GenuineDiffs : IsDiff(ev)
  BY DEF GenuineDiffs, IsDiff
<1> QED BY <1>1, <1>2, <1>3, <1>4 DEF Item

\* What a typed step appends is an item.
LEMMA AppendedIsItem ==
    ASSUME IInv, IInv', NEW ev
    PROVE  /\ book_events' = Append(book_events, ev) => ev \in Item
           /\ wire' = Append(wire, ev) => ev \in Item
<1>1. /\ book_events \in Seq(Item) /\ wire \in Seq(Item)
      /\ book_events' \in Seq(Item) /\ wire' \in Seq(Item)
  <2>1. book_events' \in Seq(BookEvent) /\ wire' \in Seq(Event \cup Trade)
    BY DEF IInv, TypeOK, RowsTypeOK, VenueTypeOK
  <2> QED BY <2>1, StreamTyped DEF Item
<1>2. \A s, t \in Seq(Item) : t = Append(s, ev) => ev \in Item
  <2> SUFFICES ASSUME NEW s \in Seq(Item), NEW t \in Seq(Item), t = Append(s, ev)
               PROVE  ev \in Item
    OBVIOUS
  <2>1. Len(s) + 1 \in DOMAIN t /\ t[Len(s) + 1] = ev
    OBVIOUS
  <2> QED BY <2>1
<1> QED BY <1>1, <1>2

\* The order invariant after a step.
LEMMA OrderFollows ==
    ASSUME Streaming(book_events', buffer', replaying', wire', pushed'), Held'
    PROVE  OrderInv'
BY DEF OrderInv, Streaming, Stream, Sorted, Ahead, UpTo, Sooner, IsDiff

\* A step that leaves what is held alone.
LEMMA HeldUntouched ==
    ASSUME Held, UNCHANGED <<buffer, replaying, anchor, synced>>,
           pc = "replay" => pc' = "replay" \/ replaying = <<>>,
           pc' = "replay" => pc = "replay",
           pc \in {"off", "done"} => pc' \in {"off", "done"}
    PROVE  Held'
BY DEF Held, DropBeforeSnapshot

\* A step outside a replay after which nothing is held.
LEMMA HeldNothing ==
    ASSUME buffer' = <<>>, replaying' = <<>> \/ pc' = "replay"
    PROVE  Held'
BY DEF Held

\* A step outside a replay after which the book is not synced.
LEMMA HeldUnsynced ==
    ASSUME ~synced', pc' # "replay", replaying' = <<>>
    PROVE  Held'
BY DEF Held

\* A step of a replay.
LEMMA HeldReplay ==
    ASSUME IInv, Held, pc = "replay", pc' = "replay", anchor' = anchor, replaying # <<>>,
           \/ buffer' = buffer /\ (synced' => synced)
           \/ /\ buffer' = Append(buffer, Head(replaying)) /\ ~synced'
              /\ ~DropBeforeSnapshot(Head(replaying), anchor)
    PROVE  Held'
<1>1. CASE buffer' = buffer /\ (synced' => synced)
  BY <1>1 DEF Held, DropBeforeSnapshot
<1>2. CASE /\ buffer' = Append(buffer, Head(replaying)) /\ ~synced'
           /\ ~DropBeforeSnapshot(Head(replaying), anchor)
  <2>1. buffer \in Seq(Item)
    BY StreamTyped
  <2>2. \A i \in DOMAIN buffer' :
           buffer'[i] = Head(replaying) \/ (i \in DOMAIN buffer /\ buffer'[i] = buffer[i])
    BY <1>2, <2>1
  <2>3. \A i \in DOMAIN buffer' : ~DropBeforeSnapshot(buffer'[i], anchor)
    BY <1>2, <2>2 DEF Held
  <2>4. \A i \in DOMAIN buffer' : ~DropBeforeSnapshot(buffer'[i], anchor')
    BY <2>3
  <2> QED BY <1>2, <2>4 DEF Held, DropBeforeSnapshot
<1> QED BY <1>1, <1>2

\* A message the replay drops is older than the snapshot, so nothing is held before it.
LEMMA DropsFirst ==
    ASSUME IInv, OrderInv, pc = "replay", replaying # <<>>,
           DropBeforeSnapshot(Head(replaying), anchor)
    PROVE  buffer = <<>>
<1> SUFFICES ASSUME buffer # <<>> PROVE FALSE
  OBVIOUS
<1>1. /\ 1 \in DOMAIN buffer /\ 1 \in DOMAIN replaying /\ Head(replaying) = replaying[1]
      /\ buffer[1] \in Item /\ replaying[1] \in Item
      /\ IsDiff(buffer[1]) /\ IsDiff(replaying[1])
  BY StreamTyped
<1>2. buffer[1].update_id < replaying[1].update_id
  BY <1>1 DEF OrderInv, Stream, Ahead, Sooner
<1>3. ~DropBeforeSnapshot(buffer[1], anchor) /\ DropBeforeSnapshot(replaying[1], anchor)
  BY <1>1 DEF OrderInv, Held
<1>4. buffer[1].update_id \in Int /\ replaying[1].update_id \in Int /\ anchor \in Int
  <2>1. anchor \in OptId
    BY DEF IInv, TypeOK, SyncTypeOK
  <2> QED BY <1>1, <2>1, ItemId, BoundAssumption DEF OptId, Ids, NoId
<1>5. CASE Venue = "binance_spot"
  BY <1>2, <1>3, <1>4, <1>5 DEF DropBeforeSnapshot
<1>6. CASE Venue = "binance_futures"
  BY <1>2, <1>3, <1>4, <1>6 DEF DropBeforeSnapshot
<1>7. CASE Venue = "deribit"
  BY <1>3, <1>7 DEF DropBeforeSnapshot
<1> QED BY <1>5, <1>6, <1>7, VenueAssumption DEF Venues

\* The order invariant is preserved.
LEMMA OrderKept == IInv /\ IInv' /\ RInv /\ RowInv /\ OrderInv /\ [Next]_vars => OrderInv'
<1> SUFFICES ASSUME IInv, IInv', RInv, RowInv, OrderInv, [Next]_vars PROVE OrderInv'
  OBVIOUS
<1>a. Streaming(book_events, buffer, replaying, wire, pushed)
  BY StreamTyped DEF Streaming, OrderInv
<1>b. Held
  BY DEF OrderInv
<1>c. pushed \in Nat /\ venue_id \in Nat /\ pushed <= venue_id
  BY StreamTyped
<1>1. CASE VenueStep
  <2>1. UNCHANGED <<book_events, buffer, replaying, anchor, synced, pc>>
    BY <1>1 DEF VenueStep, VenueUpdate, VenuePush, VenueTrade, control, ob, replay
  <2>2. \/ UNCHANGED <<wire, pushed>>
        \/ pushed' = venue_id /\ wire' = wire
        \/ /\ pushed < venue_id /\ pushed' = venue_id
           /\ \E ev : wire' = Append(wire, ev) /\ ev.update_id = venue_id
        \/ pushed' = pushed /\ \E ev : wire' = Append(wire, ev) /\ ~IsDiff(ev)
    BY <1>1 DEF VenueStep, VenueUpdate, VenuePush, VenueTrade, DiffEvents, IsDiff, socket
  <2>3. Streaming(book_events, buffer, replaying, wire', pushed')
    <3>1. CASE UNCHANGED <<wire, pushed>>
      BY <1>a, <3>1
    <3>2. CASE pushed' = venue_id /\ wire' = wire
      <4>1. PICK ev \in Item : ~IsDiff(ev)
        <5>1. [kind |-> "trade", update_id |-> 0] \in Item
          BY DEF Item, Trade
        <5> QED BY <5>1 DEF IsDiff
      <4> QED BY <1>a, <1>c, <3>2, <4>1, MoveSent
    <3>3. ASSUME NEW ev, pushed < venue_id, pushed' = venue_id, wire' = Append(wire, ev),
                 ev.update_id = venue_id
          PROVE  Streaming(book_events, buffer, replaying, wire', pushed')
      <4>1. ev \in Item /\ venue_id <= venue_id
        BY <1>c, <3>3, AppendedIsItem
      <4> QED BY <1>a, <1>c, <3>3, <4>1, MoveSent
    <3>4. ASSUME NEW ev, pushed' = pushed, wire' = Append(wire, ev), ~IsDiff(ev)
          PROVE  Streaming(book_events, buffer, replaying, wire', pushed')
      <4>1. ev \in Item /\ pushed <= pushed
        BY <1>c, <3>4, AppendedIsItem
      <4> QED BY <1>a, <1>c, <3>4, <4>1, MoveSent
    <3> QED BY <2>2, <3>1, <3>2, <3>3, <3>4
  <2> QED BY <1>b, <2>1, <2>3, OrderFollows, HeldUntouched
<1>2. CASE Resubscribe
  <2>1. /\ UNCHANGED <<book_events, buffer, replaying, anchor, synced, pc, pushed>>
        /\ wire' = Append(wire, SnapshotEvent(pushed)) /\ ~IsDiff(SnapshotEvent(pushed))
    BY <1>2 DEF Resubscribe, SnapshotEvent, IsDiff, venue, control, ob, replay
  <2>2. SnapshotEvent(pushed) \in Item /\ pushed <= pushed
    BY <1>c, <2>1, AppendedIsItem
  <2>3. Streaming(book_events, buffer, replaying, wire', pushed)
    BY <1>a, <1>c, <2>1, <2>2, MoveSent
  <2> QED BY <1>b, <2>1, <2>3, OrderFollows, HeldUntouched
<1>3. CASE Start
  <2>1. /\ book_events' = <<>> /\ buffer' = <<>> /\ replaying' = <<>> /\ wire' = <<>>
    BY <1>3 DEF Start, OpenSession
  <2>2. Streaming(book_events', buffer', replaying', wire', pushed')
    BY <2>1, EmptyOrder DEF Streaming, Stream
  <2> QED BY <2>1, <2>2, OrderFollows, HeldNothing
<1>4. CASE Connected
  <2>1. /\ UNCHANGED <<book_events, buffer, replaying, anchor, synced, pushed>>
        /\ pc = "connect" /\ pc' = "start_run"
        /\ wire' = IF InBand THEN <<SnapshotEvent(pushed)>> ELSE <<>>
    BY <1>4 DEF Connected, venue, ob, replay
  <2>2. ~IsDiff(SnapshotEvent(pushed))
    BY DEF SnapshotEvent, IsDiff
  <2>3. InBand => SnapshotEvent(pushed) \in Item
    <3>1. wire' \in Seq(Event \cup Trade)
      BY DEF IInv, TypeOK, VenueTypeOK
    <3>2. InBand => Len(wire') = 1 /\ wire'[1] = SnapshotEvent(pushed)
      BY <2>1
    <3> QED BY <3>1, <3>2 DEF Item
  <2>4. Streaming(book_events, buffer, replaying, wire', pushed)
    BY <1>a, <2>1, <2>2, <2>3, MoveForget
  <2> QED BY <1>b, <2>1, <2>4, OrderFollows, HeldUntouched
<1>5. CASE FetchServed \/ FetchAnswered \/ FetchFailed \/ Unsubscribe \/ ResubscribeFailed
  <2>1. UNCHANGED <<book_events, buffer, replaying, anchor, synced, pc, pushed, wire>>
    BY <1>5 DEF FetchServed, FetchAnswered, FetchFailed, Unsubscribe, ResubscribeFailed, venue,
       socket, control, ob, replay
  <2> QED BY <1>a, <1>b, <2>1, OrderFollows, HeldUntouched
<1>6. CASE RunStarted \/ LoopStep \/ FinishRun \/ Crash \/ UNCHANGED vars \/ ReplayEnd
  <2>1. /\ UNCHANGED <<book_events, buffer, replaying, anchor, synced, pushed, wire>>
        /\ \/ pc' = pc
           \/ pc = "replay" /\ replaying = <<>> /\ pc' = "tail"
           \/ pc \notin {"replay", "off", "done"} /\ pc' # "replay"
    BY <1>6 DEF RunStarted, LoopStep, EndOfMessage, RunUpdated, FinishRun, AfterClose, Crash,
       Yielded, vars, ReplayEnd, venue, socket, control, ob, replay
  <2> QED BY <1>a, <1>b, <2>1, OrderFollows, HeldUntouched
<1>7. CASE SourceClosed
  <2>1. /\ UNCHANGED <<book_events, buffer, replaying, pushed, wire>>
        /\ pc = "closing" /\ pc' # "replay" /\ ~synced'
    BY <1>7 DEF SourceClosed, AfterClose, venue, socket, replay
  <2>2. replaying' = <<>>
    BY <1>b, <2>1 DEF Held
  <2> QED BY <1>a, <2>1, <2>2, OrderFollows, HeldUnsynced
<1>8. CASE Reconnect
  <2>1. /\ UNCHANGED <<book_events, replaying, pushed, wire>> /\ buffer' = <<>> /\ pc = "sleep"
    BY <1>8 DEF Reconnect, OpenSession, venue, socket, replay
  <2>2. replaying' = <<>>
    BY <1>b, <2>1 DEF Held
  <2>3. Streaming(book_events, <<>>, replaying, wire, pushed)
    BY <1>a, MoveForget
  <2> QED BY <2>1, <2>2, <2>3, OrderFollows, HeldNothing
<1>9. CASE OpenFailed \/ Disconnected \/ Stop
  <2>1. /\ UNCHANGED <<book_events, buffer, replaying, anchor, synced, pushed>>
        /\ wire' = <<>> \/ wire' = wire
        /\ pc \notin {"replay", "off", "done"} /\ pc' # "replay"
    BY <1>9 DEF OpenFailed, Disconnected, Stop, CloseSession, InSession, venue, socket, ob, replay
  <2>2. Streaming(book_events, buffer, replaying, wire', pushed)
    BY <1>a, <2>1, MoveForget
  <2> QED BY <1>b, <2>1, <2>2, OrderFollows, HeldUntouched
<1>10. CASE RecvStep
  <2>1. /\ pc = "recv" /\ wire # <<>> /\ wire' = Tail(wire) /\ pushed' = pushed
        /\ pc' = "tail" \/ RecvFetchDone
    BY <1>10 DEF RecvStep, RecvTrade, RecvSnapshot, RecvUnsynced, RecvFetchFailed, RecvResyncSent,
       RecvApplied, RecvCrossed, RecvGap, ReceiveDepth, Receive, RecvFetchDone, venue
  <2>2. replaying = <<>> /\ (synced => buffer = <<>>)
    BY <1>b, <2>1 DEF Held
  <2>3. Streaming(book_events, buffer, <<>>, wire, pushed)
    BY <1>a, <2>2
  <2>4. /\ Streaming(book_events, buffer, <<>>, wire', pushed)
        /\ Streaming(book_events, Append(buffer, Head(wire)), <<>>, wire', pushed)
        /\ Streaming(book_events, <<>>, Append(buffer, Head(wire)), wire', pushed)
    BY <2>1, <2>3, MoveReceived
  <2>5. ASSUME NEW row, buffer = <<>>, Says(row, Head(wire))
        PROVE  Streaming(Append(book_events, row), <<>>, <<>>, wire', pushed)
    BY <2>1, <2>3, <2>5, MoveReceived
  <2>6. CASE RecvTrade
    <3>1. UNCHANGED <<book_events, buffer, replaying, anchor, synced>> /\ pc' = "tail"
      BY <2>6 DEF RecvTrade, ob, replay
    <3> QED BY <1>b, <2>1, <2>2, <2>4, <3>1, OrderFollows, HeldUntouched
  <2>7. CASE RecvUnsynced \/ RecvFetchFailed \/ RecvResyncSent
    <3>1. /\ UNCHANGED <<book_events, replaying, synced>> /\ ~synced /\ pc' = "tail"
          /\ buffer' = Append(buffer, Head(wire))
      BY <2>7 DEF RecvUnsynced, RecvFetchFailed, RecvResyncSent, ob, replay
    <3> QED BY <2>1, <2>2, <2>4, <3>1, OrderFollows, HeldUnsynced
  <2>8. CASE RecvSnapshot
    <3>1. /\ UNCHANGED replaying /\ buffer' = <<>> /\ Head(wire).kind = "snapshot"
          /\ book_events' = Append(book_events, Anchor(Head(wire), Reset(Head(wire).levels)))
      BY <2>8 DEF RecvSnapshot, ReceiveDepth, Receive, replay
    <3>2. PICK row : book_events' = Append(book_events, row) /\ ~IsDiff(row)
      BY <3>1 DEF Anchor, EventRow, IsDiff
    <3>3. row \in Item
      BY <3>2, AppendedIsItem
    <3>4. Streaming(book_events, <<>>, <<>>, wire', pushed)
      BY <2>4, MoveForget
    <3>5. Streaming(book_events', <<>>, <<>>, wire', pushed)
      BY <3>2, <3>3, <3>4, MoveAnchor
    <3> QED BY <2>1, <2>2, <3>1, <3>5, OrderFollows, HeldNothing
  <2>9. CASE RecvFetchDone
    <3>1. /\ replaying' = Append(buffer, Head(wire)) /\ buffer' = <<>> /\ pc' = "replay"
          /\ \E row : book_events' = Append(book_events, row) /\ ~IsDiff(row)
      BY <2>9 DEF RecvFetchDone, Anchor, EventRow, IsDiff
    <3>2. PICK row : book_events' = Append(book_events, row) /\ ~IsDiff(row)
      BY <3>1
    <3>3. row \in Item
      BY <3>2, AppendedIsItem
    <3>4. Streaming(book_events', <<>>, Append(buffer, Head(wire)), wire', pushed)
      BY <2>4, <3>2, <3>3, MoveAnchor
    <3> QED BY <2>1, <3>1, <3>4, OrderFollows, HeldNothing
  <2>10. CASE RecvApplied
    <3>1. /\ UNCHANGED <<buffer, replaying>> /\ synced /\ Head(wire).kind = "diff"
          /\ book_events' = Append(book_events, Applied(Head(wire), Apply(ladders, Head(wire))))
      BY <2>10 DEF RecvApplied, ReceiveDepth, Receive, replay
    <3>2. PICK row : /\ book_events' = Append(book_events, row)
                     /\ row.kind = "diff" /\ row.update_id = Head(wire).update_id
      BY <3>1 DEF Applied, EventRow
    <3>3. Says(row, Head(wire))
      BY <3>1, <3>2, AppendedIsItem DEF Says
    <3> QED BY <2>1, <2>2, <2>5, <3>1, <3>2, <3>3, OrderFollows, HeldNothing
  <2>11. CASE RecvCrossed \/ RecvGap
    <3>1. /\ UNCHANGED replaying /\ synced /\ Head(wire).kind = "diff" /\ ~synced'
          /\ \/ buffer' = buffer /\ book_events' = Append(book_events, NotApplied(Head(wire)))
             \/ buffer' = Append(buffer, Head(wire)) /\ book_events' = book_events
      BY <2>11 DEF RecvCrossed, RecvGap, ReceiveDepth, Receive, Gap, replay
    <3>2. Streaming(book_events', buffer', <<>>, wire', pushed)
      <4>1. CASE buffer' = buffer /\ book_events' = Append(book_events, NotApplied(Head(wire)))
        <5>1. PICK row : /\ book_events' = Append(book_events, row)
                         /\ row.kind = "diff" /\ row.update_id = Head(wire).update_id
          BY <4>1 DEF NotApplied, EventRow
        <5>2. Says(row, Head(wire))
          BY <3>1, <5>1, AppendedIsItem DEF Says
        <5> QED BY <2>2, <2>5, <3>1, <4>1, <5>1, <5>2
      <4>2. CASE buffer' = Append(buffer, Head(wire)) /\ book_events' = book_events
        BY <2>4, <4>2
      <4> QED BY <3>1, <4>1, <4>2
    <3>3. pc' = "tail"
      BY <2>11 DEF RecvCrossed, RecvGap
    <3> QED BY <2>1, <2>2, <3>1, <3>2, <3>3, OrderFollows, HeldUnsynced
  <2> QED BY <1>10, <2>6, <2>7, <2>8, <2>9, <2>10, <2>11 DEF RecvStep
<1>11. CASE ReplayDrop \/ ReplayKeep \/ ReplayApplied \/ ReplayCrossed \/ ReplayGap
  <2>1. /\ pc = "replay" /\ pc' = "replay" /\ replaying # <<>> /\ replaying' = Tail(replaying)
        /\ UNCHANGED <<anchor, wire, pushed>> /\ (synced' => synced)
        /\ \/ /\ buffer' = buffer /\ (synced \/ DropBeforeSnapshot(Head(replaying), anchor))
              /\ \E row : /\ book_events' = Append(book_events, row)
                          /\ row.kind = "diff" /\ row.update_id = Head(replaying).update_id
           \/ /\ buffer' = Append(buffer, Head(replaying)) /\ ~synced'
              /\ ~DropBeforeSnapshot(Head(replaying), anchor) /\ book_events' = book_events
    BY <1>11 DEF ReplayDrop, ReplayKeep, ReplayApplied, ReplayCrossed, ReplayGap, ReplayJoins,
       ReplayNext, Gap, Applied, NotApplied, EventRow, venue, socket, control, ob
  <2>2. Held'
    BY <1>b, <2>1, HeldReplay
  <2>3. CASE /\ buffer' = buffer /\ (synced \/ DropBeforeSnapshot(Head(replaying), anchor))
             /\ \E row : /\ book_events' = Append(book_events, row)
                         /\ row.kind = "diff" /\ row.update_id = Head(replaying).update_id
    <3>1. PICK row : /\ book_events' = Append(book_events, row)
                     /\ row.kind = "diff" /\ row.update_id = Head(replaying).update_id
      BY <2>3
    <3>2. Says(row, Head(replaying))
      <4>1. Head(replaying).kind = "diff"
        BY <2>1, StreamTyped DEF IsDiff
      <4> QED BY <3>1, <4>1, AppendedIsItem DEF Says
    <3>3. buffer = <<>>
      BY <1>b, <2>1, <2>3, DropsFirst DEF Held
    <3>4. Streaming(book_events', buffer', replaying', wire', pushed')
      BY <1>a, <2>1, <2>3, <3>1, <3>2, <3>3, MoveReplayed
    <3> QED BY <2>2, <3>4, OrderFollows
  <2>4. CASE buffer' = Append(buffer, Head(replaying)) /\ book_events' = book_events
    <3>1. Streaming(book_events', buffer', replaying', wire', pushed')
      BY <1>a, <2>1, <2>4, MoveReplayed
    <3> QED BY <2>2, <3>1, OrderFollows
  <2> QED BY <2>1, <2>3, <2>4
<1> QED
  BY <1>1, <1>2, <1>3, <1>4, <1>5, <1>6, <1>7, <1>8, <1>9, <1>10, <1>11
  DEF Next, FetchStep, OpenStep, CloseStep, ReplayStep, Ended

LEMMA SortedInOrder ==
    ASSUME NEW log, Sorted(log)
    PROVE  DiffsInOrder(log)
BY DEF Sorted, Sooner, IsDiff, DiffsInOrder

\* A process records the diffs in the order the venue numbered them and none twice,
\* through gaps, replays, resyncs and reconnects.
THEOREM RowsAreInOrder == Spec => []RecordedInOrder
<1>1. Init => OrderInv
  BY EmptyOrder DEF Init, OrderInv, Stream, Held
<1>2. IInv /\ IInv' /\ RInv /\ RowInv /\ OrderInv /\ [Next]_vars => OrderInv'
  BY OrderKept
<1>3. OrderInv => RecordedInOrder
  BY SortedInOrder DEF OrderInv, Stream, RecordedInOrder
<1> QED BY <1>1, <1>2, <1>3, Inductive, NothingIsBehind, RowsInductive, PTL DEF Spec

-----------------------------------------------------------------------------
(* Nothing a REST session receives is thrown away *)

ReceivedIds == {received[i] : i \in DOMAIN received}

\* Every id received is that of one message recorded, held or left to replay.
Account ==
    /\ DiffIds(book_events) \cup DiffIds(buffer) \cup DiffIds(replaying) = ReceivedIds
    /\ \A i, j \in DOMAIN received : i < j => received[i] < received[j]

\* A session that nothing cut short holds nothing when the next one opens.
NothingHeld == /\ pc \in {"connect", "start_run", "closing", "finish_run", "sleep"}
                     => buffer = <<>> \/ stopping
               /\ pc = "sleep" => ~stopping

KeptInv == Account /\ NothingHeld

LEMMA InDiffIds ==
    ASSUME NEW log, NEW id
    PROVE  id \in DiffIds(log) <=> \E i \in DOMAIN log : IsDiff(log[i]) /\ id = log[i].update_id
BY DEF DiffIds, IsDiff

LEMMA IdsOfAppend ==
    ASSUME NEW s \in Seq(Item), NEW ev \in Item
    PROVE  /\ IsDiff(ev) => DiffIds(Append(s, ev)) = DiffIds(s) \cup {ev.update_id}
           /\ ~IsDiff(ev) => DiffIds(Append(s, ev)) = DiffIds(s)
<1> DEFINE u == Append(s, ev)
<1>1. /\ Len(s) + 1 \in DOMAIN u /\ u[Len(s) + 1] = ev
      /\ \A i \in DOMAIN s : i \in DOMAIN u /\ u[i] = s[i]
      /\ \A i \in DOMAIN u : (i \in DOMAIN s /\ u[i] = s[i]) \/ (i = Len(s) + 1 /\ u[i] = ev)
  OBVIOUS
<1> HIDE DEF u
<1>2. ASSUME NEW id
      PROVE  id \in DiffIds(u) <=> id \in DiffIds(s) \/ (IsDiff(ev) /\ id = ev.update_id)
  BY <1>1, InDiffIds
<1> QED BY <1>2 DEF u

LEMMA IdsOfTail ==
    ASSUME NEW s \in Seq(Item), s # <<>>, IsDiff(Head(s))
    PROVE  DiffIds(s) = DiffIds(Tail(s)) \cup {Head(s).update_id}
<1>1. /\ 1 \in DOMAIN s /\ s[1] = Head(s)
      /\ \A i \in DOMAIN Tail(s) : i + 1 \in DOMAIN s /\ s[i + 1] = Tail(s)[i]
      /\ \A i \in DOMAIN s : i = 1 \/ (i - 1 \in DOMAIN Tail(s) /\ s[i] = Tail(s)[i - 1])
  OBVIOUS
<1>2. ASSUME NEW id
      PROVE  id \in DiffIds(s) <=> id \in DiffIds(Tail(s)) \/ id = Head(s).update_id
  <2>1. ASSUME id \in DiffIds(s) PROVE id \in DiffIds(Tail(s)) \/ id = Head(s).update_id
    <3>1. PICK i \in DOMAIN s : IsDiff(s[i]) /\ id = s[i].update_id
      BY <2>1, InDiffIds
    <3>2. CASE i - 1 \in DOMAIN Tail(s) /\ s[i] = Tail(s)[i - 1]
      BY <3>1, <3>2, InDiffIds
    <3> QED BY <1>1, <3>1, <3>2
  <2>2. ASSUME id \in DiffIds(Tail(s)) PROVE id \in DiffIds(s)
    <3>1. PICK i \in DOMAIN Tail(s) : IsDiff(Tail(s)[i]) /\ id = Tail(s)[i].update_id
      BY <2>2, InDiffIds
    <3>2. i + 1 \in DOMAIN s /\ s[i + 1] = Tail(s)[i]
      BY <1>1
    <3> QED BY <3>1, <3>2, InDiffIds
  <2>3. Head(s).update_id \in DiffIds(s)
    BY <1>1, InDiffIds
  <2> QED BY <2>1, <2>2, <2>3
<1> QED BY <1>2

LEMMA IdsOfNone == DiffIds(<<>>) = {}
BY DEF DiffIds

\* One sequence behind another.
LEMMA JoinOrder ==
    ASSUME NEW s \in Seq(Item), NEW t \in Seq(Item)
    PROVE  /\ s \o t \in Seq(Item)
           /\ Sorted(s) /\ Sorted(t) /\ Ahead(s, t) => Sorted(s \o t)
           /\ \A u : Ahead(s, u) /\ Ahead(t, u) => Ahead(s \o t, u)
           /\ DiffIds(s \o t) = DiffIds(s) \cup DiffIds(t)
<1> DEFINE st == s \o t
<1>1. /\ Len(s) \in Nat /\ DOMAIN s = 1..Len(s) /\ DOMAIN t = 1..Len(t) /\ st \in Seq(Item)
      /\ DOMAIN st = 1..(Len(s) + Len(t)) /\ Len(t) \in Nat
      /\ \A i \in DOMAIN s : i \in DOMAIN st /\ st[i] = s[i]
      /\ \A i \in DOMAIN t : Len(s) + i \in DOMAIN st /\ st[Len(s) + i] = t[i]
      /\ \A i \in DOMAIN st : \/ i \in DOMAIN s /\ st[i] = s[i]
                              \/ i > Len(s) /\ i - Len(s) \in DOMAIN t /\ st[i] = t[i - Len(s)]
  OBVIOUS
<1> HIDE DEF st
<1>2. ASSUME Sorted(s), Sorted(t), Ahead(s, t) PROVE Sorted(st)
  <2> SUFFICES ASSUME NEW i \in DOMAIN st, NEW j \in DOMAIN st, i < j PROVE Sooner(st[i], st[j])
    BY DEF Sorted
  <2>1. CASE i \in DOMAIN s /\ st[i] = s[i] /\ j \in DOMAIN s /\ st[j] = s[j]
    BY <1>2, <2>1 DEF Sorted
  <2>2. CASE i \in DOMAIN s /\ st[i] = s[i] /\ j - Len(s) \in DOMAIN t /\ st[j] = t[j - Len(s)]
    BY <1>2, <2>2 DEF Ahead
  <2>3. CASE /\ i - Len(s) \in DOMAIN t /\ st[i] = t[i - Len(s)]
             /\ j - Len(s) \in DOMAIN t /\ st[j] = t[j - Len(s)]
    <3>1. i - Len(s) < j - Len(s)
      BY <1>1
    <3> QED BY <1>2, <2>3, <3>1 DEF Sorted
  <2>4. ~(i > Len(s) /\ j \in DOMAIN s)
    BY <1>1
  <2> QED BY <1>1, <2>1, <2>2, <2>3, <2>4
<1>3. ASSUME NEW u, Ahead(s, u), Ahead(t, u) PROVE Ahead(st, u)
  BY <1>1, <1>3 DEF Ahead
<1>4. ASSUME NEW id PROVE id \in DiffIds(st) <=> id \in DiffIds(s) \/ id \in DiffIds(t)
  <2>1. ASSUME id \in DiffIds(st) PROVE id \in DiffIds(s) \/ id \in DiffIds(t)
    <3>1. PICK i \in DOMAIN st : IsDiff(st[i]) /\ id = st[i].update_id
      BY <2>1, InDiffIds
    <3>2. CASE i - Len(s) \in DOMAIN t /\ st[i] = t[i - Len(s)]
      BY <3>1, <3>2, InDiffIds
    <3>3. CASE i \in DOMAIN s /\ st[i] = s[i]
      BY <3>1, <3>3, InDiffIds
    <3> QED BY <1>1, <3>2, <3>3
  <2>2. ASSUME id \in DiffIds(s) PROVE id \in DiffIds(st)
    <3>1. PICK i \in DOMAIN s : IsDiff(s[i]) /\ id = s[i].update_id
      BY <2>2, InDiffIds
    <3> QED BY <1>1, <3>1, InDiffIds
  <2>3. ASSUME id \in DiffIds(t) PROVE id \in DiffIds(st)
    <3>1. PICK i \in DOMAIN t : IsDiff(t[i]) /\ id = t[i].update_id
      BY <2>3, InDiffIds
    <3>2. Len(s) + i \in DOMAIN st /\ st[Len(s) + i] = t[i]
      BY <1>1
    <3> QED BY <3>1, <3>2, InDiffIds
  <2> QED BY <2>1, <2>2, <2>3
<1> QED BY <1>1, <1>2, <1>3, <1>4 DEF st

\* The account holds the property.
LEMMA AccountIsTheRecord ==
    ASSUME IInv, OrderInv, Account
    PROVE  StreamIsRecorded
<1>1. Streaming(book_events, buffer, replaying, wire, pushed)
  BY StreamTyped DEF Streaming, OrderInv
<1> DEFINE rows == book_events \o buffer
           kept == rows \o replaying
<1>2. /\ rows \in Seq(Item) /\ Sorted(rows) /\ Ahead(rows, replaying)
      /\ DiffIds(rows) = DiffIds(book_events) \cup DiffIds(buffer)
  BY <1>1, JoinOrder DEF Streaming, Stream
<1> HIDE DEF rows
<1>3. Sorted(kept) /\ DiffIds(kept) = DiffIds(rows) \cup DiffIds(replaying)
  BY <1>1, <1>2, JoinOrder DEF Streaming, Stream
<1>4. DiffsInOrder(kept)
  BY <1>3, SortedInOrder
<1>5. DiffIds(kept) = {received[i] : i \in DOMAIN received}
  BY <1>2, <1>3 DEF Account, ReceivedIds
<1> HIDE DEF kept
<1>6. kept = book_events \o buffer \o replaying
  BY DEF kept, rows
<1> QED BY <1>4, <1>5, <1>6 DEF StreamIsRecorded, Account

\* A message received is kept: its id is newer than all before it.
LEMMA AccountReceives ==
    ASSUME IInv, OrderInv, Account, wire # <<>>, IsDiff(Head(wire)),
           received' = Append(received, Head(wire).update_id),
           (DiffIds(book_events) \cup DiffIds(buffer) \cup DiffIds(replaying))'
               = DiffIds(book_events) \cup DiffIds(buffer) \cup DiffIds(replaying)
                     \cup {Head(wire).update_id}
    PROVE  Account'
<1> DEFINE id == Head(wire).update_id
<1>1. Streaming(book_events, buffer, replaying, wire, pushed)
  BY StreamTyped DEF Streaming, OrderInv
<1>2. /\ Before(book_events, Head(wire)) /\ Before(buffer, Head(wire))
      /\ Before(replaying, Head(wire))
  BY <1>1, TailOrder DEF Streaming, Stream
<1>3. received \in Seq(Nat) /\ id \in Nat
  <2>1. Head(wire) \in Item
    BY <1>1, TailOrder DEF Streaming
  <2>2. received \in Seq(Ids)
    BY DEF IInv, TypeOK, RowsTypeOK
  <2> QED BY <2>1, <2>2, ItemId, BoundAssumption DEF Ids
<1>4. \A i \in DOMAIN received : received[i] < id
  <2> SUFFICES ASSUME NEW i \in DOMAIN received PROVE received[i] < id
    OBVIOUS
  <2>1. \/ received[i] \in DiffIds(book_events) \/ received[i] \in DiffIds(buffer)
        \/ received[i] \in DiffIds(replaying)
    BY DEF Account, ReceivedIds
  <2> QED BY <1>2, <2>1, InDiffIds DEF Before, Sooner
<1>5. /\ \A i \in DOMAIN received' :
            \/ i \in DOMAIN received /\ received'[i] = received[i]
            \/ i = Len(received) + 1 /\ received'[i] = id
      /\ \A i \in DOMAIN received : i \in DOMAIN received' /\ received'[i] = received[i]
      /\ Len(received) + 1 \in DOMAIN received' /\ received'[Len(received) + 1] = id
      /\ \A i \in DOMAIN received : i < Len(received) + 1 /\ i \in Nat
  BY <1>3
<1>6. ReceivedIds' = ReceivedIds \cup {id}
  BY <1>5 DEF ReceivedIds
<1>7. \A i, j \in DOMAIN received' : i < j => received'[i] < received'[j]
  <2> SUFFICES ASSUME NEW i \in DOMAIN received', NEW j \in DOMAIN received', i < j
               PROVE  received'[i] < received'[j]
    OBVIOUS
  <2>1. i \in DOMAIN received /\ received'[i] = received[i]
    BY <1>3, <1>5
  <2> QED BY <1>4, <1>5, <2>1 DEF Account
<1> QED BY <1>6, <1>7 DEF Account

LEMMA RowOfDiff ==
    ASSUME IInv', NEW s, s = book_events, s \in Seq(Item), NEW id,
           \E row : book_events' = Append(s, row) /\ row.kind = "diff" /\ row.update_id = id
    PROVE  DiffIds(book_events') = DiffIds(s) \cup {id}
<1>1. PICK row : book_events' = Append(s, row) /\ row.kind = "diff" /\ row.update_id = id
  OBVIOUS
<1>2. row \in Item
  <2>1. Append(s, row) \in Seq(BookEvent)
    BY <1>1 DEF IInv, TypeOK, RowsTypeOK
  <2>2. Len(s) + 1 \in DOMAIN Append(s, row) /\ Append(s, row)[Len(s) + 1] = row
    OBVIOUS
  <2> QED BY <2>1, <2>2 DEF Item
<1> QED BY <1>1, <1>2, IdsOfAppend DEF IsDiff

LEMMA AccountStands ==
    ASSUME Account, UNCHANGED received,
           (DiffIds(book_events) \cup DiffIds(buffer) \cup DiffIds(replaying))'
               = DiffIds(book_events) \cup DiffIds(buffer) \cup DiffIds(replaying)
    PROVE  Account'
BY DEF Account, ReceivedIds

\* A handler runs inside a session, and leaves it open.
LEMMA HandlerHoldsWhatItWants ==
    ASSUME pc' \in {"recv", "tail", "replay", "update_run", "off", "done"}
    PROVE  NothingHeld'
BY DEF NothingHeld

LEMMA KeptReceives ==
    ASSUME IInv, IInv', RInv, OrderInv, Account, ~InBand, RecvStep
    PROVE  Account'
<1>1. /\ pc = "recv" /\ wire # <<>> /\ wire' = Tail(wire) /\ replaying = <<>>
      /\ synced => buffer = <<>>
  BY DEF RecvStep, RecvTrade, RecvSnapshot, RecvUnsynced, RecvFetchFailed, RecvResyncSent,
     RecvApplied, RecvCrossed, RecvGap, ReceiveDepth, Receive, RecvFetchDone, OrderInv, Held
<1>2. /\ book_events \in Seq(Item) /\ buffer \in Seq(Item) /\ replaying \in Seq(Item)
      /\ wire \in Seq(Item) /\ Head(wire) \in Item
  BY <1>1, StreamTyped, TailOrder
<1>3. CASE RecvTrade
  BY <1>3, AccountStands DEF RecvTrade, replay
<1>4. CASE RecvSnapshot
  <2>1. NoSnapshot(wire) /\ 1 \in DOMAIN wire /\ Head(wire) = wire[1]
    BY <1>1, <1>2 DEF RInv, AnswerIsAhead
  <2> QED BY <1>4, <2>1 DEF RecvSnapshot, ReceiveDepth, Receive, NoSnapshot
<1>5. CASE ~RecvTrade /\ ~RecvSnapshot
  <2>1. IsDiff(Head(wire)) /\ received' = Append(received, Head(wire).update_id)
    BY <1>5 DEF RecvStep, RecvUnsynced, RecvFetchFailed, RecvResyncSent, RecvFetchDone,
       RecvApplied, RecvCrossed, RecvGap, ReceiveDepth, Receive, IsDiff
  <2>2. CASE RecvUnsynced \/ RecvFetchFailed \/ RecvResyncSent
    <3>1. UNCHANGED <<book_events, replaying>> /\ buffer' = Append(buffer, Head(wire))
      BY <2>2 DEF RecvUnsynced, RecvFetchFailed, RecvResyncSent, replay
    <3>2. DiffIds(buffer') = DiffIds(buffer) \cup {Head(wire).update_id}
      BY <1>2, <2>1, <3>1, IdsOfAppend
    <3> QED BY <1>1, <2>1, <3>1, <3>2, AccountReceives
  <2>3. CASE RecvFetchDone
    <3>1. /\ replaying' = Append(buffer, Head(wire)) /\ buffer' = <<>>
          /\ \E row : book_events' = Append(book_events, row) /\ ~IsDiff(row)
      BY <2>3 DEF RecvFetchDone, Anchor, EventRow, IsDiff
    <3>2. DiffIds(book_events') = DiffIds(book_events)
      <4>1. PICK row : book_events' = Append(book_events, row) /\ ~IsDiff(row)
        BY <3>1
      <4>2. row \in Item
        BY <4>1, AppendedIsItem
      <4> QED BY <1>2, <4>1, <4>2, IdsOfAppend
    <3>3. DiffIds(replaying') = DiffIds(buffer) \cup {Head(wire).update_id}
      BY <1>2, <2>1, <3>1, IdsOfAppend
    <3>4. DiffIds(buffer') = {} /\ DiffIds(replaying) = {}
      BY <1>1, <3>1, IdsOfNone
    <3> QED BY <1>1, <2>1, <3>2, <3>3, <3>4, AccountReceives
  <2>4. CASE RecvApplied
    <3>1. /\ UNCHANGED <<buffer, replaying>>
          /\ \E row : book_events' = Append(book_events, row) /\ row.kind = "diff"
                      /\ row.update_id = Head(wire).update_id
      BY <2>4 DEF RecvApplied, Applied, EventRow, replay
    <3>2. DiffIds(book_events') = DiffIds(book_events) \cup {Head(wire).update_id}
      BY <1>2, <3>1, RowOfDiff
    <3> QED BY <2>1, <3>1, <3>2, <1>1, AccountReceives
  <2>5. CASE RecvCrossed \/ RecvGap
    <3>1. /\ UNCHANGED <<book_events, replaying>> /\ buffer' = Append(buffer, Head(wire))
      BY <2>5 DEF RecvCrossed, RecvGap, Gap, replay
    <3>2. DiffIds(buffer') = DiffIds(buffer) \cup {Head(wire).update_id}
      BY <1>2, <2>1, <3>1, IdsOfAppend
    <3> QED BY <1>1, <2>1, <3>1, <3>2, AccountReceives
  <2> QED BY <1>5, <2>2, <2>3, <2>4, <2>5 DEF RecvStep
<1> QED BY <1>3, <1>4, <1>5

LEMMA KeptReplays ==
    ASSUME IInv, IInv', OrderInv, Account,
           ReplayDrop \/ ReplayKeep \/ ReplayApplied \/ ReplayCrossed \/ ReplayGap, ~InBand
    PROVE  Account'
<1>1. /\ replaying # <<>> /\ replaying' = Tail(replaying) /\ received' = received
      /\ \/ /\ buffer' = buffer
            /\ \E row : /\ book_events' = Append(book_events, row)
                        /\ row.kind = "diff" /\ row.update_id = Head(replaying).update_id
         \/ buffer' = Append(buffer, Head(replaying)) /\ book_events' = book_events
  BY DEF ReplayDrop, ReplayKeep, ReplayApplied, ReplayCrossed, ReplayGap, ReplayJoins,
     ReplayNext, Gap, Applied, NotApplied, EventRow
<1>2. /\ book_events \in Seq(Item) /\ buffer \in Seq(Item) /\ replaying \in Seq(Item)
      /\ Head(replaying) \in Item /\ IsDiff(Head(replaying))
  BY <1>1, StreamTyped, TailOrder
<1>3. DiffIds(replaying) = DiffIds(replaying') \cup {Head(replaying).update_id}
  BY <1>1, <1>2, IdsOfTail
<1>4. CASE /\ buffer' = buffer
           /\ \E row : /\ book_events' = Append(book_events, row)
                       /\ row.kind = "diff" /\ row.update_id = Head(replaying).update_id
  <2>1. DiffIds(book_events') = DiffIds(book_events) \cup {Head(replaying).update_id}
    BY <1>2, <1>4, RowOfDiff
  <2> QED BY <1>1, <1>3, <1>4, <2>1, AccountStands
<1>5. CASE buffer' = Append(buffer, Head(replaying)) /\ book_events' = book_events
  <2>1. DiffIds(buffer') = DiffIds(buffer) \cup {Head(replaying).update_id}
    BY <1>2, <1>5, IdsOfAppend
  <2> QED BY <1>1, <1>3, <1>5, <2>1, AccountStands
<1> QED BY <1>1, <1>4, <1>5

\* The account balances after every step of a session the venue does not cut short.
LEMMA KeptNext ==
    ASSUME ~InBand, "disconnect" \notin Faults
    PROVE  IInv /\ IInv' /\ RInv /\ OrderInv /\ KeptInv /\ [Next]_vars => KeptInv'
<1> SUFFICES ASSUME IInv, IInv', RInv, OrderInv, KeptInv, [Next]_vars PROVE KeptInv'
  OBVIOUS
<1>0. Account /\ NothingHeld
  BY DEF KeptInv
<1>1. CASE RecvStep
  <2>1. Account'
    BY <1>0, <1>1, KeptReceives
  <2>2. pc' = "tail" \/ pc' = "replay"
    BY <1>1 DEF RecvStep, RecvTrade, RecvSnapshot, RecvUnsynced, RecvFetchFailed, RecvResyncSent,
       RecvFetchDone, RecvApplied, RecvCrossed, RecvGap
  <2> QED BY <2>1, <2>2, HandlerHoldsWhatItWants DEF KeptInv
<1>2. CASE ReplayDrop \/ ReplayKeep \/ ReplayApplied \/ ReplayCrossed \/ ReplayGap
  <2>1. Account'
    BY <1>0, <1>2, KeptReplays
  <2>2. pc' = "replay"
    BY <1>2 DEF ReplayDrop, ReplayKeep, ReplayApplied, ReplayCrossed, ReplayGap, ReplayJoins,
       ReplayNext, control
  <2> QED BY <2>1, <2>2, HandlerHoldsWhatItWants DEF KeptInv
<1>3. CASE Start
  <2>1. book_events' = <<>> /\ buffer' = <<>> /\ replaying' = <<>> /\ received' = <<>>
        /\ pc' = "connect"
    BY <1>3 DEF Start, OpenSession
  <2>2. Account'
    BY <2>1, IdsOfNone DEF Account, ReceivedIds
  <2> QED BY <2>1, <2>2 DEF KeptInv, NothingHeld
<1>4. CASE Reconnect
  <2>1. /\ UNCHANGED <<book_events, replaying, received>> /\ buffer' = <<>> /\ buffer = <<>>
        /\ pc' = "connect"
    BY <1>0, <1>4 DEF Reconnect, OpenSession, NothingHeld, replay
  <2>2. Account'
    BY <1>0, <2>1, AccountStands
  <2> QED BY <2>1, <2>2 DEF KeptInv, NothingHeld
<1>5. CASE VenueStep \/ FetchStep \/ Connected \/ RunStarted \/ OpenFailed \/ SourceClosed
           \/ FinishRun \/ ReplayEnd \/ LoopStep \/ Stop \/ Crash \/ UNCHANGED vars
  <2>1. UNCHANGED <<book_events, buffer, replaying, received>>
    BY <1>5 DEF VenueStep, VenueUpdate, VenuePush, VenueTrade, FetchStep, FetchServed,
       FetchAnswered, FetchFailed, Unsubscribe, Resubscribe, ResubscribeFailed, Connected,
       RunStarted, OpenFailed, SourceClosed, FinishRun, ReplayEnd, LoopStep, EndOfMessage,
       RunUpdated, Stop, Crash, vars, replay
  <2>2. Account'
    BY <1>0, <2>1, AccountStands
  <2>3. NothingHeld'
    <3>1. CASE VenueStep \/ FetchStep \/ UNCHANGED vars
      BY <1>0, <2>1, <3>1 DEF VenueStep, VenueUpdate, VenuePush, VenueTrade, FetchStep,
         FetchServed, FetchAnswered, FetchFailed, Unsubscribe, Resubscribe, ResubscribeFailed,
         vars, control, NothingHeld
    <3>2. CASE RunStarted \/ ReplayEnd \/ LoopStep \/ Crash
      BY <3>2, HandlerHoldsWhatItWants DEF RunStarted, ReplayEnd, LoopStep, EndOfMessage,
         RunUpdated, Crash
    <3>3. CASE Connected \/ OpenFailed \/ SourceClosed \/ FinishRun
      BY <1>0, <2>1, <3>3 DEF Connected, OpenFailed, CloseSession, SourceClosed, FinishRun,
         AfterClose, NothingHeld
    <3>4. CASE Stop
      BY <3>4 DEF Stop, CloseSession, NothingHeld
    <3> QED BY <1>5, <3>1, <3>2, <3>3, <3>4
  <2> QED BY <2>2, <2>3 DEF KeptInv
<1>6. ~Disconnected
  BY DEF Disconnected
<1> QED BY <1>1, <1>2, <1>3, <1>4, <1>5, <1>6
        DEF Next, OpenStep, CloseStep, ReplayStep, Ended

\* Within a session of a REST venue, one that no disconnect ends, every diff received
\* and no other is recorded or waits for a snapshot, once and in order: through any
\* number of gaps and failed fetches, a replay cut short and stops.
THEOREM NothingIsThrownAway ==
    ASSUME ~InBand, "disconnect" \notin Faults
    PROVE  Spec => []StreamIsRecorded
<1>1. Init => OrderInv
  BY EmptyOrder DEF Init, OrderInv, Stream, Held
<1>2. IInv /\ IInv' /\ RInv /\ RowInv /\ OrderInv /\ [Next]_vars => OrderInv'
  BY OrderKept
<1>3. Init => KeptInv
  BY IdsOfNone DEF Init, KeptInv, Account, ReceivedIds, NothingHeld
<1>4. IInv /\ IInv' /\ RInv /\ OrderInv /\ KeptInv /\ [Next]_vars => KeptInv'
  BY KeptNext
<1>5. IInv /\ OrderInv /\ KeptInv => StreamIsRecorded
  BY AccountIsTheRecord DEF KeptInv
<1> QED BY <1>1, <1>2, <1>3, <1>4, <1>5, Inductive, NothingIsBehind, RowsInductive, PTL DEF Spec

=============================================================================
