------------------------------ MODULE Sessions ------------------------------
(***************************************************************************)
(* What stream_runs says about time.  One collector's session loop          *)
(* (run() of api/src/collectors/stream.py) with its back-off, over process  *)
(* starts, clean stops and crashes, and the rows start_run, finish_run and  *)
(* close_orphan_runs of adapters/database/repositories/raw.py stamp with    *)
(* NOW().  StreamCollector has what happens inside a session.               *)
(*                                                                         *)
(* A statement takes no time; awaiting the venue, and sleeping, may.        *)
(***************************************************************************)
EXTENDS Integers, FiniteSets, Sequences

CONSTANTS
    ReconnectMin, ReconnectMax,   \* settings.reconnect_min_seconds, _max_seconds
    Faults,                       \* what may go wrong, a subset of FaultKinds
    MaxTime,                      \* bound: the clock
    MaxRows                       \* bound: sessions

FaultKinds == {"connect", "db", "crash"}

ASSUME SessionsAssumption ==
    /\ ReconnectMin \in Nat \ {0} /\ ReconnectMax \in Nat /\ ReconnectMin <= ReconnectMax
    /\ Faults \subseteq FaultKinds /\ MaxTime \in Nat /\ MaxRows \in Nat

VARIABLES
    now,
    pc,         \* "off", or the await of run(): "connect", "start_run", "session",
                \* "close", "sleep"
    stopping,
    connected,  \* StreamState.connected
    backoff,
    remaining,  \* of the sleep
    run_id,
    rows,       \* stream_runs of this stream
    forgotten,  \* history: rows left open by a statement that failed
    attended,   \* history: the seconds in which the stream was connected throughout
    refusals,   \* history: attempts that failed since the last session
    slept       \* history: length of this sleep so far

vars == <<now, pc, stopping, connected, backoff, remaining, run_id, rows, forgotten,
          attended, refusals, slept>>

Never == -1                                   \* NULL
Least(a, b) == IF a <= b THEN a ELSE b

-----------------------------------------------------------------------------
(* The rows *)

NewRow == [connected_at |-> now, disconnected_at |-> Never, reason |-> "none"]
Ended(row, why) == [row EXCEPT !.disconnected_at = now, !.reason = why]

OrphansAreLeft(table) == table                \* mutant
CloseOrphans(table) ==
    [i \in DOMAIN table |->
        IF table[i].disconnected_at = Never
        THEN Ended(table[i], "orphan_closed_on_startup") ELSE table[i]]

\* COALESCE(disconnected_at, NOW())
EndOf(row) == IF row.disconnected_at = Never THEN now ELSE row.disconnected_at

SecondsOf(row) == row.connected_at..(EndOf(row) - 1)

\* Mutant: every session counts up to now.
SecondsUntilNow ==
    Cardinality(UNION {{i} \X (rows[i].connected_at..(now - 1)) : i \in DOMAIN rows})

\* connected_seconds of run_stats, served by /coverage: the length of all rows, what
\* belongs to two of them counted twice.
ConnectedSeconds == Cardinality(UNION {{i} \X SecondsOf(rows[i]) : i \in DOMAIN rows})

\* The statement run() awaits, and what it does to the table.
Statement ==
    \/ pc = "start_run" /\ rows' = Append(rows, NewRow)
    \/ pc = "close" /\ run_id # Never /\ rows' = [rows EXCEPT ![run_id] = Ended(@, "closed")]

-----------------------------------------------------------------------------
(* run() *)

Boot ==
    /\ pc = "off" /\ Len(rows) < MaxRows
    /\ rows' = CloseOrphans(rows)
    /\ pc' = "connect" /\ stopping' = FALSE /\ connected' = FALSE
    /\ backoff' = ReconnectMin /\ run_id' = Never
    /\ refusals' = 0 /\ slept' = 0 /\ remaining' = 0
    /\ UNCHANGED <<now, forgotten, attended>>

Connected ==
    /\ pc = "connect"
    /\ pc' = "start_run" /\ connected' = TRUE
    /\ UNCHANGED <<now, stopping, backoff, remaining, run_id, rows, forgotten, attended,
                   refusals, slept>>

\* _open_session returned: the back-off starts over.
RunStarted ==
    /\ pc = "start_run" /\ Statement
    /\ run_id' = Len(rows) + 1
    /\ pc' = "session" /\ backoff' = ReconnectMin /\ refusals' = 0
    /\ UNCHANGED <<now, stopping, connected, remaining, forgotten, attended, slept>>

\* connect() or start_run() raised.
OpenFailed ==
    /\ \/ pc = "connect" /\ "connect" \in Faults /\ UNCHANGED <<rows, forgotten>>
       \/ /\ pc = "start_run" /\ "db" \in Faults
          /\ \/ UNCHANGED <<rows, forgotten>>
             \/ Statement /\ forgotten' = forgotten \cup {Len(rows) + 1}
    /\ pc' = "close" /\ refusals' = refusals + 1
    /\ UNCHANGED <<now, stopping, connected, backoff, remaining, run_id, attended, slept>>

\* The venue hung up.
SessionEnds ==
    /\ pc = "session" /\ pc' = "close"
    /\ UNCHANGED <<now, stopping, connected, backoff, remaining, run_id, rows, forgotten,
                   attended, refusals, slept>>

\* The back-off, and the up to a quarter of jitter on top of it.
Delays == backoff..((5 * backoff) \div 4)

\* Mutant: the session's row id survives its end.
ClosedKeepsRunId ==
    /\ pc = "close" /\ connected' = FALSE
    /\ IF run_id = Never THEN UNCHANGED rows
       ELSE rows' = [rows EXCEPT ![run_id] = Ended(@, "closed")]
    /\ slept' = 0
    /\ IF stopping THEN pc' = "off" /\ remaining' = 0
                   ELSE pc' = "sleep" /\ remaining' \in Delays
    /\ UNCHANGED <<now, stopping, backoff, run_id, forgotten, attended, refusals>>

\* source.close() returned; finish_run, whose failure is logged; then the sleep.
Closed ==
    /\ pc = "close"
    /\ connected' = FALSE
    /\ \/ run_id = Never /\ UNCHANGED <<rows, forgotten>>
       \/ Statement /\ UNCHANGED forgotten
       \/ /\ run_id # Never /\ "db" \in Faults
          /\ UNCHANGED rows /\ forgotten' = forgotten \cup {run_id}
    /\ run_id' = Never /\ slept' = 0
    /\ IF stopping THEN pc' = "off" /\ remaining' = 0
                   ELSE pc' = "sleep" /\ remaining' \in Delays
    /\ UNCHANGED <<now, stopping, backoff, attended, refusals>>

NextBackoffStays == backoff                   \* mutant
NextBackoff == Least(2 * backoff, ReconnectMax)

Reopen ==
    /\ pc = "sleep" /\ remaining = 0 /\ Len(rows) < MaxRows
    /\ pc' = "connect" /\ backoff' = NextBackoff
    /\ UNCHANGED <<now, stopping, connected, remaining, run_id, rows, forgotten, attended,
                   refusals, slept>>

\* stop() cancels the task: run() closes the session it is in, and a cancellation
\* in _close_session itself, or in the sleep, ends the task there.  The statement
\* it awaited may be carried out.
Stop ==
    /\ pc # "off" /\ ~stopping
    /\ stopping' = TRUE
    /\ pc' = IF pc \in {"close", "sleep"} THEN "off" ELSE "close"
    /\ Statement \/ UNCHANGED rows
    /\ UNCHANGED <<now, connected, backoff, remaining, run_id, forgotten, attended, refusals,
                   slept>>

Crash ==
    /\ pc # "off" /\ "crash" \in Faults
    /\ pc' = "off"
    /\ Statement \/ UNCHANGED rows
    /\ UNCHANGED <<now, stopping, connected, backoff, remaining, run_id, forgotten, attended,
                   refusals, slept>>

\* A second passes: while the process is down, asleep or awaits the venue.
Second ==
    /\ pc # "start_run" /\ now < MaxTime
    /\ pc = "sleep" => remaining > 0
    /\ now' = now + 1
    /\ attended' = IF connected /\ pc # "off" THEN attended \cup {now} ELSE attended
    /\ remaining' = IF pc = "sleep" THEN remaining - 1 ELSE remaining
    /\ slept' = IF pc = "sleep" THEN slept + 1 ELSE slept
    /\ UNCHANGED <<pc, stopping, connected, backoff, run_id, rows, forgotten, refusals>>

\* The end of the clock or of the rows.
Over == (now = MaxTime \/ Len(rows) = MaxRows) /\ UNCHANGED vars

Init ==
    /\ now = 0 /\ pc = "off" /\ stopping = FALSE /\ connected = FALSE
    /\ backoff = ReconnectMin /\ remaining = 0 /\ run_id = Never /\ rows = <<>>
    /\ forgotten = {} /\ attended = {} /\ refusals = 0 /\ slept = 0

Next == \/ Boot \/ Connected \/ RunStarted \/ OpenFailed \/ SessionEnds \/ Closed
        \/ Reopen \/ Stop \/ Crash \/ Second \/ Over

Spec == Init /\ [][Next]_vars

-----------------------------------------------------------------------------
(* What stream_runs promises *)

\* A session that was closed by its own process was connected in every second its
\* row claims, whatever crashed or was stopped before and after it.
FinishedRowsAreTrue ==
    \A i \in DOMAIN rows : rows[i].reason = "closed" => SecondsOf(rows[i]) \subseteq attended

\* "one row per WebSocket session" (02-create-schema.sql): no second belongs to two
\* sessions, a crash, a restart and the rows they leave open included, unless the
\* statement that was to close a row, or to report it, failed.
RowsDoNotOverlap ==
    \A i, j \in DOMAIN rows \ forgotten :
        i # j => SecondsOf(rows[i]) \cap SecondsOf(rows[j]) = {}

\* While the node serves, /coverage claims no more seconds than it attended, as
\* long as no row had to be closed for a dead process, or was forgotten.
CoverageIsNotInflated ==
    (pc # "off" /\ forgotten = {}
        /\ \A i \in DOMAIN rows : rows[i].reason # "orphan_closed_on_startup")
        => ConnectedSeconds <= Cardinality(attended)

\* A venue that refuses is asked less and less often, down to reconnect_max_seconds.
RefusalsSpaceAttempts ==
    [][pc = "sleep" /\ pc' = "connect"
        => slept >= Least(ReconnectMax,
                          ReconnectMin * 2 ^ (IF refusals = 0 THEN 0 ELSE refusals - 1))]_vars

=============================================================================
