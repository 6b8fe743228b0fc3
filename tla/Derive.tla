------------------------------- MODULE Derive -------------------------------
(***************************************************************************)
(* The derive job (api/src/derive/runner.py, features.py, qa/gates.py and   *)
(* adapters/database/repositories/grid.py): it reads the raw layer window   *)
(* by window, stages the rows of the grid, runs the gates and swaps the     *)
(* range into the served grid.  The scheduler runs one job at a time.       *)
(*                                                                         *)
(* Time is counted in ticks, Fraction of them to the second.  The value of  *)
(* a row is abstracted to its provenance: the times of the observations it  *)
(* summarises, each with the observation before it where the SQL uses LAG.  *)
(***************************************************************************)
EXTENDS Integers, Sequences, FiniteSets

CONSTANTS
    NStreams,    \* streams, derived in the order of settings.streams
    Fraction,    \* ticks per second: above 1, timestamps fall between seconds
    Step,        \* settings.grid_step_seconds
    TailSteps,   \* settings.derive_tail_hours, in grid steps
    CrossedOneIn, \* one snapshot in so many may be crossed: MAX_CROSSED_SHARE, one in 5
    Faults,      \* what may go wrong: "late" rows, "db" errors, a "crash", "crossed" tops
    MaxTicks,    \* bound: how long the clock runs
    MaxObserved, \* bound: observations captured
    MaxRuns      \* bound: rows of derive_runs, and jobs that raise

ASSUME DeriveAssumption ==
    /\ {NStreams, Fraction, Step, TailSteps, CrossedOneIn} \subseteq Nat \ {0}
    /\ {MaxTicks, MaxObserved, MaxRuns} \subseteq Nat
    /\ Faults \subseteq {"late", "db", "crash", "crossed"}

VARIABLES
    now,         \* the clock, in ticks
    raw,         \* observations in book_events, trades and book_snapshots
    held,        \* observations still in the writer's queues
    grid, staging,          \* rows of grid_features and grid_features_staging
    runs,                   \* derive_runs
    pc, mode, grid_start, grid_end, cursor, rows, snapshots, run, outcome,
    raw_then, grid_then,    \* history: raw and grid when the run started
    raised                  \* history: jobs that ended in an exception

capture == <<now, raw, held>>
tables  == <<grid, staging, runs>>
range   == <<mode, grid_start, grid_end>>
work    == <<cursor, rows, snapshots, run, outcome>>
history == <<raw_then, grid_then>>
vars == <<capture, tables, pc, range, work, history, raised>>

-----------------------------------------------------------------------------
(* utils/time.py *)

StepTicks == Step * Fraction
Start == TailSteps * StepTicks       \* when the model's clock starts

WholeSecond(t) == (t \div Fraction) * Fraction   \* replace(microsecond=0)
FloorStep(t) == LET second == t \div Fraction IN (second - (second % Step)) * Fraction

CeilStepFloors(t) == FloorStep(t)    \* mutant: the trap time.py warns of

CeilStep(t) == IF FloorStep(t) = WholeSecond(t) THEN FloorStep(t) ELSE FloorStep(t) + StepTicks

-----------------------------------------------------------------------------
(* The raw layer *)

Streams == 1..NStreams
Kinds == {"book", "trade", "snapshot"}
NoTime == -1

\* A snapshot row is crossed, or the top of book of an applied row: a book the venue
\* serves is adopted and recorded as it is, and only later messages are checked.
Observations ==
    {o \in [kind : Kinds, stream : Streams, at : Nat, crossed : BOOLEAN] :
        o.crossed => o.kind # "trade"}

\* Mutant: the first instant of the window is left out.
WindowOpen(obs, kind, s, start, end) ==
    {o \in obs : o.kind = kind /\ o.stream = s /\ start < o.at /\ o.at < end}

\* Every read takes ts >= start AND ts < end.
Window(obs, kind, s, start, end) ==
    {o \in obs : o.kind = kind /\ o.stream = s /\ start <= o.at /\ o.at < end}

-----------------------------------------------------------------------------
(* The rows of the grid *)

Row(ts, s, metric, value) == [ts |-> ts, stream |-> s, metric |-> metric, value |-> value]
Key(r) == <<r.ts, r.stream, r.metric>>

Times(obs) == {<<NoTime, o.at>> : o \in obs}
InBucket(obs, b) == {o \in obs : FloorStep(o.at) = b}
Buckets(obs) == {FloorStep(o.at) : o \in obs}

\* LAG(...) OVER (ORDER BY ts) among the rows the query sees.
Lagged(seen, o) ==
    LET earlier == {p.at : p \in {q \in seen : q.at < o.at}}
    IN  IF earlier = {} THEN NoTime ELSE CHOOSE t \in earlier : \A u \in earlier : u <= t

\* The query looks one step behind the window, for LAG only.  "spread" stands
\* for spread_bps, mid and updates, which summarise the same rows.
BookRows(obs, s, start, end) ==
    LET seen   == Window(obs, "book", s, start - StepTicks, end)
        scored == Window(obs, "book", s, start, end)
    IN  {Row(b + StepTicks, s, "spread", Times(InBucket(scored, b))) : b \in Buckets(scored)}
        \cup {Row(b + StepTicks, s, "ofi",
                  {<<Lagged(seen, o), o.at>> : o \in InBucket(scored, b)}) : b \in Buckets(scored)}

TradeRows(obs, s, start, end) ==
    LET seen == Window(obs, "trade", s, start, end)
    IN  {Row(b + StepTicks, s, "flow", Times(InBucket(seen, b))) : b \in Buckets(seen)}

\* The snapshots of one grid point are averaged; a crossed one is skipped.
SnapshotRows(shots, s) ==
    LET good == {o \in shots : o.stream = s /\ ~o.crossed}
    IN  {Row(ts, s, "depth", Times({o \in good : CeilStep(o.at) = ts})) :
            ts \in {CeilStep(o.at) : o \in good}}

\* What one derive over [start, end) makes of the raw layer.
DerivedRows(obs, start, end) ==
    UNION {BookRows(obs, s, start, end) \cup TradeRows(obs, s, start, end)
           \cup SnapshotRows(Window(obs, "snapshot", s, start, end), s) : s \in Streams}

-----------------------------------------------------------------------------
(* Capture, as far as the derive sees it *)

Tick ==
    /\ now < Start + MaxTicks
    /\ now' = now + 1
    /\ UNCHANGED <<raw, held, tables, pc, range, work, history, raised>>

\* A row is stored at once, or stays in the writer's queue for a while.
Observe(o) ==
    /\ Cardinality(raw \cup held) < MaxObserved
    /\ ~\E p \in raw \cup held : p.kind = o.kind /\ p.stream = o.stream /\ p.at = o.at
    /\ \/ raw' = raw \cup {o} /\ UNCHANGED held
       \/ "late" \in Faults /\ held' = held \cup {o} /\ UNCHANGED raw
    /\ UNCHANGED <<now, tables, pc, range, work, history, raised>>

Store ==
    /\ \E o \in held : raw' = raw \cup {o} /\ held' = held \ {o}
    /\ UNCHANGED <<now, tables, pc, range, work, history, raised>>

-----------------------------------------------------------------------------
(* The statement a derive awaits, and what it does to the database *)

\* Mutant: two columns of the INSERT are exchanged.
NewRunSwapped == [mode |-> "running", start |-> grid_start, end |-> grid_end,
                  status |-> mode, failed |-> FALSE]

NewRun == [mode |-> mode, start |-> grid_start, end |-> grid_end,
           status |-> "running", failed |-> FALSE]

\* Mutant: the share is taken of the snapshots of all streams.
CrossedGateOfAll ==
    CrossedOneIn * Cardinality({o \in snapshots : o.crossed}) <= Cardinality(snapshots)

\* gate_no_future_leak.  The derive hands it a row's own timestamp as the instant
\* the row became knowable.
AvailableAt(r) == r.ts
LeakGatePasses == \A r \in rows : AvailableAt(r) <= r.ts

\* gate_crossed_books: no more than the share of a stream's snapshots in the window
\* are crossed.
CrossedGatePasses ==
    \A s \in Streams :
        LET shots == {o \in snapshots : o.stream = s}
        IN  CrossedOneIn * Cardinality({o \in shots : o.crossed}) <= Cardinality(shots)

\* The mean spread of a bucket is negative, which spread_bps may not be: a crossed
\* top counts as far below zero as another one counts above it.
Insane(r) ==
    LET tops == {o \in raw : o.kind = "book" /\ o.stream = r.stream /\ <<NoTime, o.at>> \in r.value}
    IN  r.metric = "spread" /\ 2 * Cardinality({o \in tops : o.crossed}) > Cardinality(tops)

\* gate_value_sanity: one point out of its bounds fails the run, for every stream.
SanityGatePasses == \A r \in rows : ~Insane(r)

\* Mutant: no gate looks at the values.
GatesPassUnseen == LeakGatePasses /\ CrossedGatePasses

GatesPass == LeakGatePasses /\ SanityGatePasses /\ CrossedGatePasses

Staged == {r \in rows : r.ts <= grid_end}

\* Mutant: the swap deletes one grid point too many.
SwapFromStart ==
    {r \in grid : r.ts < grid_start \/ r.ts > grid_end} \cup staging

\* DELETE from grid_start + 1 s to grid_end, then INSERT ... ON CONFLICT DO UPDATE.
Swap ==
    {r \in grid : /\ r.ts < grid_start + Fraction \/ r.ts > grid_end
                  /\ \A n \in staging : Key(n) # Key(r)} \cup staging

Finished(status) ==
    [runs EXCEPT ![run] = [mode |-> @.mode, start |-> @.start, end |-> @.end,
                           status |-> status, failed |-> status = "aborted"]]

ResetLeaves == UNCHANGED tables      \* mutant: staging is not truncated
ResetStaging == staging' = {} /\ UNCHANGED <<grid, runs>>

Statement ==
    \/ pc \in {"first", "read"} /\ UNCHANGED tables
    \/ pc = "start" /\ runs' = Append(runs, NewRun) /\ UNCHANGED <<grid, staging>>
    \/ pc \in {"reset", "clean"} /\ ResetStaging
    \/ pc = "copy" /\ staging' = staging \cup Staged /\ UNCHANGED <<grid, runs>>
    \/ pc = "publish" /\ grid' = Swap /\ staging' = {} /\ UNCHANGED runs
    \/ pc = "finish" /\ runs' = Finished(outcome) /\ UNCHANGED <<grid, staging>>
    \/ pc = "failed" /\ runs' = Finished("failed") /\ UNCHANGED <<grid, staging>>

-----------------------------------------------------------------------------
(* DeriveRunner.run *)

\* A job returns or raises, and its locals are gone.
Return ==
    /\ pc' = "idle"
    /\ mode' = "tail" /\ grid_start' = 0 /\ grid_end' = 0
    /\ cursor' = 1 /\ rows' = {} /\ snapshots' = {} /\ run' = 0 /\ outcome' = "running"
    /\ raw_then' = {} /\ grid_then' = {}

\* Mutant: the window starts where the published range does.
BeginTailLate ==
    /\ pc = "idle" /\ Len(runs) < MaxRuns /\ raised < MaxRuns
    /\ mode' = "tail"
    /\ grid_end' = FloorStep(now)
    /\ grid_start' = FloorStep(grid_end' - TailSteps * StepTicks) + Fraction
    /\ pc' = "start"
    /\ UNCHANGED <<capture, tables, work, history, raised>>

BeginTail ==
    /\ pc = "idle" /\ Len(runs) < MaxRuns /\ raised < MaxRuns
    /\ mode' = "tail"
    /\ grid_end' = FloorStep(now)
    /\ grid_start' = FloorStep(grid_end' - TailSteps * StepTicks)
    /\ pc' = "start"
    /\ UNCHANGED <<capture, tables, work, history, raised>>

\* A full derive starts at the first event of any stream; the streams are asked
\* one by one.  grid_start holds the earliest answer so far.
BeginFull ==
    /\ pc = "idle" /\ Len(runs) < MaxRuns /\ raised < MaxRuns
    /\ mode' = "full"
    /\ grid_end' = FloorStep(now)
    /\ grid_start' = NoTime
    /\ pc' = "first" /\ cursor' = 1
    /\ UNCHANGED <<capture, tables, rows, snapshots, run, outcome, history, raised>>

FirstCapture ==
    /\ pc = "first" /\ cursor <= NStreams
    /\ LET times == {o.at : o \in {p \in raw : p.kind = "book" /\ p.stream = cursor}}
                        \cup ({grid_start} \ {NoTime})
       IN  grid_start' = IF times = {} THEN NoTime
                         ELSE CHOOSE t \in times : \A u \in times : t <= u
    /\ cursor' = cursor + 1
    /\ UNCHANGED <<capture, tables, pc, mode, grid_end, rows, snapshots, run, outcome,
                   history, raised>>

\* Nothing captured yet, or nothing the grid could hold: "skipped".
FirstKnown ==
    /\ pc = "first" /\ cursor > NStreams
    /\ IF grid_start # NoTime /\ FloorStep(grid_start) < grid_end
       THEN /\ grid_start' = FloorStep(grid_start) /\ pc' = "start"
            /\ UNCHANGED <<mode, grid_end, work, history>>
       ELSE Return
    /\ UNCHANGED <<capture, tables, raised>>

StartRun ==
    /\ pc = "start" /\ Statement
    /\ run' = Len(runs) + 1 /\ pc' = "read" /\ cursor' = 1
    /\ rows' = {} /\ snapshots' = {} /\ outcome' = "running"
    /\ raw_then' = raw /\ grid_then' = grid
    /\ UNCHANGED <<capture, range, raised>>

-----------------------------------------------------------------------------
(* _execute: three reads per stream, then stage, gate and swap *)

Asked == (cursor - 1) \div 3 + 1         \* the stream of the next read
Part  == (cursor - 1) % 3                \* 0 book, 1 trades, 2 snapshots

ReadNext ==
    /\ pc = "read"
    /\ cursor' = cursor + 1
    /\ pc' = IF cursor = 3 * NStreams THEN "reset" ELSE "read"
    /\ UNCHANGED <<capture, tables, range, run, outcome, history, raised>>

ReadBook ==
    /\ ReadNext /\ Part = 0
    /\ rows' = rows \cup BookRows(raw, Asked, grid_start, grid_end)
    /\ UNCHANGED snapshots

ReadTrades ==
    /\ ReadNext /\ Part = 1
    /\ rows' = rows \cup TradeRows(raw, Asked, grid_start, grid_end)
    /\ UNCHANGED snapshots

ReadSnapshots ==
    /\ ReadNext /\ Part = 2
    /\ LET shots == Window(raw, "snapshot", Asked, grid_start, grid_end)
       IN  /\ snapshots' = snapshots \cup shots
           /\ rows' = rows \cup SnapshotRows(shots, Asked)

Reset ==
    /\ pc = "reset" /\ Statement
    /\ pc' = "copy"
    /\ UNCHANGED <<capture, range, work, history, raised>>

\* COPY, then the gates on what was read.
Stage ==
    /\ pc = "copy" /\ Statement
    /\ pc' = IF GatesPass THEN "publish" ELSE "clean"
    /\ UNCHANGED <<capture, range, work, history, raised>>

Abort ==
    /\ pc = "clean" /\ Statement
    /\ outcome' = "aborted" /\ pc' = "finish"
    /\ UNCHANGED <<capture, range, cursor, rows, snapshots, run, history, raised>>

Publish ==
    /\ pc = "publish" /\ Statement
    /\ outcome' = "published" /\ pc' = "finish"
    /\ UNCHANGED <<capture, range, cursor, rows, snapshots, run, history, raised>>

FinishRun ==
    /\ pc \in {"finish", "failed"} /\ Statement
    /\ raised' = IF pc = "failed" THEN raised + 1 ELSE raised
    /\ Return
    /\ UNCHANGED capture

\* The database refuses a statement, or does it and the answer is lost.  An
\* exception of _execute is recorded; any other goes to the scheduler's log.
Raised ==
    /\ "db" \in Faults /\ pc # "idle"
    /\ Statement \/ UNCHANGED tables
    /\ IF pc \in {"first", "start", "finish", "failed"}
       THEN Return /\ raised' = raised + 1
       ELSE pc' = "failed" /\ UNCHANGED <<range, work, history, raised>>
    /\ UNCHANGED capture

\* The process dies, or the job is cancelled at shutdown, which no handler
\* catches; a statement in flight may still be carried out.
Crash ==
    /\ "crash" \in Faults /\ pc # "idle"
    /\ Statement \/ UNCHANGED tables
    /\ Return
    /\ UNCHANGED <<capture, raised>>

-----------------------------------------------------------------------------
(* The specification *)

Init ==
    /\ now = Start /\ raw = {} /\ held = {}
    /\ grid = {} /\ staging = {} /\ runs = <<>>
    /\ pc = "idle" /\ mode = "tail" /\ grid_start = 0 /\ grid_end = 0
    /\ cursor = 1 /\ rows = {} /\ snapshots = {} /\ run = 0 /\ outcome = "running"
    /\ raw_then = {} /\ grid_then = {} /\ raised = 0

CaptureStep ==
    \/ Tick \/ Store
    \/ \E kind \in Kinds, s \in Streams, crossed \in BOOLEAN :
          /\ crossed => kind = "snapshot" \/ (kind = "book" /\ "crossed" \in Faults)
          /\ Observe([kind |-> kind, stream |-> s, at |-> now, crossed |-> crossed])
BeginStep == BeginTail \/ BeginFull \/ FirstCapture \/ FirstKnown \/ StartRun
ReadStep == ReadBook \/ ReadTrades \/ ReadSnapshots
PublishStep == Reset \/ Stage \/ Abort \/ Publish \/ FinishRun

\* The bounds are reached and no job is under way.
Rest == /\ pc = "idle" /\ (Len(runs) >= MaxRuns \/ raised >= MaxRuns)
        /\ now >= Start + MaxTicks /\ UNCHANGED vars

Next == CaptureStep \/ BeginStep \/ ReadStep \/ PublishStep \/ Raised \/ Crash \/ Rest

Spec == Init /\ [][Next]_vars

-----------------------------------------------------------------------------
(* What a correct derive promises *)

\* The first and the last instant of the windows derived so far.
RunEdges == UNION {{runs[i].start, runs[i].end} : i \in DOMAIN runs}

Metrics == {"spread", "ofi", "flow", "depth"}
GridRow == [ts : Int, stream : Streams, metric : Metrics,
            value : SUBSET ((Nat \cup {NoTime}) \X Nat)]

\* Every variable holds a value the code could hold.
TypeOK ==
    /\ now \in Nat
    /\ raw \subseteq Observations /\ held \subseteq Observations
    /\ {grid, staging, rows, grid_then} \subseteq SUBSET GridRow
    /\ runs \in Seq([mode : {"tail", "full"}, start : Int, end : Int, failed : BOOLEAN,
                     status : {"running", "published", "aborted", "failed"}])
    /\ pc \in {"idle", "first", "start", "read", "reset", "copy", "publish", "clean",
               "finish", "failed"}
    /\ mode \in {"tail", "full"} /\ grid_start \in Int /\ grid_end \in Int
    /\ cursor \in Nat /\ run \in 0..Len(runs)
    /\ snapshots \subseteq Observations /\ raw_then \subseteq raw
    /\ outcome \in {"running", "published", "aborted"} /\ raised \in Nat

\* "nothing is published before it could be known" (README section 5): no row
\* rests on an observation made after its timestamp.
NoLeak == \A r \in grid : \A v \in r.value : v[2] <= r.ts

\* What is left of it for timestamps below a second: the anchor is never a
\* whole second early.
LeakIsSubSecond == \A r \in grid : \A v \in r.value : v[2] < r.ts + Fraction

\* When no row was stored late, the grid holds what one full derive of everything
\* captured would make of it, whatever tails and full runs published it and however
\* they ended, with two exceptions.  OFI has a memory: its row may differ when its
\* stream was silent for the whole step before the bucket.  A depth row averages the
\* snapshots on both sides of a window's edge, up to a second past its grid point
\* (ceil_step), and a run reads one side: the row at the first instant of a run's
\* window, or at its last, may average only some of them (runner.py, utils/time.py).
TailIsFull ==
    "late" \notin Faults =>
        \A r \in grid :
            \/ r \in DerivedRows(raw, 0, now + 1)
            \/ r.metric = "depth" /\ r.ts \in RunEdges
            \/ /\ r.metric = "ofi"
               /\ Window(raw, "book", r.stream, r.ts - 2 * StepTicks, r.ts - StepTicks) = {}

\* The book and trade rows of a published window hold every event and trade of it
\* that was stored when the run started, and none that was not stored when it was
\* read, however late rows arrive.
WindowIsComplete ==
    (pc = "finish" /\ outcome = "published") =>
        \A s \in Streams, column \in {<<"book", "spread">>, <<"trade", "flow">>} :
            LET seen(obs) == {o \in obs : /\ o.kind = column[1] /\ o.stream = s
                                          /\ o.at \in grid_start..(grid_end - 1)}
                got == UNION {r.value : r \in {q \in grid :
                          /\ q.stream = s /\ q.metric = column[2]
                          /\ grid_start < q.ts /\ q.ts <= grid_end}}
            IN  Times(seen(raw_then)) \subseteq got /\ got \subseteq Times(seen(raw))

\* From the read that finds more than one in CrossedOneIn of a stream's snapshots crossed
\* until the job is over, through failing statements and whatever the other streams hold,
\* the served grid is what it was ("publish aborts, never ships garbage", and
\* MAX_CROSSED_SHARE, of qa/gates.py).
CrossedStreamShipsNothing ==
    (\E s \in Streams :
        LET shots == {o \in snapshots : o.stream = s}
        IN  Cardinality(shots) < CrossedOneIn * Cardinality({o \in shots : o.crossed}))
    => grid = grid_then

\* What is about to be swapped in is this run's work, though an earlier run may
\* have left its rows in the staging table.
StagingIsThisRun == pc = "publish" => staging = Staged

\* Whatever a run published is still served after any later run, tail or full,
\* published, aborted or cut short: every event and every trade of its range, when
\* none was stored late, has its row.
PublishedRunsAreServed ==
    "late" \notin Faults =>
        \A i \in DOMAIN runs :
            runs[i].status = "published" =>
                \A o \in raw :
                    (o.kind # "snapshot" /\ o.at \in runs[i].start..(runs[i].end - 1)) =>
                        \E r \in grid : /\ Key(r) = <<FloorStep(o.at) + StepTicks, o.stream,
                                                  IF o.kind = "book" THEN "spread" ELSE "flow">>
                                       /\ <<NoTime, o.at>> \in r.value

\* "publish aborts, never ships garbage" (qa/gates.py): no bucket whose book was
\* crossed for the most part is served, though every tail reads it anew and the
\* streams beside it go unpublished with it.
ServedIsSane == \A r \in grid : ~Insane(r)

=============================================================================
