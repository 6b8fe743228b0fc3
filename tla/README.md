# Verification of nxpNodeBook

TLA+ modules, TLC configurations and TLAPS proofs for the book node: the process
that captures order books and trades from three venues, stores them, and derives
a five-minute grid from what it stored. The node is one asyncio process
(`api/src/main.py`). Coroutines interleave only where they `await`, so an action
of a module is what the code does between two awaits.

## 1. Inventory

| Component | State | Operations | Interacts with |
|---|---|---|---|
| Order book, sync rules (`domain/book.py`) | bids, asks, `update_id`, `synced` | `reset`, `apply`, `top`, `ladder`, `is_crossed`, the three `SyncRule`s, `depth_within` | called by the collector and the derive |
| Stream collector (`collectors/stream.py`), one task per stream | the book, `_buffer`, `_snapshot_task`, `_awaiting_first`, `_first_update_id`, session counters, `_run_id`, back-off | `run`, `_open_session`, `_on_event`, `_adopt_if_ready`, `_replay_buffer`, `_gap`, `_maybe_snapshot`, `_maybe_update_run`, `_close_session`, `stop` | venue source (socket, REST), writer (`put`), `stream_runs` |
| Venue sources (`adapters/sources/*.py`) | the socket, the subscription | `connect`, `messages`, `fetch_snapshot`, `request_resync`, `close` | the venues |
| Writer (`collectors/writer.py`) | one bounded deque per table, `_dropped`, `_written`, `_notify_tasks` | `put`, `_run`, `_flush_all`, `_flush`, `stop` | collectors, database, notify |
| Notifications (`collectors/notify.py`) | `_last_sent` | `announce` | one task per flush pass, the warehouse |
| Raw repository (`repositories/raw.py`) | the raw tables and `stream_runs` | COPY with de-duplication, `start_run`, `update_run`, `finish_run`, `close_orphan_runs`, the reads of the derive and of `/coverage` | writer, collectors, derive |
| Manager (`collectors/manager.py`), lifespan (`main.py`) | the collectors, the writer, the scheduler task | start and stop, in order | everything |
| Derive (`derive/*.py`, `qa/gates.py`, `repositories/grid.py`, `utils/time.py`) | the locals of one run; `grid_features`, its staging table, `derive_runs` | tail and full derive: read, stage, gate, publish, record | raw tables, grid, `/health` |
| Scheduler (`scheduler/runner.py`) | `_next_due` of two jobs, `_stop` | the loop, both jobs, `stop` | derive, lifespan |
| Health (`services/health.py`) | none of its own; what a check has read so far | `check`: ping, `bounds`, `last_derive_run`, `metric_last_ts`, then the collectors' memory | pool, grid, collectors, scheduler's flag |
| Live book routes (`api/routes/book.py`) | the generator's `last_id`, one per reader | `_view`, and the turns of the event stream | collectors' memory; the server, which waits for them at shutdown |
| Coverage, metrics, capabilities routes | none of their own | reads | tables, settings |

What is hard here, and where a test hardly reaches:

- a REST snapshot is served at some instant while the stream goes on; when it is
  adopted the buffer holds messages before, across and after it, with possible
  holes; and it is cut at a limit, so the book begins without the levels beyond;
- everything in the collector may be cut short by a lost connection, a
  cancellation or a crash at any await, with rows of `stream_runs` half written;
- `put` changes a queue whose front is in a COPY; a COPY may fail after commit;
- a derive reads a table that others are writing, in windows whose edges are
  bucket starts on one side and bucket ends on the other, and may die with rows
  in the staging table;
- two periodic jobs share one loop, and a stop waits for it only five seconds;
- `/health` puts together what it read over four awaits with thresholds that must
  sit above the sum of intervals, ticks and job lengths they never mention;
- a shutdown is a chain of waits with limits of their own, under one limit that
  the container runtime enforces by a kill, behind a server that waits for every
  response it has begun;
- what leaves the book is read elsewhere and later: views by readers who are told
  only when the sequence moves, rows by a query that sorts them by their stamps.

`PROJECT.json` lists every hazard at its line with the properties aimed at it,
or why none is.

For each component, what makes it correct:

| Component | Correct when |
|---|---|
| Book and collector | no level of a book called synced is wrong, and none is missing that its snapshot reached or a message touched since; every stored top of book and every replay anchor tells the venue's book in the same sense, up to the levels that are kept; no message of a REST venue is lost, doubled or reordered; an unsynced session has a snapshot coming; a stop ends the task and a lost session is reopened |
| `stream_runs` | at most the live session's row is open; closed rows do not change; id ranges and time ranges of sessions do not overlap; `/coverage` is not inflated; a refusing venue is asked ever less often |
| Writer | bounded queues; counters that balance; nothing lost silently; the database holds a prefix; a broken table is isolated; `stop` returns |
| Notifications | two POSTs are an interval apart, however tasks overlap |
| Live book | a view is one moment of the book: id, levels and top of the same update, and an `as_of` later than it; a reader is not left behind; rows are read back in the order they were applied |
| Derive | nothing is published early; a tail leaves what a full derive would; a published window is complete; an aborted run ships nothing; no insane bucket is served, and nothing of a run that found more than a fifth of a stream's snapshots crossed; a crash leaves nothing behind; what a run published stays served |
| Scheduler | no job starves the other; each begins within a bounded time |
| Health | an `ok` is no older than its check; a node with nothing wrong is never called sick |
| Process | nothing that uses the pool outlives it; sessions are closed first and side by side; the process is killed only if less of the grace period was left, when lifespan was called, than its awaits may take |
| Depth columns | `depth_within` is the sum over the band; truncation only understates |
| Order-flow imbalance | positive for a row that moves the top for demand only, negative for one that moves it against demand only, nothing if the top stands; what comes and goes counts for nothing |

## 2. Modules

| Module | Models | Notes |
|---|---|---|
| `BookSync` | `domain/book.py` (rules, ladders, top) and what a venue says | `VenueBook`, a constant, is the venue's true book after each update id; messages and snapshots, cut at `SnapshotLimit`, are derived from it, so what a book may be held to (`Tells`) is an equation level by level |
| `StreamCollector` | `collectors/stream.py`, the snapshot task, the socket, the session row | `pc` is the await the task is at; `tail` and `replay` are places inside a handler, where nothing else runs (`Yielded`) |
| `StreamCollectorProofs` | | proofs about it, and that it implements `LiveBook` |
| `RecordProofs` | | proofs about what it leaves behind: `stream_runs`, `book_events` |
| `LiveBook` | what a collector promises to whoever reads its book | abstract: a book begun from a cut snapshot, which takes over what the venue changes, learns of missing levels, jumps forward to another snapshot, loses its sync; `StreamCollector` implements it |
| `Outlets`, `OutletsProofs` | the view with its `as_of` and the event stream of `routes/book.py`, the applied rows of `book_events` and the order of their read | extends `LiveBook`, not the collector: it needs no more than the promise |
| `Sessions`, `SessionsProofs` | `run()` of the collector in seconds, and the timestamps of `stream_runs` | what happens inside a session is one state here; statements may fail, or be carried out when their caller is gone |
| `DBWriter`, `DBWriterProofs` | `collectors/writer.py` with `_copy_dedup` | rows are numbered per table |
| `Delivery` | the writer with `collectors/notify.py`: a task per flush that wrote rows, its skip, its POST | extends `DBWriter`; a task is one of its `notices` until it returns; times relative to the clock |
| `Derive`, `DeriveProofs` | the derive run, its reads, gates, staging, swap and `derive_runs` | a grid value is abstracted to its provenance: the observations it summarises, with the one before where the SQL uses `LAG` |
| `Scheduler` | the loop over its two jobs, `stop`, the cancellation | times relative to the clock; a component of `Node` with no specification of its own |
| `Health` | `check`, and everything it reads: the flags of a stream, which stand while a `lost` socket is being closed, silence, grid, newest run, pool | extends `Scheduler`, whose jobs get their effect on the grid; ages are counted from now |
| `Node`, `NodeProofs` | `lifespan` and the manager: start, SIGTERM, the server's wait for open responses (external), the stages of each collector's stop, the last drain table by table, the rest of the shutdown, the kill | extends `Health`; composes the three in one `Next`; the proofs are about all three |
| `Depth`, `DepthProofs` | messages and snapshots of any levels of both sides, ladders, truncation, `depth_within`, what `snapshot_rows` skips, and the four terms of OFI | quantities and prices are whole numbers, twice the mid avoids the division |
| `MC*` | instances for TLC | |

The modules meet at interfaces the code has: `StreamCollector` appends to
`book_events`, `book_snapshots` and `trades` where the code calls `put`;
`DBWriter` takes any sequence of puts and promises what `Derive` calls `raw` and
`held`; `Sessions` refines the time in which `StreamCollector`'s session rows
exist; `Scheduler` abstracts a derive to a job of bounded length, and `Derive`
to one job at a time, begun at any instant; `Health` sees a collector as
`link` (down, connected, synced) and `silent`, which are the reads of
`snapshot_state`, and a job as the point it publishes and the status it leaves.

In `StreamCollector` a REST fetch takes two steps of the venue's side: it is
served (the book of that instant is fixed) and answered (the task is done); the
stream may run ahead between the two, and after the second until a depth message
finds the task done.

In `Node` an action holds the event loop, so it happens only while the scheduler
awaits (`Free`); the clock moves in `Second`, and no wait lasts beyond its limit
(`Limit`, and `StageLimit` for a collector's stop). The collectors stop side by
side, as `asyncio.gather` has them, each with a socket to close and then a row to
finish. SIGTERM comes at any moment, with a check under way or not. The server,
which is not in the repository, first waits for the responses it has begun
(`requests`): a check goes on and is answered, and an event stream ends when its
reader leaves, which may be never; then the server calls lifespan's end. Whatever
a check reads is followed as long as there is one (`Following`); then `Forget`
resets it, so that the shutdown is not explored once for every age of the grid.

### The refinement

`StreamCollector` ends with `Live == INSTANCE LiveBook WITH up <- ...` and the
run `futures_sync` checks `LiveSpec`, which is `Live!Spec` (section 4 has its
proof for every venue, history and fault): every step of the
collector, with its buffers, fetches, replays and crossed books, is a step of
the abstract book or leaves it alone. The mapping is the identity on `ladders`,
`update_id`, `synced`, the venue's clock and `anchor`, the history variable that
holds the update of the snapshot the book began from; `up` is "the task exists and
has not ended". So a synced book moves forward only: it takes over every level the
venue changed, and each other level either stays as it was or becomes right, when
a message lists more than changed; an adopted snapshot never takes the book back,
and an unsynced book does not change until a snapshot is adopted. `Outlets` builds on that
promise alone, and therefore holds for every collector that keeps it.

Definitions that are a mutated form of one next to them (marked `mutant`) are
not part of a specification. They are plausible slips of the code, and each
property of a run fails with the one `PROJECT.json` names for it.

## 3. Runs

| Run | Question | Bounds, and why they are enough |
|---|---|---|
| `futures_sync` | is the book right, and the record of it, under any order of batches, answers, losses and failures | snapshots of one level a side and rows that keep one, while the venue has up to two: levels beyond the snapshot stay missing, are touched, become the best; four updates: a snapshot, a message before it, a hole, and one after the hole fit, or one across the snapshot, so replays with a second gap and crossed books occur; one periodic snapshot |
| `spot_sessions` | the same for the spot rule over sessions, and the rows of `stream_runs` | three updates, two processes of two sessions: a crash or a stop at every await with a row before and after |
| `deribit_live` | the in-band venue, whose resubscription may fail half way; do stops end and sessions reopen | three updates, a trade, two sessions, every statement failing; under `FairSpec` |
| `spot_lossless` | does a resync mean a loss, as the schema says | violated, see section 6 |
| `writer` | is every row accounted for, is a poisoned table isolated, does `stop` return, are POSTs spaced | two tables, a cap of three rows and five handed over: overflow while a COPY of two batches is in flight, twice; an interval of two seconds under tasks and POSTs of any length; `DeliverySpec` |
| `derive_whole` | is the grid a function of the raw layer, is what was published still served, is what is served sane, whatever crashes | half seconds, steps of two seconds, eight ticks of time: two whole steps, with stamps between the seconds; two runs: a tail or a full derive after one that was published, aborted or cut short; two observations, one for a bucket and one for its past, in one bucket or in two |
| `derive_streams` | one stream's fault does not pass for the other's health; late rows, failing and ambiguous statements | two streams, whole seconds, steps of one, tails of two, two runs; the share of the crossed gate is one in two (`CrossedOneIn`, one in five in the code), so that two observations reach it from both sides: one of two crossed passes, one of one does not, and the other stream's do not count |
| `derive_leak` | is a row ever published before it could be known | violated for stamps below a second |
| `node` | does each job get its turn, is `/health` right in both directions, does the shutdown keep its order and its deadlines | two streams (symmetric: nothing distinguishes them); intervals 2 and 3, which share no factor, a grid step of 2, a tick of 1 and jobs of up to 1, so that the jobs fall on each other in every phase, for ever; the thresholds of `/health` at 6, the least that `HealthAssumption` admits, and 8, so that neither implies the other; one trouble (`MaxTroubles`), after which every recovery is explored: two troubles at once only make a check not ok sooner; checks of up to 1; every limit of the shutdown at 1 (`StopBound` is 11: a close and a statement, the writer, three COPYs with a pause each, the loop, the pool) under a grace of 12, so that readers who leave in time, too late and never all occur |
| `sessions` | what the timestamps of `stream_runs` claim | six seconds, two rows, back-off 1 to 4: two refusals in a row, a crash and a restart |
| `depth` | the depth columns and OFI against their definitions | every book over three prices and quantities 0..2, crossed ones too, and between two of them every message and every snapshot of up to two levels, of one side or of both: both bests move at once, each in either direction; two bands; truncation to one level |
| `outlets` | what may a reader of the book hold, and in which order does the derive read its rows | a futures book of three updates, begun from snapshots of one level a side, views of one level; one update that crosses and one that touches nothing; three applied rows: an anchor and two messages replayed onto it, with every stamp the venue may give it; one reader who comes and goes at any time |

Deadlock is checked in every run: a module that may stop has an explicit
stuttering action (`Ended`, `Stopped`, `Rest`, `Over`, `Exited`) that names where.

The timings of `node` rest on assumptions that the modules name.
`SchedulerAssumption`: a job is shorter than the tail's interval (`MaxJob`), which
nothing in the code enforces: with the defaults a derive has less than five
minutes. `HealthAssumption`: a grid step, the tail's interval, a tick and a job
together stay within `max_grid_lag_seconds`; with the defaults that is 300 + 300 +
10 s and a job, under 1200.

The shutdown has no such assumption. Its awaits are bounded by what the code
bounds: the close of a socket (2 s), the writer's task (30 s), the pause after a
COPY that failed (2 s for each of three tables), the scheduler's task (5 s); and
by `MaxStatement`, a bound of the model on a statement, since the code's own, the
pool's `command_timeout`, is 300 s (`connection.py:45`), and the acquisition of a
connection has none. `StopBound` adds them up: with the code's numbers 43 s and five
times a statement, under a grace period of 45 s. So a shutdown that must end in time
needs a database that answers within 0.4 s on average, or a writer whose task ends
before its limit, as it does while the database is well; and a reader
of the event stream who stays takes the whole of it. The property says what is left:
the process is killed only if `StopBound` did not fit into what was left of the grace
period when lifespan was called.

Fairness. The event loop resumes every runnable task, so the steps of a task
between awaits are weakly fair. A connect, a close and a statement have timeouts
(`close_timeout`, the pool's `command_timeout`), however long, and so return or
raise; which of the two is not assumed. In `DBWriter` a COPY that is asked for again and again
succeeds in the end (strong fairness of `CopyDone`) except for poisoned tables,
and nothing is assumed of the notices and their POSTs. In `Outlets` the
generator's next turn comes as long as its reader stays (`Poll`: a sleep of
`interval_ms` and a write). Venue messages are never assumed to
arrive: `SessionIsReopened` and `StopEnds` do not need them. Fairness is used in
`deribit_live`, `writer` and `outlets` only; `Node` states its deadlines as
invariants over a clock that does not pass a limit. No fairness is given to a process
restart.

## 4. What is proved

For every value of the constants (any venue rule, history, price grid, snapshot
limit, number of kept levels, fault set; any number of tables, streams and bounds)
that the named assumptions admit:

- `StreamCollectorProofs`: `TypeCorrect`, `BookFaithful` (`BookIsTheVenues`) and
  `RecordFaithful` (`RecordIsTheVenues`, from the lemmas `TopsFollow` and
  `AnchorsFollow`), all from `Inductive`.
  A book begun from a cut snapshot is not the venue's: what can be held against it
  is that no quantity is other than the venue's (`Understates`), and that no level
  is missing which the snapshot reached or a message has touched since
  (`KnownLevels`); the row stored of it is cut again, at `KeptLevels`, so it is held
  to the known levels among the venue's best (`Tells`), and a top of book to the
  venue's where that is known (`TopTells`). Of a Deribit book all levels are known.
  `BookIsTheVenues` is not inductive: whether applying a message keeps the book
  right depends on the message being one the venue could send and on the id it
  is held against. `IInv` adds that everything on the wire, in the buffer and in
  the rest of a replay is genuine (`MessagesAreGenuine`), that during a replay
  an unjoined book is still at the snapshot (`ReplayStartsAtAnchor`), and that
  rows already handed over are true (`RowsAreTrue`). The heart is
  `CoveredTells`: a diff that covers the updates from `id` on, applied to a book
  that tells the venue's at `id`, makes one that tells it at its last update; and
  `AcceptedCovers`: what the three rules accept does cover them. That a ladder cut
  at n keeps what it must is a matter of counting better levels (`FewerAhead`,
  `LadderTells`): a level that is among the venue's n best is among the n best of a
  book that understates it. All of it uses the assumptions of `BookSync` only.
- `StreamCollectorProofs` also has `Refinement`, `Spec => LiveSpec`. That a book is the
  venue's follows from `IInv`; that it only moves forward does not, and needs a
  second invariant, `RInv` (`NothingIsBehind`):
  nothing the collector holds is of the venue's future (`IdsArePast`); on REST a
  book stands still from the start of a fetch until its answer is taken, and an
  answer is served no earlier than the book it replaces (`AnswerIsAhead`); in
  band the wire is in order from the book's position on, snapshots included
  (`StreamIsAhead`); a session opens unsynced (`OpensUnsynced`), so the fetch it
  starts cannot overtake a live book. Each action is then one step of the
  abstract book or a stutter (`QuietSteps`, `SessionSteps`, `RecvSteps`,
  `ReplaySteps`).
- `RecordProofs`, about what the collector leaves behind. Each theorem has an
  invariant of its own on top of `IInv` and `RInv`:
  - `NeverStranded` (`ResyncUnderWay`): `FetchInv` adds that a REST answer has a
    book, that nothing but a resubscription fails in band, and that an in-band
    session opens with its snapshot on the wire. Hypothesis: no send of a
    resubscription raises in band. One that does, after the unsubscribe, leaves
    the session waiting for a message that cannot come; only a dying socket
    raises, which ends the session.
  - `BoundariesAreFinal` (`ClosedRowsAreFinal`) and `OpenRowsAreSessions`
    (`OpenRowIsTheSession`) from `RowInv`: the row in hand is the last and open,
    and no late refresh is pending outside a session. The second assumes that no
    statement fails: a `finish_run` that does leaves its row open (section 6).
  - `SessionsAreDisjoint` (`SessionsDoNotOverlap`), statements failing or not:
    `BoundInv` adds that whatever a session may open with, a served or answered
    fetch or a snapshot on the wire, is no older than all that other rows claim.
  - `RowsAreInOrder` (`RecordedInOrder`): recorded rows, buffer, rest of a replay
    and wire are four pieces of one stream, each in order and each ahead of the
    next (`OrderInv`); a replay that meets a gap may put messages back because
    they are behind all that is left of it.
  - `NothingIsThrownAway` (`StreamIsRecorded`): the ids received are those
    recorded, held or left to replay (`Account`). It is about one session of a
    REST venue, so its hypotheses are a REST venue and no disconnect: in band
    the snapshot clears the buffer (section 6), and a new session starts with an
    empty one by design.
- `SessionsProofs`: `FinishedRowsHold` (`FinishedRowsAreTrue`) and `RowsAreDisjoint`
  (`RowsDoNotOverlap`). The row in hand has been attended ever since it was
  opened (`HandIsHeld`); an open row that no failed statement left is the last
  one (`OpenIsLast`), so that the start of the next session, or of the next
  process, meets at most one. `CoverageHolds` (`CoverageIsNotInflated`) adds that
  an open row is attended also when its process is being stopped
  (`OpenIsAttended`): then each second a row claims is an attended one, and by
  `RowsAreDisjoint` no two rows claim the same. `RefusalsAreSpaced`
  (`RefusalsSpaceAttempts`): at its n-th failure in a row the back-off is at least
  what is due after n - 1 (`BackoffGrows`), and a sleep that is over lasted as
  long. The provers know nothing of `2 ^ n`, except that a set of n has as many
  subsets; `PowerDoubles` gets the rest from that.
- `DepthProofs`: `DepthIsExact` (`DepthIsTheBand`), `TruncationUnderstates`
  (`TruncationOnlyUnderstates`) and `OfiIsTheMove` (`OfiIsTheMoveOfTheBest`).
  A level's rank is its number of better levels; ranks that differ, of which there
  are no more than levels, are all taken (`RanksAreTaken`), which is what makes a
  ladder a sequence of all the levels in order. With the mid between its two
  sides, levels leave the band for good (`LaddersLeaveTheBand`), and stopping at
  the first one out of it leaves out no other (`StopsAtTheBand`). Truncation needs
  that a sum over fewer levels is no more; by `SumIsItsUnits` the fold is the
  number of pairs of a level and a unit of it, so it is a matter of subsets. For
  OFI nothing is used of what lies between two rows: of any two tops, a side's two
  terms tell which way it moved (`BidTerms`, `AskTerms`), and `OfiOfMove` puts the
  sides together.
- `OutletsProofs`: `ViewsAreMoments` (`ViewIsOneMoment`) and
  `RowsAreReadInOrder` (`OnlyAnchorsAreMisplaced`), from an invariant that says
  what ties a book, a view and a row to an update id: the book tells the venue's at
  its id (`CutTells` at an adoption, `MovedTells` at a step forward), the last
  message was heard after that update, ids of rows never decrease, and a row's stamp
  is at least its update's time, and exactly that unless it is a REST snapshot. They
  are about any book that is a `LiveBook`; by `Refinement` the collector's is one.
- `DBWriterProofs`: `TypeCorrect`, `QueuesBounded` and `CountersCorrect` from
  `WInv`, which adds to the balance that the rows in flight are no more than the
  queue holds, which is why popping `n` rows after an overflow keeps the count.
  `NoSilentLoss` (`LossesAreCounted`) and `NoHoles` (`StoredIsAPrefix`) need to
  know which rows these are: a queue and a batch are runs of consecutive rows, a
  batch starts no later than its queue, and among the rows the flusher is through
  with the missing ones are no more than were counted (`RowInv`). The batch is
  the difficulty: what overflows during its COPY is counted when it leaves the
  queue, and may be stored after all. `AnnouncedWriter` shows that the
  announcements leave the writer as it is, so all of this holds with them, and
  `AnnouncementsAreSpaced` (`PostsAreSpaced`) is about their own step.
- `DeriveProofs`, from four invariants, each using the ones before it:
  - `DInv`: `StagingIsOurs` (`StagingIsThisRun`) and `GatesGuardTheGrid`
    (`CrossedStreamShipsNothing`). The staging table is this run's between the COPY
    and the swap, the grid is what it was when the run started until a publish, and a
    run on its way to one has read snapshots of which no stream had more crossed than
    the gate's share (`GatesHeld`); for any share.
  - `TInv`: `Typed` (`TypeOK`).
  - `RInv`: `LeakStaysBelowASecond` (`LeakIsSubSecond`) and `GarbageIsNeverServed`
    (`ServedIsSane`). A row rests on stored observations of its own bucket, or
    before its end by less than the second `ceil_step` drops; an observation is
    identified by its key, which is why the gate's verdict on a row still stands
    when more has been captured by the time of the swap.
  - `SInv`: `PublishedStay` (`PublishedRunsAreServed`) and `WindowsAreComplete`
    (`WindowIsComplete`). A window that was read holds a row for every event and
    trade of it that was stored when the run started, read by read
    (`ReadIsComplete`); the ranges of runs are aligned, so a later window that
    cuts into an earlier one replaces whole buckets only.
  - `WholeInv`: `TailsAreFull` (`TailIsFull`), for every row of the grid, of
    staging and of the run at hand, while no row is stored late. Two kinds of row are
    exempt because they do differ in the code: an OFI whose stream was silent for the
    step before, and depth at the first or last instant of a run's window. For depth
    `DepthInv` follows the rows at the edges of runs from the read to the grid.
- `NodeProofs`, one induction over the loop, the process and the check at once
  (`ProcessInductive`), from which `ProcessHolds` (`NInv`, with `NoJobIsLate` and
  `PoolOutlivesItsUsers`) and `StopIsInTime` (`StopKeepsItsDeadlines`) follow. They
  assume that a job is shorter than the tail's interval, and of the shutdown only
  that its limits are positive. `NoJobIsLate` is a sum over a pass of the loop:
  `HoldUp` says for every place in it how late each job may be there. `EndInv` has
  the types, the order of the end (`OrderInv`: among others that a check is gone when
  lifespan is called, which nothing but the server's wait sees to) and its time
  (`TimeInv`: how much may have been spent when each phase begins, each collector's
  stage and each table of the drain counted). `OkIsTrue` (`OkMeansFresh`) and
  `NeverAFalseAlarm` (`NoFalseAlarm`) are step properties. The first rests on
  `FreshInv`, that what a check has read of the grid stays true of the time it read
  it at, and on `FailingInv`, that a run that had failed when the check began, and is
  still the newest, is refused once the check has read it; the second on `CalmInv`, which bounds
  the age of the grid at every place in the loop while nothing is wrong, and uses
  `HealthAssumption`.

Constants are constrained by named assumptions only; TLC evaluates them in every
run of the module. A hypothesis a theorem has beyond them is in its statement and
above. The runs check the same properties under it: `futures_sync` has neither
disconnects nor a resubscription, `spot_sessions` no failing statement.

What the proofs changed. `Scheduler`'s `Earliest`, which bounds how overdue a
job is and where the model's clock of it may stop counting, left out that a job may
be overdue already when lifespan's wait for the loop begins; the run's timings do
not tell the two apart. `StreamIsRecorded` compared two sequences, one of them
filtered; it now says the same of their ids, in order and equal as sets. Two
definitions say in a form that can be reasoned about what they said before:
`BestFirst` is the sort by key of `ladder`, and `ConnectedSeconds` the sum of the
rows' lengths, counted second by second.

Only model-checked:

- the liveness properties (`SessionIsReopened`, `StopEnds`, `FailureIsIsolated`,
  `StopReturns` and `ReaderCatchesUp`) and whatever is about `ENABLED`: out of
  the prover's reach.

Every invariant and every action property of the runs is stated by a theorem.

## 5. Not modelled

JSON parsing, URLs, HTTP clients, logging and formatting; `compute_ok` of the
contract package (`/health` uses it from how it is called); floating point (the
`value_sanity` bounds but for the sign of the mean spread, CVD and percentiles:
their provenance is modelled, not their value; OFI and depth are modelled over
whole numbers); database durability and constraints other than the keys used; the
buffer's growth while a REST venue does not answer (a bound here); the insides
of several collectors at once (they share nothing but the writer, whose puts are
modelled in any order, and the manager, which is in `Node`); the read-only
routes of metrics, capabilities and coverage, each one statement and arithmetic;
the settings, which are the constants; the cut-over script; the time a statement and
the wait for a connection take, but for the bound `MaxStatement` in `Node`. `Node` has no crash: it persists
nothing that is not in another module, where the crash is.

## 6. Where the code and its words disagree

With a run:

- `spot_lossless`: after a REST snapshot is adopted with an empty rest of the
  buffer, a live message that precedes or straddles the snapshot is held against
  the first-event rule without the drop rule, so it counts as a gap. Nothing was
  lost, yet `resyncs` is raised, against `db/init/02-create-schema.sql:214-216`.
- `derive_leak`: `ceil_step` compares a stamp with its own floor after dropping
  microseconds, so a snapshot taken within the first second after a grid instant
  is published at that instant, against `utils/time.py:54-55`. `LeakIsSubSecond`
  shows that it is never a whole second early.

Seen while modelling, without a run of their own:

- every stored snapshot is `ladder(snapshot_levels)` (`stream.py:421`), 2000 levels a
  side by default, so a deeper book is cut, against `src/README.md:74` "full
  in-memory book at every sync/resync and every 5 min" and
  `02-create-schema.sql:146`. `RecordIsTheVenues` shows what a row can be relied on
  for, and `TruncationOnlyUnderstates` what the cut does to the depth columns;
- a REST book lacks the levels beyond the limit of its snapshot (5000 and 1000 a
  side, `binance.py:135`) until a message touches them, as `config.py:140-143` says;
  what the rest of the repository calls the book is that book;
- the in-band snapshot branch clears the buffer without recording it
  (`stream.py:243`), against README section 3 "Nothing is thrown away";
- a `finish_run` that fails leaves the row open while later sessions run
  (`stream.py:199`); `RowsDoNotOverlap` excludes such a row;
- an overflow during a COPY loses a row that is not the oldest
  (`writer.py:167`), against `writer.py:18-19`; the count is right;
- the last drain is one pass with a cap (`writer.py:153`), against
  `writer.py:99` "loses nothing that was queued";
- `dropped` is on no route, against `writer.py:19-20`;
- a snapshot stamped within a second after `grid_start` is published at
  `grid_start`, outside the range the swap deletes (`runner.py:175`,
  `utils/time.py:57`): a depth row there, an average of the whole bucket's snapshots,
  is overwritten with the average of that second's; and the last row of a run's
  window is published without the snapshots of the second after it;
- the first OFI of a window has a past of one step only, so a tail and a full
  derive differ after a silence; `TailIsFull` states what is left of this and of the
  depth rows;
- `/health` shows the failed gates of the newest run only (`health.py:105`);
- a job that fails before its row exists, or while it is closed, leaves no
  failed row (`runner.py:95`), against `scheduler/runner.py:20`;
- the leak gate is given `ts` as `available_at` and cannot fail
  (`runner.py:148`);
- a tail may wait a full derive and a tick longer than its interval
  (`NoJobIsLate` is the bound), against `scheduler/runner.py:13-14`;
- while the socket of a lost session is being closed, up to two seconds,
  `connected` and the book's `synced` still read true (`stream.py:178-189`), so
  `/health` may say ok, against README section 6 "A reconnect shows as
  `ok=false` for as long as it lasts"; `Health` has it (`lost`), and `OkMeansFresh`
  promises nothing of the streams beyond their flags;
- an SSE reader is sent nothing when a book loses its sync, so what he holds says
  `synced` until the sequence moves (`routes/book.py:90`); and `as_of` is the time of
  the last message heard, buffered ones included (`stream.py:230`, `book.py:54`), so a
  book that stands still may be sent with a fresh `as_of`. `ViewIsOneMoment` shows
  what can be relied on;
- the spot REST body has no time, so its anchor is stamped with the node's clock
  (`stream.py:408`), and the futures body's `E` is the time it was put out, which may
  be later than that of its last update (`binance.py:143`): either anchor may sort
  behind the older messages replayed onto it (`raw.py:254`, `raw.py:271`): a bucket's "mid after the last applied depth
  message" (`domain/metrics.py`) may be the anchor's, and OFI differences the two
  in the wrong order; `OnlyAnchorsAreMisplaced` shows that no other row is. The
  last mid sorts by `ts` alone, so two messages of one millisecond are a draw;
- an event stream whose reader stays keeps the server, which is started without a
  limit for open responses (`Dockerfile:31`), from calling lifespan's end: after
  45 s the process is killed with its session rows open, against
  `docker-compose.yml:73-74`. So does a database that hangs: the writer's 30 s, the
  pauses of the last drain and statements that may take 300 s (`connection.py:45`) do
  not fit into 45 s. `StopKeepsItsDeadlines` states what is left;
- an adopted book is recorded as applied without the crossed check
  (`stream.py:297-298`). In a quiet bucket its spread makes the mean negative, and
  `value_sanity` then aborts every tail for as long as the bucket is in its window
  and every full derive for ever, for every stream, against `qa/gates.py:22`
  "A bad snapshot costs one absent bucket"; and buckets that were aborted are
  absent although the collector was connected, against `domain/capabilities.py`
  "A missing bucket is one in which the collector was not connected";
- `parse_streams` (`core/config.py`) refuses a label used twice but not a stream
  named twice: the manager's dictionary is keyed by `venue:symbol`, so the first
  label has columns and no live book;
- a row left by a crash is closed at the restart, so the downtime lies inside it
  (`raw.py:147`), against `raw.py:139-141`.

## 7. Plan

Done: the collector and its book with the abstract book it implements, what is
read from it, the writer with its announcements, the derive with its three gates,
the scheduler with health and the process around it, sessions in time, depth and
order-flow imbalance; the theorems of section 4, which state all invariants and
action properties. Left, most important first:

1. An abstract log for `DBWriter`, a queue that may drop what it counts, and the
   proof that the writer implements it; then `Derive` over that log, so that its
   `raw` and `held` are what the writer promises and not an assumption of the model.
2. The served series: whether a reader who asks for what came after its last point
   misses one that was filled in behind it.
3. A timed model of the snapshot fetch, for its rate of retries and the buffer.
