-------------------------------- MODULE Health --------------------------------
(***************************************************************************)
(* GET /health (api/src/services/health.py) and what it reads: the grid     *)
(* and the last row of derive_runs through four statements, each of them an *)
(* await, and the collectors' memory in between two awaits.  The jobs of    *)
(* Scheduler are given their effect on what is read here; a point's age is  *)
(* counted from now, as every time in Scheduler.                           *)
(***************************************************************************)
EXTENDS Scheduler, FiniteSets

CONSTANTS
    Streams,        \* the collectors of settings.streams
    Step,           \* settings.grid_step_seconds
    MaxGridLag,     \* settings.max_grid_lag_seconds
    MaxMetricLag,   \* max_gap_seconds of a column (domain/metrics.py)
    MaxCheck,       \* bound: how long one check takes
    MaxTroubles     \* bound: how often something goes wrong

\* A point may be a step old when a job starts from it, and has to last until the
\* next job has published: an interval, a tick and the job.
ASSUME HealthAssumption ==
    /\ {Step, MaxGridLag, MaxMetricLag, MaxCheck} \subseteq Nat \ {0} /\ MaxTroubles \in Nat
    /\ Streams # {} /\ IsFiniteSet(Streams)
    /\ Step + TailInterval + TickSeconds + MaxJob <= MaxGridLag
    /\ MaxGridLag <= MaxMetricLag

VARIABLES
    clock,      \* time since the last grid point came due
    database,   \* the database answers
    link,       \* of each stream: "down", "connected", or "synced", as its flags say
    lost,       \* the streams whose socket is gone and whose flags still stand
    silent,     \* the streams whose last_event_at is older than max_stream_lag_seconds
    column,     \* time since the newest point of each stream's columns
    point,      \* the same of the grid_end of the job under way, else 0
    status,     \* of the newest row of derive_runs; "aborted" is also "failed"
    check,      \* the statement a check awaits, or "none"
    asked,      \* time since the check read its `now`
    seen,       \* what the check has read so far
    answer,     \* the last check's `ok`
    troubles,   \* how often something went wrong
    calm,       \* history: every stream was published after the last trouble
    clear,      \* history: and all has been well since this check began
    failing     \* history: the newest run had failed when the check began, and is still it

feed   == <<link, silent, lost>>
served == <<clock, column, point, status, failing>>
probe  == <<check, asked, seen, answer>>
history == <<troubles, calm, clear>>
health == <<database, feed, served, probe, history>>

\* Where ages stop counting: beyond every threshold, or never.
Old    == MaxMetricLag + 1
Aged(age, limit) == IF age < limit THEN age + 1 ELSE limit

GridAge == CHOOSE a \in {column[s] : s \in Streams} : \A s \in Streams : a <= column[s]

Trouble ==
    /\ troubles < MaxTroubles /\ troubles' = troubles + 1
    /\ calm' = FALSE /\ clear' = FALSE

NoTrouble == UNCHANGED history

-----------------------------------------------------------------------------
(* The collectors' memory: StreamState and OrderBook.synced *)

Connects(s) ==
    /\ link[s] = "down" /\ link' = [link EXCEPT ![s] = "connected"]
    /\ UNCHANGED <<silent, lost, database, served, probe>> /\ NoTrouble

Syncs(s) ==
    /\ link[s] = "connected" /\ s \notin lost /\ link' = [link EXCEPT ![s] = "synced"]
    /\ UNCHANGED <<silent, lost, database, served, probe>> /\ NoTrouble

Hears(s) ==
    /\ link[s] # "down" /\ s \notin lost /\ s \in silent /\ silent' = silent \ {s}
    /\ UNCHANGED <<link, lost, database, served, probe>> /\ NoTrouble

FallsSilent(s) ==
    /\ s \notin silent /\ silent' = silent \cup {s}
    /\ UNCHANGED <<link, lost, database, served, probe>> /\ Trouble

\* A gap.
Resyncs(s) ==
    /\ link[s] = "synced" /\ s \notin lost /\ link' = [link EXCEPT ![s] = "connected"]
    /\ UNCHANGED <<silent, lost, database, served, probe>> /\ Trouble

\* The socket is gone; _close_session awaits its close before it takes the flags down.
Drops(s) ==
    /\ link[s] # "down" /\ s \notin lost /\ lost' = lost \cup {s}
    /\ UNCHANGED <<link, silent, database, served, probe>> /\ Trouble

Closed(s) ==
    /\ s \in lost /\ lost' = lost \ {s} /\ link' = [link EXCEPT ![s] = "down"]
    /\ UNCHANGED <<silent, database, served, probe>> /\ NoTrouble

DatabaseFails ==
    /\ database /\ database' = FALSE
    /\ UNCHANGED <<feed, served, probe>> /\ Trouble

DatabaseReturns ==
    /\ ~database /\ database' = TRUE
    /\ UNCHANGED <<feed, served, probe>> /\ NoTrouble

-----------------------------------------------------------------------------
(* What the jobs do to the grid *)

\* The job's grid_end is floor_step(now); without a database it has no row.
JobBegins ==
    /\ Begin
    /\ point' = clock
    /\ status' = IF database THEN "running" ELSE status
    /\ failing' = (failing /\ ~database)
    /\ UNCHANGED <<database, feed, clock, column, probe>> /\ NoTrouble

AllWell == database /\ lost = {} /\ \A s \in Streams : link[s] = "synced" /\ s \notin silent

\* A stream has a point at grid_end when it was heard in the step before it.
JobPublishes(heard_streams) ==
    /\ JobEnds /\ database /\ status = "running"
    /\ column' = [s \in Streams |-> IF s \in heard_streams /\ point < column[s]
                                    THEN point ELSE column[s]]
    /\ status' = "published" /\ failing' = FALSE /\ point' = 0
    /\ IF heard_streams = Streams
       THEN calm' = (calm \/ AllWell) /\ UNCHANGED <<clear, troubles>>
       ELSE Trouble
    /\ UNCHANGED <<database, feed, clock, probe>>

\* A gate refused it, a statement failed, or the failure could not be recorded.
JobFails ==
    /\ JobEnds
    /\ status' \in IF database THEN {"aborted", status} ELSE {status}
    /\ IF database /\ status = "running" THEN Trouble ELSE NoTrouble
    /\ point' = 0
    /\ UNCHANGED <<database, feed, clock, column, failing, probe>>

-----------------------------------------------------------------------------
(* check() *)

NothingSeen == [fresh |-> FALSE, refused |-> FALSE]

Ask ==
    /\ check = "none" /\ check' = "ping" /\ answer' = "none"
    /\ asked' = 0 /\ seen' = NothingSeen
    /\ clear' = calm /\ failing' = (status = "aborted")
    /\ UNCHANGED <<database, feed, clock, column, point, status, calm, troubles>>

StreamFresh(s) == link[s] = "synced" /\ s \notin silent

BadStatus == {"aborted"}    \* compute_ok of nxp-node-contract

MetricsFresh == \A s \in Streams : column[s] <= MaxMetricLag

\* Mutant: the columns' own thresholds are enough.
OkWithoutTheGrid(connected, fresh, refused, producer_running) ==
    /\ connected /\ producer_running /\ ~refused
    /\ MetricsFresh
    /\ \A s \in Streams : StreamFresh(s)

\* Once the last statement has answered, memory is read without an await.
Ok(connected, fresh, refused, producer_running) ==
    /\ connected /\ producer_running /\ ~refused
    /\ fresh /\ MetricsFresh
    /\ \A s \in Streams : StreamFresh(s)

Answered(connected, fresh, refused, producer_running) ==
    /\ check' = "none" /\ asked' = 0 /\ seen' = NothingSeen
    /\ answer' = IF Ok(connected, fresh, refused, producer_running) THEN "ok" ELSE "not_ok"

\* ping() swallows its failure, and so does the handler around the other three.
Unreachable(producer_running) ==
    /\ check # "none" /\ ~database
    /\ Answered(FALSE, seen.fresh, seen.refused, producer_running)

Ping ==
    /\ check = "ping" /\ database
    /\ check' = "bounds" /\ asked' = 0 /\ UNCHANGED <<seen, answer>>

\* grid_lag is counted from the `now` of the check, not of the answer.
Bounds ==
    /\ check = "bounds" /\ database
    /\ check' = "last_run"
    /\ seen' = [fresh |-> GridAge # Old /\ GridAge - asked <= MaxGridLag, refused |-> FALSE]
    /\ UNCHANGED <<asked, answer>>

\* Mutant: a run under way is not a published one.
LastRunMustBePublished ==
    /\ check = "last_run" /\ database
    /\ check' = "metrics"
    /\ seen' = [fresh |-> seen.fresh, refused |-> status # "published"]
    /\ UNCHANGED <<asked, answer>>

LastRun ==
    /\ check = "last_run" /\ database
    /\ check' = "metrics"
    /\ seen' = [fresh |-> seen.fresh, refused |-> status \in BadStatus]
    /\ UNCHANGED <<asked, answer>>

Metrics(producer_running) ==
    /\ check = "metrics" /\ database
    /\ Answered(TRUE, seen.fresh, seen.refused, producer_running)

CheckReads == Ping \/ Bounds \/ LastRun

CheckEnds(producer_running) == Metrics(producer_running) \/ Unreachable(producer_running)

-----------------------------------------------------------------------------
(* Time *)

HealthSecond ==
    /\ check # "none" => asked < MaxCheck
    /\ clock' = (clock + 1) % Step
    /\ column' = [s \in Streams |-> Aged(column[s], Old)]
    /\ point' = IF pc = "job" THEN Aged(point, Old) ELSE 0
    /\ asked' = IF check = "none" THEN 0 ELSE asked + 1
    /\ UNCHANGED <<database, feed, status, failing, check, seen, answer, history>>

HealthInit ==
    /\ clock = 0 /\ database = TRUE
    /\ link = [s \in Streams |-> "down"] /\ silent = Streams /\ lost = {}
    /\ column = [s \in Streams |-> Old] /\ point = 0 /\ status = "none"
    /\ check = "none" /\ asked = 0 /\ seen = NothingSeen /\ answer = "none"
    /\ troubles = 0 /\ calm = FALSE /\ clear = FALSE /\ failing = FALSE

-----------------------------------------------------------------------------
(* What an answer promises *)

\* Every variable holds a value the code could hold.
HealthTypeOK ==
    /\ clock \in 0..(Step - 1) /\ database \in BOOLEAN
    /\ link \in [Streams -> {"down", "connected", "synced"}]
    /\ silent \subseteq Streams /\ lost \subseteq Streams /\ failing \in BOOLEAN
    /\ column \in [Streams -> 0..Old]
    /\ point \in 0..Old /\ status \in {"none", "running", "published", "aborted"}
    /\ check \in {"none", "ping", "bounds", "last_run", "metrics"} /\ asked \in 0..MaxCheck
    /\ seen \in [fresh : BOOLEAN, refused : BOOLEAN]
    /\ answer \in {"none", "ok", "not_ok"} /\ {calm, clear} \subseteq BOOLEAN
    /\ troubles \in 0..MaxTroubles

\* "never optimistic" (main.py): an ok is no older than its check.  The check reads the
\* grid and the last run in two statements while jobs begin, publish and fail between
\* them and after them; when it answers ok, some point of the grid was within its
\* threshold when the check read the time, and the newest run is none that had failed
\* when the check began.  What it reads from memory is what the flags say, and those of
\* a socket that is being closed still stand.
OkMeansFresh ==
    [][answer # "ok" /\ answer' = "ok" =>
        /\ \E s \in Streams : column[s] <= MaxGridLag + asked
        /\ ~failing]_<<scheduler, health>>

\* A node with nothing wrong never reports otherwise: however the two jobs fall on
\* the grid and on each other, the grid stays younger than the threshold.
NoFalseAlarm ==
    [][answer # "not_ok" /\ answer' = "not_ok" => ~clear]_<<scheduler, health>>

=============================================================================
