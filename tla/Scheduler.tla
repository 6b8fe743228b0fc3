------------------------------ MODULE Scheduler ------------------------------
(***************************************************************************)
(* The derive scheduler (api/src/scheduler/runner.py): one task that runs   *)
(* two jobs in a loop.  Clock times are kept relative to the clock, so that *)
(* the loop runs for ever in finitely many states; the clock moves only     *)
(* while the loop awaits a job or sleeps.  Node composes it with the        *)
(* lifespan that stops it and with what the jobs do to the grid.            *)
(***************************************************************************)
EXTENDS Integers

CONSTANTS
    TailInterval,   \* settings.derive_tail_seconds
    FullInterval,   \* settings.derive_full_seconds
    TickSeconds,    \* TICK_SECONDS
    StopTimeout,    \* how long lifespan waits for the task (main.py)
    MaxJob          \* bound: how long a job takes

Jobs == {1, 2}                     \* derive_tail, derive_full, in this order
Interval(j) == IF j = 1 THEN TailInterval ELSE FullInterval

ASSUME SchedulerAssumption ==
    /\ {TailInterval, FullInterval, TickSeconds, StopTimeout, MaxJob} \subseteq Nat \ {0}
    /\ MaxJob < TailInterval

VARIABLES
    due,        \* _next_due of each job, from now on: below 0 when overdue
    pass,       \* time since the loop read its `now`
    pc,         \* "loop", "check", or the await: "job", "sleep"; then "ended"
    job,        \* the job the for loop is at
    spent,      \* time in this await
    stopping,   \* _stopping
    since       \* history: time since each job last began

scheduler == <<due, pass, pc, job, spent, stopping, since>>

Waiting  == pc \in {"job", "sleep"}     \* elsewhere the loop does not yield

\* Longer than a job should wait for its turn, which the full derive takes after
\* the tail: where the history stops counting.
Late(j) == Interval(j) + (IF j = 1 THEN 1 ELSE 2) * MaxJob + TickSeconds

\* A job is overdue by no more than three runs of a job and a tick, and the wait of
\* lifespan once it stops the loop; beyond, the relative clock of `due` stops counting.
Earliest == -(3 * MaxJob + TickSeconds + StopTimeout)

-----------------------------------------------------------------------------
(* run() *)

Loop ==
    /\ pc = "loop"
    /\ IF stopping THEN pc' = "ended" ELSE pc' = "check"
    /\ pass' = 0 /\ job' = 1
    /\ UNCHANGED <<due, spent, stopping, since>>

Due(j) == due[j] + pass <= 0            \* now >= job._next_due

NextDue(j) == Interval(j) - pass        \* now + interval, and now is pass ago

Skip ==
    /\ pc = "check" /\ job \in Jobs /\ ~stopping /\ ~Due(job)
    /\ job' = job + 1
    /\ UNCHANGED <<due, pass, pc, spent, stopping, since>>

MayBegin == pc = "check" /\ job \in Jobs /\ ~stopping /\ Due(job)

Begin ==
    /\ MayBegin
    /\ due' = [due EXCEPT ![job] = NextDue(job)]
    /\ since' = [since EXCEPT ![job] = 0]
    /\ pc' = "job" /\ spent' = 0
    /\ UNCHANGED <<pass, job, stopping>>

\* The job returns, or raises and is logged.
JobEnds ==
    /\ pc = "job"
    /\ pc' = "check" /\ job' = job + 1
    /\ UNCHANGED <<due, pass, spent, stopping, since>>

\* The pass is over, or cut short by stop().
Sleep ==
    /\ pc = "check" /\ (job \notin Jobs \/ stopping)
    /\ pc' = "sleep" /\ spent' = 0
    /\ UNCHANGED <<due, pass, job, stopping, since>>

Wake ==
    /\ pc = "sleep" /\ spent = TickSeconds
    /\ pc' = "loop"
    /\ UNCHANGED <<due, pass, job, spent, stopping, since>>

-----------------------------------------------------------------------------
(* The clock, and what lifespan does to the task *)

\* Nobody is later than the event loop: a sleep ends when it is due.
SchedulerSecond ==
    /\ Waiting
    /\ spent < (IF pc = "sleep" THEN TickSeconds ELSE MaxJob)
    /\ spent' = spent + 1 /\ pass' = pass + 1
    /\ due' = [j \in Jobs |-> IF due[j] >= Earliest THEN due[j] - 1 ELSE due[j]]
    /\ since' = [j \in Jobs |-> IF since[j] < Late(j) THEN since[j] + 1 ELSE Late(j)]
    /\ UNCHANGED <<pc, job, stopping>>

Stop ==
    /\ ~stopping /\ stopping' = TRUE
    /\ UNCHANGED <<due, pass, pc, job, spent, since>>

\* wait_for cancels the task at the await it is in.
Cancel ==
    /\ Waiting /\ pc' = "ended"
    /\ UNCHANGED <<due, pass, job, spent, stopping, since>>

SchedulerInit ==
    /\ due = [j \in Jobs |-> Interval(j)] /\ since = [j \in Jobs |-> 0]
    /\ pass = 0 /\ pc = "loop" /\ job = 1 /\ spent = 0 /\ stopping = FALSE

\* What the loop does without awaiting.
LoopStep == Loop \/ Skip \/ Sleep \/ Wake

-----------------------------------------------------------------------------
(* What the scheduler promises *)

\* Every variable holds a value the code could hold, and a job is never overdue
\* by more than the loop can hold it up.
SchedulerTypeOK ==
    /\ \A j \in Jobs : due[j] \in Earliest..Interval(j)
    /\ DOMAIN due = Jobs
    /\ \A j \in Jobs : since[j] \in 0..Late(j)
    /\ pass \in Nat /\ spent \in 0..(TickSeconds + MaxJob)
    /\ pc \in {"loop", "check", "job", "sleep", "ended"} /\ job \in 1..3
    /\ stopping \in BOOLEAN

\* Neither job keeps the other from its turn: however the two fall, a job begins
\* within its interval, one tick and one run of the other job, or two for the full
\* derive, whose turn in a pass is the second.
NoJobIsLate == ~stopping => \A j \in Jobs : since[j] < Late(j)

\* The two together: no state of the loop is later than its bounds say.
SInv == SchedulerTypeOK /\ NoJobIsLate

=============================================================================
