--------------------------------- MODULE Node ---------------------------------
(***************************************************************************)
(* The process (api/src/main.py, lifespan): it starts the collectors, the   *)
(* writer and the scheduler, serves, and on SIGTERM stops them one after    *)
(* the other while whatever has not been told yet keeps running.  The       *)
(* collectors and the writer are seen from the manager that stops them      *)
(* (collectors/manager.py); StreamCollector and DBWriter hold their insides. *)
(***************************************************************************)
EXTENDS Health

CONSTANTS
    CloseTimeout,   \* close_timeout of a venue's socket
    MaxStatement,   \* bound: a statement of the shutdown is answered or refused
    WriterTimeout,  \* how long DBWriter.stop waits for its task
    FailurePause,   \* how long _flush sleeps after a COPY that failed
    Grace           \* stop_grace_period of docker-compose.yml

ASSUME NodeAssumption ==
    {CloseTimeout, MaxStatement, WriterTimeout, FailurePause, Grace} \subseteq Nat \ {0}

TableCount == 3                                 \* TABLES of writer.py

CloseBound == CloseTimeout + MaxStatement       \* of one session
TableBound == MaxStatement + FailurePause       \* of one table of the last drain
StopBound  == CloseBound + WriterTimeout + 3 * TableBound + StopTimeout + MaxStatement

VARIABLES
    phase,      \* what lifespan awaits
    running,    \* CollectorManager._running
    stage,      \* of each collector's task: "up", then what its stop() awaits, then "ended"
    spell,      \* time each of them has been in this stage of its stop()
    undrained,  \* the tables the last drain has not come to the end of
    pausing,    \* it sleeps after a COPY that failed
    waited,     \* time in this await of lifespan
    elapsed,    \* history: time since SIGTERM
    began       \* history: when the server called lifespan's end; Grace until then

stops == <<stage, spell, undrained, pausing>>
node  == <<phase, running, stops, waited, elapsed, began>>
all   == <<scheduler, health, node>>

StartPhases == {"connect", "schema", "orphans"}
StopPhases  == {"requests", "collectors", "writer", "drain", "scheduler", "pool"}
Serving     == phase = "serving"
ShuttingDown == phase \in StopPhases
AllStopped  == \A s \in Streams : stage[s] = "ended"

\* Until the last check has answered, what it reads is followed.
Following == Serving \/ (phase = "requests" /\ check # "none")

\* How long an await of lifespan may last; the collectors' are counted one by one.
Limit(p) ==
    CASE p = "requests"  -> Grace
      [] p = "writer"    -> WriterTimeout
      [] p = "drain"     -> IF pausing THEN FailurePause
                            ELSE IF undrained > 0 THEN MaxStatement ELSE 0
      [] p = "scheduler" -> StopTimeout
      [] p = "pool"      -> MaxStatement
      [] OTHER           -> 0

StageLimit(s) ==
    CASE stage[s] = "closing"   -> CloseTimeout
      [] stage[s] = "finishing" -> MaxStatement
      [] OTHER                  -> 0

-----------------------------------------------------------------------------
(* Start *)

StartNext(p, q) ==
    /\ phase = p /\ phase' = q
    /\ UNCHANGED <<scheduler, health, running, stops, waited, elapsed, began>>

Connect     == StartNext("connect", "schema")
ApplySchema == StartNext("schema", "orphans")

\* The orphans are closed before any collector opens a session; then everything
\* is started without an await.
StartAll ==
    /\ phase = "orphans" /\ phase' = "serving" /\ running' = TRUE
    /\ UNCHANGED <<scheduler, health, stops, waited, elapsed, began>>

\* An exception on the way up ends the process.
StartFails ==
    /\ phase \in StartPhases /\ phase' = "exited"
    /\ UNCHANGED <<scheduler, health, running, stops, waited, elapsed, began>>

-----------------------------------------------------------------------------
(* Stop.  The server, which is external, ends the responses it has begun before it  *)
(* calls lifespan: a check is answered, and an event stream of routes/book.py ends   *)
(* when its reader leaves.                                                           *)

\* No check is left: what only a check reads is not followed further.
Forget ==
    /\ link' = [s \in Streams |-> "down"] /\ silent' = Streams /\ lost' = {}
    /\ clock' = 0 /\ database' = TRUE /\ point' = 0 /\ status' = "none"
    /\ column' = [s \in Streams |-> Old]
    /\ troubles' = 0 /\ calm' = FALSE /\ clear' = FALSE /\ failing' = FALSE

SigTerm ==
    /\ Serving
    /\ phase' = "requests"
    /\ waited' = 0 /\ elapsed' = 0 /\ began' = Grace
    /\ IF check = "none" THEN Forget ELSE UNCHANGED <<database, feed, served, history>>
    /\ UNCHANGED <<scheduler, probe, running, stops>>

\* No reader is left: at once, in a while, or never.  Every collector is stopped, which
\* cancels its task at the await it is in.
ReadersGone ==
    /\ phase = "requests" /\ check = "none"
    /\ phase' = "collectors" /\ running' = FALSE
    /\ stage' = [s \in Streams |-> "closing"] /\ spell' = [s \in Streams |-> 0]
    /\ waited' = 0 /\ began' = elapsed
    /\ UNCHANGED <<scheduler, health, undrained, pausing, elapsed>>

CollectorMoves(s, p, q) ==
    /\ phase = "collectors" /\ stage[s] = p
    /\ stage' = [stage EXCEPT ![s] = q]
    /\ UNCHANGED <<scheduler, health, phase, running, undrained, pausing, waited, elapsed, began>>

\* _close_session: the socket is closed, which its timeout bounds, and then the row is
\* finished or the failure logged.
SocketClosed(s) ==
    CollectorMoves(s, "closing", "finishing") /\ spell' = [spell EXCEPT ![s] = 0]

\* Mutant: the collectors are stopped one after the other, each when the one before it
\* has ended.
SessionFinishedInTurn(s) ==
    CollectorMoves(s, "finishing", "ended") /\ spell' = [t \in Streams |-> 0]

SessionFinished(s) ==
    CollectorMoves(s, "finishing", "ended") /\ spell' = [spell EXCEPT ![s] = 0]

\* No session is open, or the cancellation met _close_session itself, which it ends.
TaskEnds(s) ==
    CollectorMoves(s, "closing", "ended") /\ spell' = [spell EXCEPT ![s] = 0]

StopNext(p, q) ==
    /\ phase = p /\ phase' = q /\ waited' = 0
    /\ UNCHANGED <<health, running, stage, spell, elapsed, began>>

CollectorsStopped ==
    /\ AllStopped /\ StopNext("collectors", "writer")
    /\ UNCHANGED <<scheduler, undrained, pausing>>

\* The writer's task ends, or is cancelled at WriterTimeout.
WriterEnds ==
    /\ StopNext("writer", "drain") /\ undrained' = TableCount
    /\ UNCHANGED <<scheduler, pausing>>

\* A table is empty, or its COPY is answered.
TableDrained ==
    /\ undrained > 0 /\ ~pausing
    /\ StopNext("drain", "drain") /\ undrained' = undrained - 1
    /\ UNCHANGED <<scheduler, pausing>>

CopyFails ==
    /\ undrained > 0 /\ ~pausing
    /\ StopNext("drain", "drain") /\ pausing' = TRUE
    /\ UNCHANGED <<scheduler, undrained>>

PauseEnds ==
    /\ pausing /\ waited = FailurePause
    /\ StopNext("drain", "drain") /\ undrained' = undrained - 1 /\ pausing' = FALSE
    /\ UNCHANGED scheduler

\* The clients are closed; the scheduler is told to stop.
Drained ==
    /\ undrained = 0
    /\ StopNext("drain", "scheduler") /\ Stop /\ UNCHANGED <<undrained, pausing>>

\* Mutant: lifespan goes on without the task.
SchedulerIsLeft ==
    /\ pc = "ended" \/ waited = StopTimeout
    /\ StopNext("scheduler", "pool") /\ UNCHANGED <<scheduler, undrained, pausing>>

\* The task has seen the flag, or wait_for cancels it.
SchedulerEnds ==
    /\ StopNext("scheduler", "pool") /\ UNCHANGED <<undrained, pausing>>
    /\ \/ pc = "ended" /\ UNCHANGED scheduler
       \/ waited = StopTimeout /\ Cancel

PoolClosed == StopNext("pool", "exited") /\ UNCHANGED <<scheduler, undrained, pausing>>

\* The container runtime's patience is over.
Kill ==
    /\ ShuttingDown /\ elapsed = Grace
    /\ phase' = "killed" /\ Forget
    /\ check' = "none" /\ asked' = 0 /\ seen' = NothingSeen
    /\ UNCHANGED <<scheduler, answer, running, stops, waited, elapsed, began>>

-----------------------------------------------------------------------------
(* One event loop: a coroutine that does not await holds it *)

Free == Waiting \/ pc = "ended"
SchedulerRuns == Serving \/ ShuttingDown

SchedulerStep ==
    /\ SchedulerRuns /\ UNCHANGED node
    /\ \/ LoopStep /\ UNCHANGED health
       \/ Following /\ (JobBegins \/ JobFails)
       \/ Following /\ \E heard_streams \in SUBSET Streams \ {{}} : JobPublishes(heard_streams)
       \/ ~Following /\ UNCHANGED health /\ (Begin \/ JobEnds)

\* The venues and the database do what they like.
FeedStep ==
    /\ Free /\ Following /\ UNCHANGED <<scheduler, node>>
    /\ \/ \E s \in Streams : Connects(s) \/ Syncs(s) \/ Hears(s) \/ Resyncs(s)
       \/ \E s \in Streams : Drops(s) \/ Closed(s) \/ FallsSilent(s)
       \/ DatabaseFails \/ DatabaseReturns

\* A check begun before SIGTERM goes on after it.
ProbeStep ==
    /\ Free /\ Following /\ UNCHANGED <<scheduler, node>>
    /\ \/ Serving /\ Ask
       \/ CheckReads /\ UNCHANGED <<database, feed, served, history>>
       \/ CheckEnds(running)
          /\ IF Serving THEN UNCHANGED <<database, feed, served, history>> ELSE Forget

\* Nobody is later than the event loop: an await ends when it is due.
InTime ==
    /\ elapsed < Grace
    /\ IF phase = "collectors"
       THEN ~AllStopped /\ \A s \in Streams : stage[s] # "ended" => spell[s] < StageLimit(s)
       ELSE waited < Limit(phase)

Second ==
    /\ SchedulerRuns
    /\ SchedulerSecond \/ (pc = "ended" /\ UNCHANGED scheduler)
    /\ IF Following THEN HealthSecond ELSE UNCHANGED health
    /\ ShuttingDown => InTime
    /\ waited' = IF ShuttingDown THEN waited + 1 ELSE 0
    /\ elapsed' = IF ShuttingDown THEN elapsed + 1 ELSE elapsed
    /\ spell' = [s \in Streams |-> IF stage[s] \in {"closing", "finishing"} THEN spell[s] + 1
                                                                          ELSE 0]
    /\ UNCHANGED <<phase, running, stage, undrained, pausing, began>>

StartStep == Connect \/ ApplySchema \/ StartAll \/ StartFails
StopStep ==
    /\ Free
    /\ \/ SigTerm \/ ReadersGone \/ Kill
       \/ CollectorsStopped \/ WriterEnds \/ TableDrained \/ CopyFails \/ PauseEnds \/ Drained
       \/ SchedulerEnds \/ PoolClosed
       \/ \E s \in Streams : SocketClosed(s) \/ SessionFinished(s) \/ TaskEnds(s)

Exited == phase \in {"exited", "killed"} /\ UNCHANGED all

-----------------------------------------------------------------------------
(* The specification *)

Init ==
    /\ SchedulerInit /\ HealthInit
    /\ phase = "connect" /\ running = FALSE
    /\ stage = [s \in Streams |-> "up"] /\ spell = [s \in Streams |-> 0]
    /\ undrained = 0 /\ pausing = FALSE /\ waited = 0 /\ elapsed = 0 /\ began = 0

Next == StartStep \/ SchedulerStep \/ FeedStep \/ ProbeStep \/ Second \/ StopStep \/ Exited

Spec == Init /\ [][Next]_all

-----------------------------------------------------------------------------
(* What the process promises *)

\* Every variable holds a value the code could hold.
NodeTypeOK ==
    /\ phase \in StartPhases \cup StopPhases \cup {"serving", "exited", "killed"}
    /\ running \in BOOLEAN /\ pausing \in BOOLEAN
    /\ stage \in [Streams -> {"up", "closing", "finishing", "ended"}]
    /\ DOMAIN spell = Streams /\ \A s \in Streams : spell[s] \in 0..StageLimit(s)
    /\ undrained \in 0..TableCount
    /\ elapsed \in 0..Grace /\ began \in 0..Grace /\ waited \in 0..elapsed

\* Nothing that would take a connection is left when the pool is closed, though a
\* derive and a health check may have been under way at SIGTERM.
PoolOutlivesItsUsers ==
    (phase = "pool" \/ (phase = "exited" /\ AllStopped)) => ~Waiting /\ check = "none"

\* The three type invariants, the scheduler's bounds and the order of the end.
NInv == NodeTypeOK /\ HealthTypeOK /\ SInv /\ PoolOutlivesItsUsers

\* Once lifespan is called the sessions are closed within one close handshake and one
\* statement, whatever a derive is doing ("it must not wait behind a derive that happens
\* to be mid-flight", main.py) and however many they are; and the process is killed only
\* if what is left of the grace period then is no more than its awaits may take, one
\* after the other: the close, the writer, a COPY and a pause for each table, the loop.
StopKeepsItsDeadlines ==
    /\ phase = "collectors" => elapsed - began <= CloseBound
    /\ phase = "killed" => began + StopBound >= Grace

=============================================================================
