------------------------------ MODULE NodeProofs ------------------------------
(***************************************************************************)
(* Proofs about Node, and the Scheduler and Health it is made of, for any   *)
(* intervals, any number of streams and any bounds the assumptions allow:   *)
(* the types and how late a job may be, the order of the end of the process *)
(* and its deadlines, and what /health may answer.                          *)
(***************************************************************************)
EXTENDS Node, FiniteSetTheorems, WellFoundedInduction, TLAPS

LEMMA Positive ==
    /\ TailInterval \in Nat \ {0} /\ FullInterval \in Nat \ {0} /\ TickSeconds \in Nat \ {0}
    /\ StopTimeout \in Nat \ {0} /\ MaxJob \in Nat \ {0} /\ MaxJob < TailInterval
BY SchedulerAssumption

-----------------------------------------------------------------------------
(* The loop: how late each job may be, wherever the loop is *)

\* since[1] and since[2] are short of their intervals by more than these excesses.
Within(tail, full) == since[1] < TailInterval + tail /\ since[2] < FullInterval + full

LoopTypes ==
    /\ due \in [Jobs -> Int] /\ since \in [Jobs -> Nat]
    /\ \A j \in Jobs : due[j] \in Earliest..Interval(j) /\ since[j] <= Late(j)
    /\ pass \in Nat /\ spent \in 0..(TickSeconds + MaxJob) /\ job \in 1..3
    /\ pc \in {"loop", "check", "job", "sleep", "ended"} /\ stopping \in BOOLEAN
    /\ pc = "job" => job \in Jobs /\ spent <= MaxJob
    /\ pc = "sleep" => spent <= TickSeconds
    /\ pc = "ended" => stopping

\* A job's turn was set from the start of the pass it began in.
DueSince ==
    \A j \in Jobs : /\ since[j] + due[j] <= Interval(j)
                    /\ since[j] + due[j] >= Interval(j) - MaxJob

HoldUp ==
    /\ pc = "job" => since[1] >= spent
    /\ pc = "loop" => Within(MaxJob + TickSeconds, MaxJob + TickSeconds)
    /\ pc = "check" /\ job = 1 =>
          pass = 0 /\ Within(MaxJob + TickSeconds, MaxJob + TickSeconds)
    /\ pc = "job" /\ job = 1 =>
          pass = spent /\ since[1] <= spent /\ Within(0, MaxJob + TickSeconds + spent)
    /\ pc = "check" /\ job = 2 => pass <= MaxJob /\ Within(0, 2 * MaxJob + TickSeconds)
    /\ pc = "job" /\ job = 2 => since[2] <= spent /\ Within(spent, spent)
    /\ pc = "check" /\ job = 3 => Within(MaxJob, MaxJob)
    /\ pc = "sleep" => Within(MaxJob + spent, MaxJob + spent)

LoopInv == LoopTypes /\ (~stopping => DueSince /\ HoldUp)

-----------------------------------------------------------------------------
(* The end of the process *)

Overdue == -(3 * MaxJob + TickSeconds)

AllUp == \A s \in Streams : stage[s] = "up"

\* Who is left at each phase, and what may still move.
OrderInv ==
    /\ stopping => phase \in {"scheduler", "pool", "exited", "killed"}
    /\ phase = "scheduler" => stopping /\ \A j \in Jobs : due[j] >= Overdue - waited
    /\ phase \in StartPhases \cup {"serving", "requests"} => AllUp
    /\ phase \in {"serving", "requests"} => running
    /\ phase \in {"collectors", "writer", "drain", "scheduler", "pool"} => check = "none"
    /\ phase \in {"writer", "drain", "scheduler", "pool"} => AllStopped
    /\ phase = "pool" => pc = "ended"
    /\ phase = "exited" => AllUp \/ (AllStopped /\ pc = "ended" /\ check = "none")
    /\ pausing => phase \in {"drain", "killed"} /\ undrained > 0

\* The stages of the collectors, which run side by side.
StagesInTime ==
    \A s \in Streams :
       /\ stage[s] = "closing"   => elapsed <= began + spell[s]
       /\ stage[s] = "finishing" => elapsed <= began + CloseTimeout + spell[s]

\* When the last drain may be over, at the latest.
DrainBy == began + CloseBound + WriterTimeout + 3 * TableBound

\* How much of the grace period is gone, by the phase of the stop.
TimeInv ==
    /\ phase \in StartPhases \cup {"serving"} => waited = 0
    /\ ShuttingDown /\ phase # "collectors" => waited <= Limit(phase)
    /\ phase = "requests" => began = Grace
    /\ phase = "collectors" => elapsed <= began + CloseBound /\ StagesInTime
    /\ phase = "writer" => elapsed <= began + CloseBound + waited
    /\ phase = "drain" =>
          elapsed + undrained * TableBound
             <= DrainBy + waited + (IF pausing THEN MaxStatement ELSE 0)
    /\ phase = "scheduler" => elapsed <= DrainBy + waited
    /\ phase = "pool" => elapsed <= DrainBy + StopTimeout + waited
    /\ phase = "killed" => began + StopBound >= Grace

EndInv == NodeTypeOK /\ OrderInv /\ TimeInv

-----------------------------------------------------------------------------
(* The check *)

\* Some column was young enough when the check asked, and has grown older with it.
FreshInv ==
    seen.fresh => /\ check \in {"last_run", "metrics"}
                  /\ \E s \in Streams : column[s] <= MaxGridLag + asked

\* A run that had failed when the check began is refused once the check has read it.
FailingInv == failing => status = "aborted" /\ (check = "metrics" => seen.refused)

\* The point a job works from was due when it began.
PointAge == (pc = "job" => point < Step + spent) /\ (~Following => point = 0)

\* With nothing wrong the newest row is good...
CalmWell == /\ Following /\ AllWell
            /\ status \in {"running", "published"} /\ (pc = "job" => status = "running")

\* No column is older than this beyond a step.
Younger(age) == \A s \in Streams : column[s] < Step + age

\* ...and the columns are as old as the loop allows.
CalmAges ==
    /\ ~(pc = "job" /\ job = 1) => Younger(since[1])
    /\ pc = "loop" => Younger(TailInterval + TickSeconds - 1)
    /\ pc = "check" /\ job = 1 => Younger(TailInterval + TickSeconds - 1)
    /\ pc = "job" /\ job = 1 => Younger(TailInterval + TickSeconds - 1 + spent)
    /\ pc = "check" /\ job \in {2, 3} => Younger(TailInterval - 1)
    /\ pc = "job" /\ job = 2 => Younger(TailInterval - 1 + spent)
    /\ pc = "sleep" => Younger(TailInterval - 1 + spent)

\* What a check that began in calm has seen is good.
SeenWell == /\ clear => calm
            /\ clear /\ check \in {"last_run", "metrics"} => seen.fresh
            /\ clear /\ check = "metrics" => ~seen.refused

CalmInv == PointAge /\ SeenWell /\ (calm => CalmWell /\ CalmAges)

-----------------------------------------------------------------------------
(* The loop keeps its hours *)

LEMMA JobConstants ==
    /\ Jobs = {1, 2} /\ Interval(1) = TailInterval /\ Interval(2) = FullInterval
    /\ Late(1) = TailInterval + MaxJob + TickSeconds
    /\ Late(2) = FullInterval + 2 * MaxJob + TickSeconds
    /\ Earliest = Overdue - StopTimeout
    /\ Late(1) \in Nat /\ Late(2) \in Nat /\ Earliest \in Int /\ Overdue \in Int
BY Positive DEF Jobs, Interval, Late, Earliest, Overdue

\* While the loop is not told to stop, no job is late, nor as overdue as it may be.
LEMMA NotLate ==
    ASSUME LoopInv, ~stopping
    PROVE  /\ since[1] < Late(1) /\ since[2] < Late(2)
           /\ \A j \in Jobs : due[j] > Overdue
<1>1. /\ since[1] \in Nat /\ since[2] \in Nat /\ due[1] \in Int /\ due[2] \in Int
      /\ spent \in Nat /\ pass \in Nat
  BY JobConstants DEF LoopInv, LoopTypes
<1>2. since[1] < TailInterval + MaxJob + TickSeconds
  <2>1. CASE pc = "loop" \/ pc = "sleep"
    BY <1>1, <2>1, Positive DEF LoopInv, LoopTypes, HoldUp, Within
  <2>2. CASE pc = "check" \/ pc = "job"
    <3>1. job = 1 \/ job = 2 \/ job = 3
      BY DEF LoopInv, LoopTypes
    <3> QED BY <1>1, <2>2, <3>1, Positive DEF LoopInv, LoopTypes, HoldUp, Within, Jobs
  <2> QED BY <2>1, <2>2 DEF LoopInv, LoopTypes
<1>3. since[2] < FullInterval + 2 * MaxJob + TickSeconds
  <2>1. CASE pc = "loop" \/ pc = "sleep"
    BY <1>1, <2>1, Positive DEF LoopInv, LoopTypes, HoldUp, Within
  <2>2. CASE pc = "check" \/ pc = "job"
    <3>1. job = 1 \/ job = 2 \/ job = 3
      BY DEF LoopInv, LoopTypes
    <3> QED BY <1>1, <2>2, <3>1, Positive DEF LoopInv, LoopTypes, HoldUp, Within, Jobs
  <2> QED BY <2>1, <2>2 DEF LoopInv, LoopTypes
<1>4. /\ since[1] + due[1] >= TailInterval - MaxJob
      /\ since[2] + due[2] >= FullInterval - MaxJob
  BY JobConstants DEF LoopInv, DueSince
<1>5. due[1] > Overdue /\ due[2] > Overdue
  BY <1>1, <1>2, <1>3, <1>4, Positive DEF Overdue
<1> QED BY <1>2, <1>3, <1>5, JobConstants

\* A second in which the loop waits.
LEMMA SecondKeeps ==
    ASSUME LoopInv, SchedulerSecond, \A j \in Jobs : due[j] > Earliest
    PROVE  LoopInv' /\ \A j \in Jobs : due'[j] = due[j] - 1
<1>1. /\ pc \in {"job", "sleep"} /\ spent < (IF pc = "sleep" THEN TickSeconds ELSE MaxJob)
      /\ spent' = spent + 1 /\ pass' = pass + 1 /\ UNCHANGED <<pc, job, stopping>>
      /\ due' = [j \in Jobs |-> IF due[j] >= Earliest THEN due[j] - 1 ELSE due[j]]
      /\ since' = [j \in Jobs |-> IF since[j] < Late(j) THEN since[j] + 1 ELSE Late(j)]
  BY DEF SchedulerSecond, Waiting
<1>2. /\ since \in [Jobs -> Nat] /\ due \in [Jobs -> Int] /\ spent \in Nat /\ pass \in Nat
      /\ \A j \in Jobs : due[j] \in Earliest..Interval(j) /\ since[j] <= Late(j)
      /\ \A j \in Jobs : Late(j) \in Nat /\ Interval(j) \in Nat
  BY JobConstants, Positive DEF LoopInv, LoopTypes
<1>3. \A j \in Jobs : due'[j] = due[j] - 1 /\ due'[j] \in Earliest..Interval(j)
  BY <1>1, <1>2, JobConstants
<1>4. \A j \in Jobs : /\ since'[j] \in Nat /\ since'[j] <= Late(j)
                      /\ since[j] < Late(j) => since'[j] = since[j] + 1
  BY <1>1, <1>2
<1>5. LoopTypes'
  <2>1. due' \in [Jobs -> Int] /\ since' \in [Jobs -> Nat]
    BY <1>1, <1>2
  <2>2. spent' \in 0..(TickSeconds + MaxJob) /\ (pc = "job" => spent' <= MaxJob)
        /\ (pc = "sleep" => spent' <= TickSeconds) /\ pass' \in Nat
    BY <1>1, <1>2, Positive
  <2> QED BY <1>1, <1>3, <1>4, <2>1, <2>2 DEF LoopInv, LoopTypes
<1>6. ASSUME ~stopping PROVE DueSince' /\ HoldUp'
  <2>1. since'[1] = since[1] + 1 /\ since'[2] = since[2] + 1
    BY <1>4, <1>6, NotLate, JobConstants
  <2>2. DueSince'
    BY <1>1, <1>2, <1>3, <1>6, <2>1, JobConstants DEF LoopInv, DueSince
  <2>3. since[1] \in Nat /\ since[2] \in Nat
    BY <1>2, JobConstants
  <2>4. HoldUp'
    <3>1. CASE pc = "job" /\ job = 1
      BY <1>1, <1>2, <1>6, <2>1, <2>3, <3>1, Positive DEF LoopInv, HoldUp, Within
    <3>2. CASE pc = "job" /\ job = 2
      BY <1>1, <1>2, <1>6, <2>1, <2>3, <3>2, Positive DEF LoopInv, HoldUp, Within
    <3>3. CASE pc = "sleep"
      BY <1>1, <1>2, <1>6, <2>1, <2>3, <3>3, Positive DEF LoopInv, HoldUp, Within
    <3>4. pc = "job" => job = 1 \/ job = 2
      BY DEF LoopInv, LoopTypes, Jobs
    <3> QED BY <1>1, <3>1, <3>2, <3>3, <3>4
  <2> QED BY <2>2, <2>4
<1> QED BY <1>1, <1>3, <1>5, <1>6 DEF LoopInv

\* The steps the loop takes without awaiting, and the end of a job.
LEMMA LoopKeeps ==
    ASSUME LoopInv, LoopStep \/ JobEnds
    PROVE  LoopInv' /\ due' = due /\ since' = since /\ stopping' = stopping
<1>1. UNCHANGED <<due, since, stopping>>
  BY DEF LoopStep, Loop, Skip, Sleep, Wake, JobEnds
<1>2. /\ since[1] \in Nat /\ since[2] \in Nat /\ due[1] \in Int /\ due[2] \in Int
      /\ spent \in Nat /\ pass \in Nat /\ job \in 1..3
  BY JobConstants DEF LoopInv, LoopTypes
<1>3. ~stopping => DueSince'
  BY <1>1 DEF LoopInv, DueSince
<1>4. CASE Loop
  <2>1. pc = "loop" /\ pc' = (IF stopping THEN "ended" ELSE "check") /\ pass' = 0 /\ job' = 1
        /\ spent' = spent
    BY <1>4 DEF Loop
  <2>2. LoopTypes'
    BY <1>1, <2>1 DEF LoopInv, LoopTypes
  <2>3. ~stopping => HoldUp'
    BY <1>1, <2>1 DEF LoopInv, HoldUp, Within
  <2> QED BY <1>1, <1>3, <2>2, <2>3 DEF LoopInv
<1>5. CASE Skip
  <2>1. /\ pc = "check" /\ job \in Jobs /\ ~stopping /\ ~(due[job] + pass <= 0)
        /\ job' = job + 1 /\ UNCHANGED <<pass, pc, spent>>
    BY <1>5 DEF Skip, Due
  <2>2. LoopTypes'
    BY <1>1, <2>1, JobConstants DEF LoopInv, LoopTypes
  <2>3. HoldUp'
    <3>1. CASE job = 1
      <4>1. since[1] < TailInterval /\ pass = 0
            /\ since[2] < FullInterval + MaxJob + TickSeconds
        BY <1>2, <2>1, <3>1, JobConstants, Positive DEF LoopInv, HoldUp, DueSince, Within
      <4> QED BY <1>1, <1>2, <2>1, <3>1, <4>1, Positive DEF HoldUp, Within
    <3>2. CASE job = 2
      <4>1. /\ pass <= MaxJob /\ since[1] < TailInterval
            /\ since[2] + due[2] <= FullInterval /\ due[2] + pass > 0
        BY <1>2, <2>1, <3>2, JobConstants, Positive DEF LoopInv, HoldUp, DueSince, Within
      <4>2. since[2] < FullInterval + MaxJob
        BY <1>2, <4>1, Positive
      <4> QED BY <1>1, <1>2, <2>1, <3>2, <4>1, <4>2, Positive DEF HoldUp, Within
    <3> QED BY <2>1, <3>1, <3>2, JobConstants
  <2> QED BY <1>1, <1>3, <2>1, <2>2, <2>3 DEF LoopInv
<1>6. CASE Sleep
  <2>1. /\ pc = "check" /\ (job \notin Jobs \/ stopping) /\ pc' = "sleep" /\ spent' = 0
        /\ UNCHANGED <<pass, job>>
    BY <1>6 DEF Sleep
  <2>2. LoopTypes'
    BY <1>1, <2>1, Positive DEF LoopInv, LoopTypes
  <2>3. ~stopping => HoldUp'
    <3>1. ~stopping => job = 3
      BY <1>2, <2>1, JobConstants
    <3> QED BY <1>1, <1>2, <2>1, <3>1, Positive DEF LoopInv, HoldUp, Within
  <2> QED BY <1>1, <1>3, <2>2, <2>3 DEF LoopInv
<1>7. CASE Wake
  <2>1. pc = "sleep" /\ spent = TickSeconds /\ pc' = "loop" /\ UNCHANGED <<pass, job, spent>>
    BY <1>7 DEF Wake
  <2>2. LoopTypes'
    BY <1>1, <2>1 DEF LoopInv, LoopTypes
  <2>3. ~stopping => HoldUp'
    BY <1>1, <2>1 DEF LoopInv, HoldUp, Within
  <2> QED BY <1>1, <1>3, <2>2, <2>3 DEF LoopInv
<1>8. CASE JobEnds
  <2>1. pc = "job" /\ pc' = "check" /\ job' = job + 1 /\ UNCHANGED <<pass, spent>>
    BY <1>8 DEF JobEnds
  <2>2. LoopTypes'
    BY <1>1, <2>1, JobConstants DEF LoopInv, LoopTypes
  <2>3. ASSUME ~stopping PROVE HoldUp'
    <3>1. spent <= MaxJob /\ (job = 1 \/ job = 2)
      BY <2>1, JobConstants DEF LoopInv, LoopTypes
    <3>2. CASE job = 1
      <4>1. /\ pass = spent /\ since[1] <= spent
            /\ since[2] < FullInterval + MaxJob + TickSeconds + spent
        BY <1>2, <2>1, <2>3, <3>2, Positive DEF LoopInv, HoldUp, Within
      <4>2. since[1] < TailInterval + 0 /\ since[2] < FullInterval + (2 * MaxJob + TickSeconds)
        BY <1>2, <3>1, <4>1, Positive
      <4>3. job' = 2 /\ pc' = "check" /\ pass' <= MaxJob
        BY <1>2, <2>1, <3>1, <3>2, <4>1
      <4> QED BY <1>1, <4>2, <4>3 DEF HoldUp, Within
    <3>3. CASE job = 2
      <4>1. since[2] <= spent /\ since[1] < TailInterval + spent
        BY <2>1, <2>3, <3>3 DEF LoopInv, HoldUp, Within
      <4>2. since[1] < TailInterval + MaxJob /\ since[2] < FullInterval + MaxJob
        BY <1>2, <3>1, <4>1, Positive
      <4> QED BY <1>1, <2>1, <3>3, <4>2 DEF HoldUp, Within
    <3> QED BY <3>1, <3>2, <3>3
  <2> QED BY <1>1, <1>3, <2>2, <2>3 DEF LoopInv
<1> QED BY <1>1, <1>4, <1>5, <1>6, <1>7, <1>8 DEF LoopStep

\* A job begins: the pass reckons its next turn.
LEMMA BeginKeeps ==
    ASSUME LoopInv, Begin
    PROVE  LoopInv' /\ ~stopping /\ stopping' = stopping
<1>1. /\ pc = "check" /\ job \in Jobs /\ ~stopping /\ due[job] + pass <= 0
      /\ due' = [due EXCEPT ![job] = NextDue(job)] /\ since' = [since EXCEPT ![job] = 0]
      /\ pc' = "job" /\ spent' = 0 /\ UNCHANGED <<pass, job, stopping>>
  BY DEF Begin, MayBegin, Due
<1>2. /\ since \in [Jobs -> Nat] /\ due \in [Jobs -> Int] /\ spent \in Nat /\ pass \in Nat
      /\ \A j \in Jobs : due[j] \in Earliest..Interval(j) /\ since[j] <= Late(j)
      /\ \A j \in Jobs : Late(j) \in Nat /\ Interval(j) \in Nat
  BY JobConstants, Positive DEF LoopInv, LoopTypes
<1>3. pass <= MaxJob /\ (job = 1 => pass = 0)
  <2>1. job = 1 \/ job = 2
    BY <1>1, JobConstants
  <2> QED BY <1>1, <2>1, Positive DEF LoopInv, HoldUp
<1>4. NextDue(job) \in Int /\ NextDue(job) = Interval(job) - pass
      /\ NextDue(job) \in Earliest..Interval(job)
  BY <1>1, <1>2, <1>3, Positive, JobConstants DEF NextDue, Overdue
<1>5. /\ due' \in [Jobs -> Int] /\ since' \in [Jobs -> Nat]
      /\ since'[job] = 0 /\ due'[job] = Interval(job) - pass
      /\ \A j \in Jobs : j # job => since'[j] = since[j] /\ due'[j] = due[j]
  BY <1>1, <1>2, <1>4
<1>6. LoopTypes'
  <2>1. \A j \in Jobs : due'[j] \in Earliest..Interval(j) /\ since'[j] <= Late(j)
    BY <1>2, <1>4, <1>5
  <2>2. spent' \in 0..(TickSeconds + MaxJob) /\ spent' <= MaxJob
    BY <1>1, Positive
  <2> QED BY <1>1, <1>5, <2>1, <2>2 DEF LoopInv, LoopTypes
<1>7. DueSince'
  <2>1. ASSUME NEW j \in Jobs
        PROVE  since'[j] + due'[j] <= Interval(j) /\ since'[j] + due'[j] >= Interval(j) - MaxJob
    <3>1. CASE j = job
      BY <1>2, <1>3, <1>5, <3>1, Positive
    <3>2. CASE j # job
      BY <1>1, <1>5, <3>2 DEF LoopInv, DueSince
    <3> QED BY <3>1, <3>2
  <2> QED BY <2>1 DEF DueSince
<1>8. HoldUp'
  <2>1. CASE job = 1
    <3>1. since'[1] = 0 /\ since'[2] = since[2] /\ pass = 0
          /\ since[2] < FullInterval + (MaxJob + TickSeconds)
      BY <1>1, <1>3, <1>5, <2>1, JobConstants DEF LoopInv, HoldUp, Within
    <3> QED BY <1>1, <1>2, <2>1, <3>1, JobConstants, Positive DEF HoldUp, Within
  <2>2. CASE job = 2
    <3>1. since'[2] = 0 /\ since'[1] = since[1] /\ since[1] < TailInterval + 0
      BY <1>1, <1>5, <2>2, JobConstants DEF LoopInv, HoldUp, Within
    <3> QED BY <1>1, <1>2, <2>2, <3>1, JobConstants, Positive DEF HoldUp, Within
  <2> QED BY <1>1, <2>1, <2>2, JobConstants
<1> QED BY <1>1, <1>6, <1>7, <1>8 DEF LoopInv

\* lifespan tells it to stop, or cancels it.
LEMMA StopKeeps ==
    ASSUME LoopInv, Stop \/ (Cancel /\ stopping)
    PROVE  LoopInv' /\ due' = due /\ stopping'
<1>1. UNCHANGED <<due, since, pass, job, spent>> /\ stopping'
      /\ (pc' = pc \/ pc' = "ended") /\ stopping' \in BOOLEAN
  BY DEF Stop, Cancel, LoopInv, LoopTypes
<1>2. LoopTypes'
  BY <1>1 DEF LoopInv, LoopTypes
<1> QED BY <1>1, <1>2 DEF LoopInv

LEMMA LoopStarts == SchedulerInit => LoopInv
<1> SUFFICES ASSUME SchedulerInit PROVE LoopInv
  OBVIOUS
<1>1. /\ due = [j \in Jobs |-> Interval(j)] /\ since = [j \in Jobs |-> 0]
      /\ pass = 0 /\ pc = "loop" /\ job = 1 /\ spent = 0 /\ stopping = FALSE
  BY DEF SchedulerInit
<1>2. \A j \in Jobs : Interval(j) \in Nat /\ Interval(j) \in Earliest..Interval(j)
                      /\ Late(j) \in Nat
  BY JobConstants, Positive DEF Overdue
<1>3. LoopTypes
  <2>1. stopping \in BOOLEAN
    BY <1>1, Zenon
  <2> QED BY <1>1, <1>2, <2>1, Positive DEF LoopTypes
<1>4. DueSince
  BY <1>1, <1>2, Positive DEF DueSince
<1>5. since[1] = 0 /\ since[2] = 0
  BY <1>1, JobConstants
<1>6. HoldUp
  BY <1>1, <1>5, Positive DEF HoldUp, Within
<1> QED BY <1>3, <1>4, <1>6 DEF LoopInv
-----------------------------------------------------------------------------
(* Every step of the process moves the loop as one of its own does, or not at all *)

LEMMA NodeConstants ==
    /\ CloseTimeout \in Nat \ {0} /\ MaxStatement \in Nat \ {0} /\ WriterTimeout \in Nat \ {0}
    /\ FailurePause \in Nat \ {0} /\ Grace \in Nat \ {0}
    /\ CloseBound = CloseTimeout + MaxStatement /\ TableBound = MaxStatement + FailurePause
    /\ StopBound = CloseBound + WriterTimeout + 3 * TableBound + StopTimeout + MaxStatement
    /\ CloseBound \in Nat /\ TableBound \in Nat /\ StopBound \in Nat
BY NodeAssumption, Positive DEF StopBound, CloseBound, TableBound

LEMMA Limits ==
    /\ Limit("requests") = Grace /\ Limit("writer") = WriterTimeout
    /\ Limit("scheduler") = StopTimeout /\ Limit("pool") = MaxStatement
    /\ pausing => Limit("drain") = FailurePause
    /\ ~pausing /\ undrained > 0 => Limit("drain") = MaxStatement
    /\ ~pausing /\ ~(undrained > 0) => Limit("drain") = 0
BY DEF Limit

Phases == StartPhases \cup StopPhases \cup {"serving", "exited", "killed"}

LEMMA NodeTypes ==
    ASSUME NodeTypeOK
    PROVE  /\ phase \in Phases /\ running \in BOOLEAN /\ pausing \in BOOLEAN
           /\ waited \in 0..elapsed /\ elapsed \in 0..Grace /\ began \in 0..Grace
           /\ waited \in Nat /\ elapsed \in Nat /\ began \in Nat /\ waited <= elapsed
           /\ undrained \in 0..3
           /\ \A s \in Streams : spell[s] \in Nat /\ StageLimit(s) \in Nat
BY NodeConstants DEF NodeTypeOK, Phases, TableCount, StageLimit

\* What runs besides lifespan: no step of it changes what lifespan keeps, but time.
LEMMA SchedulerStepFacts ==
    ASSUME LoopInv, SchedulerStep
    PROVE  /\ UNCHANGED node /\ check' = check
           /\ SchedulerRuns /\ pc # "ended" /\ stopping' = stopping
           /\ stopping => due' = due
           /\ LoopInv'
<1>0. SchedulerRuns /\ UNCHANGED node
  BY DEF SchedulerStep
<1>1. CASE LoopStep /\ UNCHANGED health
  <2>1. pc # "ended"
    BY <1>1 DEF LoopStep, Loop, Skip, Sleep, Wake
  <2> QED BY <1>0, <1>1, <2>1, LoopKeeps DEF health, probe
<1>2. CASE JobBegins
  <2>1. Begin /\ check' = check
    BY <1>2 DEF JobBegins, probe
  <2>2. pc # "ended"
    BY <2>1 DEF Begin, MayBegin
  <2> QED BY <1>0, <2>1, <2>2, BeginKeeps
<1>3. CASE JobFails \/ \E heard_streams \in SUBSET Streams \ {{}} : JobPublishes(heard_streams)
  <2>1. JobEnds /\ check' = check
    BY <1>3 DEF JobFails, JobPublishes, probe
  <2>2. pc # "ended"
    BY <2>1 DEF JobEnds
  <2> QED BY <1>0, <2>1, <2>2, LoopKeeps
<1>4. CASE UNCHANGED health /\ Begin
  <2>1. pc # "ended" /\ check' = check
    BY <1>4 DEF Begin, MayBegin, health, probe
  <2> QED BY <1>0, <1>4, <2>1, BeginKeeps
<1>5. CASE UNCHANGED health /\ JobEnds
  <2>1. pc # "ended" /\ check' = check
    BY <1>5 DEF JobEnds, health, probe
  <2> QED BY <1>0, <1>5, <2>1, LoopKeeps
<1> QED BY <1>1, <1>2, <1>3, <1>4, <1>5 DEF SchedulerStep

\* A second in which the loop waits never finds a job as overdue as the clock can count.
LEMMA NotEarliest ==
    ASSUME LoopInv, EndInv, Second, SchedulerSecond
    PROVE  \A j \in Jobs : due[j] > Earliest
<1>1. SchedulerRuns /\ (ShuttingDown => InTime) /\ pc # "ended"
  BY DEF Second, SchedulerSecond, Waiting
<1>2. \A j \in Jobs : due[j] \in Int
  BY DEF LoopInv, LoopTypes
<1>3. CASE ~stopping
  BY <1>2, <1>3, NotLate, JobConstants, Positive
<1>4. CASE stopping
  <2>1. phase \in {"scheduler", "pool", "exited", "killed"}
    BY <1>4 DEF EndInv, OrderInv
  <2>2. phase = "scheduler" /\ ShuttingDown
    BY <1>1, <2>1 DEF SchedulerRuns, Serving, ShuttingDown, StopPhases, EndInv, OrderInv
  <2>3. waited \in Nat
    BY NodeTypes DEF EndInv
  <2>4. waited < StopTimeout
    BY <1>1, <2>2, Limits DEF InTime
  <2> QED BY <1>2, <2>2, <2>3, <2>4, JobConstants, Positive DEF EndInv, OrderInv
<1> QED BY <1>3, <1>4 DEF LoopInv, LoopTypes

LEMMA SecondFacts ==
    ASSUME LoopInv, EndInv, Second
    PROVE  /\ LoopInv' /\ UNCHANGED <<phase, running, stage, undrained, pausing, began>>
           /\ UNCHANGED <<pc, stopping, check>>
           /\ SchedulerRuns /\ \A j \in Jobs : due'[j] >= due[j] - 1
           /\ waited' = IF ShuttingDown THEN waited + 1 ELSE 0
           /\ elapsed' = IF ShuttingDown THEN elapsed + 1 ELSE elapsed
           /\ spell' = [s \in Streams |-> IF stage[s] \in {"closing", "finishing"}
                                          THEN spell[s] + 1 ELSE 0]
           /\ ShuttingDown => InTime
<1>1. /\ UNCHANGED <<phase, running, stage, undrained, pausing, began>> /\ SchedulerRuns
      /\ waited' = IF ShuttingDown THEN waited + 1 ELSE 0
      /\ elapsed' = IF ShuttingDown THEN elapsed + 1 ELSE elapsed
      /\ spell' = [s \in Streams |-> IF stage[s] \in {"closing", "finishing"}
                                     THEN spell[s] + 1 ELSE 0]
      /\ ShuttingDown => InTime
  BY DEF Second
<1>2. check' = check
  BY DEF Second, HealthSecond, health, probe
<1>3. \A j \in Jobs : due[j] \in Int
  BY DEF LoopInv, LoopTypes
<1>4. CASE SchedulerSecond
  <2>1. LoopInv' /\ \A j \in Jobs : due'[j] = due[j] - 1
    BY <1>4, NotEarliest, SecondKeeps
  <2>2. UNCHANGED <<pc, stopping>>
    BY <1>4 DEF SchedulerSecond
  <2> QED BY <1>1, <1>2, <1>3, <2>1, <2>2
<1>5. CASE UNCHANGED scheduler
  <2>1. UNCHANGED <<due, pass, pc, job, spent, stopping, since>>
    BY <1>5 DEF scheduler
  <2>2. LoopInv'
    BY <2>1 DEF LoopInv, LoopTypes, DueSince, HoldUp, Within
  <2> QED BY <1>1, <1>2, <1>3, <2>1, <2>2
<1> QED BY <1>4, <1>5 DEF Second

LEMMA LoopStands == LoopInv /\ UNCHANGED scheduler => LoopInv'
BY DEF scheduler, LoopInv, LoopTypes, DueSince, HoldUp, Within

LEMMA LoopNext == LoopInv /\ EndInv /\ [Next]_all => LoopInv'
<1> SUFFICES ASSUME LoopInv, EndInv, [Next]_all PROVE LoopInv'
  OBVIOUS
<1>1. CASE SchedulerStep
  BY <1>1, SchedulerStepFacts
<1>2. CASE Second
  BY <1>2, SecondFacts
<1>3. CASE Drained
  BY <1>3, StopKeeps DEF Drained
<1>4. CASE SchedulerEnds
  <2>1. stopping
    BY <1>4 DEF SchedulerEnds, StopNext, EndInv, OrderInv
  <2> QED BY <1>4, <2>1, StopKeeps, LoopStands DEF SchedulerEnds
<1>5. CASE UNCHANGED scheduler
  BY <1>5, LoopStands
<1>6. StartStep \/ FeedStep \/ ProbeStep \/ Exited \/ UNCHANGED all => UNCHANGED scheduler
  BY DEF StartStep, Connect, ApplySchema, StartNext, StartAll, StartFails, FeedStep, ProbeStep,
     Exited, all
<1>7. StopStep => Drained \/ SchedulerEnds \/ UNCHANGED scheduler
  BY DEF StopStep, SigTerm, ReadersGone, Kill, CollectorsStopped, WriterEnds, TableDrained,
     CopyFails, PauseEnds, PoolClosed, SocketClosed, SessionFinished, TaskEnds, CollectorMoves
<1> QED BY <1>1, <1>2, <1>3, <1>4, <1>5, <1>6, <1>7 DEF Next

-----------------------------------------------------------------------------
(* The types of what /health reads and keeps *)

LEMMA HealthConstants ==
    /\ Step \in Nat \ {0} /\ MaxGridLag \in Nat \ {0} /\ MaxMetricLag \in Nat \ {0}
    /\ MaxCheck \in Nat \ {0} /\ MaxTroubles \in Nat /\ Old \in Nat
    /\ Streams # {} /\ IsFiniteSet(Streams)
    /\ Step + TailInterval + TickSeconds + MaxJob <= MaxGridLag /\ MaxGridLag < Old
    /\ Step < Old
BY Positive, HealthAssumption DEF Old

LEMMA AgedFacts ==
    ASSUME NEW age \in Nat, NEW limit \in Nat
    PROVE  /\ age <= limit => Aged(age, limit) \in 0..limit
           /\ Aged(age, limit) \in Nat
           /\ age <= limit => Aged(age, limit) <= age + 1
BY DEF Aged

\* The history is a count and two flags.
HistoryTypes == calm \in BOOLEAN /\ clear \in BOOLEAN /\ troubles \in 0..MaxTroubles


LEMMA SeenTypes ==
    ASSUME NEW fresh \in BOOLEAN, NEW refused \in BOOLEAN
    PROVE  [fresh |-> fresh, refused |-> refused] \in [fresh : BOOLEAN, refused : BOOLEAN]
OBVIOUS

LEMMA HistoryKept ==
    ASSUME HistoryTypes, Trouble \/ NoTrouble
    PROVE  HistoryTypes'
<1>1. CASE Trouble
  <2>1. troubles' \in 0..MaxTroubles
    BY <1>1, HealthConstants DEF Trouble, HistoryTypes
  <2>2. calm' \in BOOLEAN /\ clear' \in BOOLEAN
    BY <1>1, Zenon DEF Trouble
  <2> QED BY <2>1, <2>2 DEF HistoryTypes
<1>2. CASE NoTrouble
  BY <1>2 DEF NoTrouble, history, HistoryTypes
<1> QED BY <1>1, <1>2

\* What the venues and the database may change.
FeedTypes == /\ database \in BOOLEAN /\ link \in [Streams -> {"down", "connected", "synced"}]
             /\ silent \subseteq Streams /\ lost \subseteq Streams

\* What the jobs and the clock may change.
ServedTypes == /\ clock \in 0..(Step - 1) /\ column \in [Streams -> 0..Old] /\ point \in 0..Old
               /\ status \in {"none", "running", "published", "aborted"} /\ failing \in BOOLEAN

\* What a check keeps.
ProbeTypes == /\ check \in {"none", "ping", "bounds", "last_run", "metrics"}
              /\ asked \in 0..MaxCheck /\ seen \in [fresh : BOOLEAN, refused : BOOLEAN]
              /\ answer \in {"none", "ok", "not_ok"}

LEMMA TypesOfHealth == HealthTypeOK <=> FeedTypes /\ ServedTypes /\ ProbeTypes /\ HistoryTypes
<1>1. {calm, clear} \subseteq BOOLEAN <=> calm \in BOOLEAN /\ clear \in BOOLEAN
  BY Zenon
<1> QED BY <1>1 DEF HealthTypeOK, FeedTypes, ServedTypes, ProbeTypes, HistoryTypes

\* The same of the state a step leads to.
LEMMA NextTypesOfHealth ==
    FeedTypes' /\ ServedTypes' /\ ProbeTypes' /\ HistoryTypes' => HealthTypeOK'
<1>1. {calm', clear'} \subseteq BOOLEAN <=> calm' \in BOOLEAN /\ clear' \in BOOLEAN
  BY Zenon
<1> QED BY <1>1 DEF HealthTypeOK, FeedTypes, ServedTypes, ProbeTypes, HistoryTypes

FeedMoves ==
    \/ \E s \in Streams : Connects(s) \/ Syncs(s) \/ Hears(s) \/ Resyncs(s)
    \/ \E s \in Streams : Drops(s) \/ Closed(s) \/ FallsSilent(s)
    \/ DatabaseFails \/ DatabaseReturns

LEMMA FeedKeepsTypes ==
    ASSUME FeedTypes, FeedMoves
    PROVE  FeedTypes' /\ UNCHANGED <<served, probe>> /\ (Trouble \/ NoTrouble)
<1>1. UNCHANGED <<served, probe>> /\ (Trouble \/ NoTrouble)
  BY DEF FeedMoves, Connects, Syncs, Hears, Resyncs, Drops, Closed, FallsSilent, DatabaseFails,
         DatabaseReturns
<1>2. ASSUME NEW s \in Streams, Connects(s) \/ Syncs(s) \/ Hears(s) \/ Resyncs(s) \/ Drops(s)
                                \/ Closed(s) \/ FallsSilent(s)
      PROVE  FeedTypes'
  <2>1. database' = database
    BY <1>2 DEF Connects, Syncs, Hears, Resyncs, Drops, Closed, FallsSilent
  <2>2. link' \in [Streams -> {"down", "connected", "synced"}]
    BY <1>2 DEF Connects, Syncs, Hears, Resyncs, Drops, Closed, FallsSilent, FeedTypes
  <2>3. silent' \subseteq Streams
    BY <1>2 DEF Connects, Syncs, Hears, Resyncs, Drops, Closed, FallsSilent, FeedTypes
  <2>4. lost' \subseteq Streams
    BY <1>2 DEF Connects, Syncs, Hears, Resyncs, Drops, Closed, FallsSilent, FeedTypes
  <2> QED BY <2>1, <2>2, <2>3, <2>4 DEF FeedTypes
<1>3. ASSUME DatabaseFails \/ DatabaseReturns PROVE FeedTypes'
  <2>1. UNCHANGED <<link, silent, lost>>
    BY <1>3 DEF DatabaseFails, DatabaseReturns, feed
  <2>2. database' = TRUE \/ database' = FALSE
    BY <1>3 DEF DatabaseFails, DatabaseReturns
  <2>3. database' \in BOOLEAN
    BY <2>2, Zenon
  <2> QED BY <2>1, <2>3 DEF FeedTypes
<1> QED BY <1>1, <1>2, <1>3 DEF FeedMoves

JobMoves ==
    \/ JobBegins \/ JobFails
    \/ \E heard_streams \in SUBSET Streams \ {{}} : JobPublishes(heard_streams)

LEMMA JobKeepsTypes ==
    ASSUME ServedTypes, HistoryTypes, JobMoves
    PROVE  ServedTypes' /\ HistoryTypes' /\ UNCHANGED <<database, feed, probe>>
<1>1. CASE JobBegins
  <2>1. /\ point' = clock /\ UNCHANGED <<clock, column, database, feed, probe>> /\ NoTrouble
        /\ status' = "running" \/ status' = status
    BY <1>1 DEF JobBegins
  <2>2. clock \in 0..Old
    BY HealthConstants DEF ServedTypes
  <2>3. failing' \in BOOLEAN
    <3>1. failing' = (failing /\ ~database)
      BY <1>1 DEF JobBegins
    <3> QED BY <3>1, Zenon
  <2> QED BY <2>1, <2>2, <2>3, HistoryKept DEF ServedTypes
<1>2. CASE JobFails
  <2>1. /\ point' = 0 /\ UNCHANGED <<clock, column, failing, database, feed, probe>>
        /\ Trouble \/ NoTrouble
        /\ status' = "aborted" \/ status' = status
    BY <1>2 DEF JobFails
  <2> QED BY <2>1, HistoryKept, HealthConstants DEF ServedTypes
<1>3. ASSUME NEW heard_streams \in SUBSET Streams \ {{}}, JobPublishes(heard_streams)
      PROVE  ServedTypes' /\ HistoryTypes' /\ UNCHANGED <<database, feed, probe>>
  <2>1. /\ column' = [s \in Streams |-> IF s \in heard_streams /\ point < column[s]
                                        THEN point ELSE column[s]]
        /\ status' = "published" /\ failing' = FALSE /\ point' = 0
        /\ UNCHANGED <<clock, database, feed, probe>>
    BY <1>3 DEF JobPublishes
  <2>2. ServedTypes'
    <3>1. failing' \in BOOLEAN
      BY <2>1, Zenon
    <3> QED BY <2>1, <3>1, HealthConstants DEF ServedTypes
  <2>3. Trouble \/ (calm' = (calm \/ AllWell) /\ UNCHANGED <<clear, troubles>>)
    BY <1>3 DEF JobPublishes
  <2>4. calm' = (calm \/ AllWell) => calm' \in BOOLEAN
    BY Zenon
  <2>5. HistoryTypes'
    BY <2>3, <2>4, HistoryKept DEF HistoryTypes
  <2> QED BY <2>1, <2>2, <2>5
<1> QED BY <1>1, <1>2, <1>3 DEF JobMoves

LEMMA AskKeepsTypes ==
    ASSUME HealthTypeOK, Ask
    PROVE  HealthTypeOK'
<1>1. FeedTypes /\ ServedTypes /\ ProbeTypes /\ HistoryTypes
  BY TypesOfHealth
<1>2. ProbeTypes'
  <2>1. NothingSeen \in [fresh : BOOLEAN, refused : BOOLEAN]
    BY Zenon DEF NothingSeen
  <2> QED BY <1>1, <2>1, HealthConstants DEF Ask, ProbeTypes
<1>3. HistoryTypes'
  BY <1>1 DEF Ask, HistoryTypes
<1>4. FeedTypes'
  BY <1>1 DEF Ask, FeedTypes, feed
<1>5. ServedTypes'
  <2>1. failing' \in BOOLEAN
    BY Zenon DEF Ask
  <2> QED BY <1>1, <2>1 DEF Ask, ServedTypes
<1> QED BY <1>2, <1>3, <1>4, <1>5, NextTypesOfHealth

LEMMA CheckKeepsTypes ==
    ASSUME ProbeTypes, CheckReads \/ CheckEnds(running)
    PROVE  ProbeTypes'
<1>1. NothingSeen \in [fresh : BOOLEAN, refused : BOOLEAN]
  BY Zenon DEF NothingSeen
<1>2. seen.fresh \in BOOLEAN /\ seen.refused \in BOOLEAN
  BY DEF ProbeTypes
<1>3. CASE Ping
  BY <1>3, HealthConstants DEF Ping, ProbeTypes
<1>4. CASE Bounds
  <2>1. [fresh |-> GridAge # Old /\ GridAge - asked <= MaxGridLag, refused |-> FALSE]
           \in [fresh : BOOLEAN, refused : BOOLEAN]
    BY Zenon
  <2> QED BY <1>4, <2>1 DEF Bounds, ProbeTypes
<1>5. CASE LastRun
  <2>1. [fresh |-> seen.fresh, refused |-> status \in BadStatus]
           \in [fresh : BOOLEAN, refused : BOOLEAN]
    <3>1. (status \in BadStatus) \in BOOLEAN
      BY SMT
    <3> QED BY <1>2, <3>1, SeenTypes
  <2> QED BY <1>5, <2>1 DEF LastRun, ProbeTypes
<1>6. CASE CheckEnds(running)
  <2>1. /\ check' = "none" /\ asked' = 0 /\ seen' = NothingSeen
        /\ answer' = "ok" \/ answer' = "not_ok"
    BY <1>6 DEF CheckEnds, Metrics, Unreachable, Answered
  <2> QED BY <1>1, <2>1, HealthConstants DEF ProbeTypes
<1> QED BY <1>3, <1>4, <1>5, <1>6 DEF CheckReads

LEMMA SecondKeepsTypes ==
    ASSUME HealthTypeOK, HealthSecond
    PROVE  HealthTypeOK'
<1>1. FeedTypes /\ ServedTypes /\ ProbeTypes /\ HistoryTypes
  BY TypesOfHealth
<1>2. FeedTypes' /\ HistoryTypes'
  BY <1>1 DEF HealthSecond, FeedTypes, HistoryTypes, feed, history
<1>3. ServedTypes'
  <2>1. clock' \in 0..(Step - 1)
    BY <1>1, HealthConstants DEF HealthSecond, ServedTypes
  <2>2. column' \in [Streams -> 0..Old]
    <3>1. column' = [s \in Streams |-> Aged(column[s], Old)]
      BY DEF HealthSecond
    <3>2. \A s \in Streams : Aged(column[s], Old) \in 0..Old
      BY <1>1, AgedFacts, HealthConstants DEF ServedTypes
    <3> QED BY <3>1, <3>2
  <2>3. point' \in 0..Old
    BY <1>1, AgedFacts, HealthConstants DEF HealthSecond, ServedTypes
  <2> QED BY <1>1, <2>1, <2>2, <2>3 DEF HealthSecond, ServedTypes
<1>4. ProbeTypes'
  BY <1>1, HealthConstants DEF HealthSecond, ProbeTypes
<1> QED BY <1>2, <1>3, <1>4, NextTypesOfHealth

LEMMA ForgetTypes ==
    ASSUME Forget, ProbeTypes'
    PROVE  HealthTypeOK'
<1>1. FeedTypes'
  <2>1. database' \in BOOLEAN
    BY Zenon DEF Forget
  <2> QED BY <2>1 DEF Forget, FeedTypes
<1>2. ServedTypes'
  <2>1. failing' \in BOOLEAN
    BY Zenon DEF Forget
  <2> QED BY <2>1, HealthConstants DEF Forget, ServedTypes
<1>3. HistoryTypes'
  <2>1. calm' \in BOOLEAN /\ clear' \in BOOLEAN
    BY Zenon DEF Forget
  <2> QED BY <2>1, HealthConstants DEF Forget, HistoryTypes
<1> QED BY <1>1, <1>2, <1>3, NextTypesOfHealth

LEMMA HealthStands == HealthTypeOK /\ UNCHANGED health => HealthTypeOK'
BY DEF HealthTypeOK, health, feed, served, probe, history

LEMMA HealthStarts == HealthInit => HealthTypeOK
<1> SUFFICES ASSUME HealthInit PROVE HealthTypeOK
  OBVIOUS
<1>1. database \in BOOLEAN /\ calm \in BOOLEAN /\ clear \in BOOLEAN /\ failing \in BOOLEAN
      /\ seen \in [fresh : BOOLEAN, refused : BOOLEAN]
  BY Zenon DEF HealthInit, NothingSeen
<1> QED BY <1>1, HealthConstants, TypesOfHealth
        DEF HealthInit, FeedTypes, ServedTypes, ProbeTypes, HistoryTypes

LEMMA HealthNext == HealthTypeOK /\ [Next]_all => HealthTypeOK'
<1> SUFFICES ASSUME HealthTypeOK, [Next]_all PROVE HealthTypeOK'
  OBVIOUS
<1>0. FeedTypes /\ ServedTypes /\ ProbeTypes /\ HistoryTypes
  BY TypesOfHealth
<1>1. CASE FeedMoves
  <2>1. FeedTypes' /\ UNCHANGED <<served, probe>> /\ HistoryTypes'
    BY <1>0, <1>1, FeedKeepsTypes, HistoryKept
  <2> QED BY <1>0, <2>1, NextTypesOfHealth DEF ServedTypes, ProbeTypes, served, probe
<1>2. CASE JobMoves
  <2>1. ServedTypes' /\ HistoryTypes' /\ UNCHANGED <<database, feed, probe>>
    BY <1>0, <1>2, JobKeepsTypes
  <2> QED BY <1>0, <2>1, NextTypesOfHealth DEF FeedTypes, ProbeTypes, feed, probe
<1>3. CASE Ask
  BY <1>3, AskKeepsTypes
<1>4. CASE (CheckReads \/ CheckEnds(running)) /\ UNCHANGED <<database, feed, served, history>>
  <2>1. ProbeTypes'
    BY <1>0, <1>4, CheckKeepsTypes
  <2> QED BY <1>0, <1>4, <2>1, NextTypesOfHealth
          DEF FeedTypes, ServedTypes, HistoryTypes, feed, served, history
<1>5. CASE CheckEnds(running) /\ Forget
  BY <1>0, <1>5, CheckKeepsTypes, ForgetTypes
<1>6. CASE HealthSecond
  BY <1>6, SecondKeepsTypes
<1>7. CASE UNCHANGED health
  BY <1>7, HealthStands
<1>8. CASE SigTerm
  <2>1. CASE check = "none"
    <3>1. Forget /\ UNCHANGED probe
      BY <1>8, <2>1 DEF SigTerm
    <3>2. ProbeTypes'
      BY <1>0, <3>1 DEF ProbeTypes, probe
    <3> QED BY <3>1, <3>2, ForgetTypes
  <2>2. CASE check # "none"
    BY <1>7, <1>8, <2>2 DEF SigTerm, health
  <2> QED BY <2>1, <2>2
<1>8k. CASE Kill
  <2>1. ProbeTypes'
    <3>1. NothingSeen \in [fresh : BOOLEAN, refused : BOOLEAN]
      BY Zenon DEF NothingSeen
    <3> QED BY <1>0, <1>8k, <3>1, HealthConstants DEF Kill, ProbeTypes
  <2> QED BY <1>8k, <2>1, ForgetTypes DEF Kill
<1>9. StartStep \/ Exited \/ UNCHANGED all => UNCHANGED health
  BY DEF StartStep, Connect, ApplySchema, StartNext, StartAll, StartFails, Exited, all
<1>10. SchedulerStep => JobMoves \/ UNCHANGED health
  BY DEF SchedulerStep, JobMoves
<1>11. FeedStep => FeedMoves
  BY DEF FeedStep, FeedMoves
<1>12. Second => HealthSecond \/ UNCHANGED health
  BY DEF Second
<1>13. StopStep => SigTerm \/ Kill \/ UNCHANGED health
  BY DEF StopStep, ReadersGone, CollectorsStopped, WriterEnds, TableDrained,
     CopyFails, PauseEnds, Drained, SchedulerEnds, PoolClosed, StopNext, SocketClosed,
     SessionFinished, TaskEnds, CollectorMoves
<1>14. ProbeStep => \/ Ask \/ (CheckEnds(running) /\ Forget)
                    \/ /\ CheckReads \/ CheckEnds(running)
                       /\ UNCHANGED <<database, feed, served, history>>
  BY DEF ProbeStep
<1> QED BY <1>1, <1>2, <1>3, <1>4, <1>5, <1>6, <1>7, <1>8, <1>8k, <1>9, <1>10, <1>11, <1>12,
           <1>13, <1>14 DEF Next

-----------------------------------------------------------------------------
(* The end of the process keeps its order and its time *)

LEMMA PhaseNames ==
    /\ ShuttingDown <=> phase \in {"requests", "collectors", "writer", "drain", "scheduler",
                                   "pool"}
    /\ phase \in StartPhases <=> phase \in {"connect", "schema", "orphans"}
    /\ Serving <=> phase = "serving"
BY DEF ShuttingDown, StopPhases, StartPhases, Serving

\* A process whose collectors are up is not one whose collectors have stopped.
LEMMA UpIsNotStopped == AllUp => ~AllStopped
BY HealthConstants DEF AllUp, AllStopped

\* As long as lifespan stands still, so does the time it has taken.
LEMMA TimeStands ==
    ASSUME NodeTypeOK, TimeInv, UNCHANGED node
    PROVE  NodeTypeOK' /\ TimeInv'
<1>1. UNCHANGED <<phase, running, stage, spell, undrained, pausing, waited, elapsed, began>>
  BY DEF node, stops
<1>2. Limit(phase)' = Limit(phase) /\ \A s \in Streams : StageLimit(s)' = StageLimit(s)
  BY <1>1 DEF Limit, StageLimit
<1>3. NodeTypeOK'
  BY <1>1, <1>2 DEF NodeTypeOK
<1>4. StagesInTime <=> StagesInTime'
  BY <1>1 DEF StagesInTime
<1>5. TimeInv'
  BY <1>1, <1>2, <1>4 DEF TimeInv, ShuttingDown, DrainBy
<1> QED BY <1>3, <1>5

\* Whatever leaves lifespan where it is leaves the end in order, if a job of a loop
\* that is told to stop has not come nearer.
LEMMA EndStands ==
    ASSUME EndInv, UNCHANGED node, check' = check \/ phase \in {"serving", "requests"},
           stopping' = stopping, stopping => due' = due, pc = "ended" => pc' = "ended"
    PROVE  EndInv'
<1>1. UNCHANGED <<phase, running, stage, undrained, pausing, waited>>
  BY DEF node, stops
<1>2. (AllUp <=> AllUp') /\ (AllStopped <=> AllStopped')
  BY <1>1 DEF AllUp, AllStopped
<1>3. phase' = "scheduler" => stopping' /\ \A j \in Jobs : due'[j] >= Overdue - waited'
  BY <1>1 DEF EndInv, OrderInv
<1>4. OrderInv'
  BY <1>1, <1>2, <1>3 DEF EndInv, OrderInv
<1> QED BY <1>4, TimeStands DEF EndInv

\* A second of a stop: every collector in its stage, or lifespan in its await.
LEMMA EndSecond ==
    ASSUME LoopInv, EndInv, Second
    PROVE  EndInv'
<1>1. /\ UNCHANGED <<phase, running, stage, undrained, pausing, began, pc, stopping, check>>
      /\ SchedulerRuns /\ \A j \in Jobs : due'[j] >= due[j] - 1
      /\ waited' = IF ShuttingDown THEN waited + 1 ELSE 0
      /\ elapsed' = IF ShuttingDown THEN elapsed + 1 ELSE elapsed
      /\ spell' = [s \in Streams |-> IF stage[s] \in {"closing", "finishing"}
                                     THEN spell[s] + 1 ELSE 0]
      /\ ShuttingDown => InTime
  BY SecondFacts
<1>2. /\ NodeTypeOK /\ OrderInv /\ TimeInv /\ phase \in Phases
      /\ waited \in Nat /\ elapsed \in Nat /\ began \in Nat /\ waited <= elapsed
      /\ elapsed <= Grace /\ undrained \in 0..3
      /\ \A s \in Streams : spell[s] \in Nat /\ StageLimit(s) \in Nat
  BY NodeTypes, NodeConstants DEF EndInv
<1>3. /\ Limit(phase)' = Limit(phase) /\ (ShuttingDown' <=> ShuttingDown)
      /\ \A s \in Streams : StageLimit(s)' = StageLimit(s)
      /\ (AllUp <=> AllUp') /\ (AllStopped <=> AllStopped')
  BY <1>1 DEF Limit, StageLimit, ShuttingDown, AllUp, AllStopped
<1>4. ShuttingDown => elapsed < Grace /\ elapsed' = elapsed + 1 /\ waited' = waited + 1
  BY <1>1 DEF InTime
<1>5. \A s \in Streams : stage[s] \in {"closing", "finishing"} =>
         phase = "collectors" /\ spell[s] < StageLimit(s)
  <2> SUFFICES ASSUME NEW s \in Streams, stage[s] \in {"closing", "finishing"}
               PROVE  phase = "collectors" /\ spell[s] < StageLimit(s)
    OBVIOUS
  <2>1. phase = "collectors"
    BY <1>1, <1>2, PhaseNames DEF OrderInv, AllUp, AllStopped, SchedulerRuns
  <2> QED BY <1>1, <2>1, PhaseNames DEF InTime
<1>6. NodeTypeOK'
  <2>1. elapsed' \in 0..Grace /\ waited' \in 0..elapsed'
    BY <1>1, <1>2, <1>4, NodeConstants
  <2>2. \A s \in Streams : spell'[s] \in 0..StageLimit(s)
    BY <1>1, <1>2, <1>5
  <2>3. DOMAIN spell' = Streams
    BY <1>1
  <2> QED BY <1>1, <1>2, <1>3, <2>1, <2>2, <2>3 DEF NodeTypeOK
<1>7. OrderInv'
  <2>1. phase = "scheduler" => stopping' /\ \A j \in Jobs : due'[j] >= Overdue - waited'
    <3> SUFFICES ASSUME phase = "scheduler", NEW j \in Jobs
                 PROVE  stopping' /\ due'[j] >= Overdue - waited'
      BY <1>1, <1>2 DEF OrderInv
    <3>1. waited' = waited + 1 /\ stopping /\ due[j] >= Overdue - waited
      BY <1>2, <1>4, PhaseNames DEF OrderInv
    <3>2. due[j] \in Int /\ due'[j] \in Int /\ due'[j] >= due[j] - 1
      BY <1>1, SecondFacts DEF LoopInv, LoopTypes
    <3> QED BY <1>1, <1>2, <3>1, <3>2, JobConstants
  <2> QED BY <1>1, <1>2, <1>3, <2>1 DEF OrderInv
<1>8. phase = "collectors" => elapsed' <= began' + CloseBound /\ StagesInTime'
  <2> SUFFICES ASSUME phase = "collectors"
               PROVE  elapsed' <= began' + CloseBound /\ StagesInTime'
    OBVIOUS
  <2>1. StagesInTime /\ ~AllStopped /\ elapsed' = elapsed + 1
        /\ \A s \in Streams : stage[s] # "ended" => spell[s] < StageLimit(s)
    BY <1>1, <1>2, <1>4, PhaseNames DEF TimeInv, InTime
  <2>2. StagesInTime'
    <3> SUFFICES ASSUME NEW s \in Streams
                 PROVE  /\ stage[s] = "closing"   => elapsed' <= began + spell'[s]
                        /\ stage[s] = "finishing" => elapsed' <= began + CloseTimeout + spell'[s]
      BY <1>1 DEF StagesInTime
    <3>1. /\ stage[s] = "closing"   => elapsed <= began + spell[s]
          /\ stage[s] = "finishing" => elapsed <= began + CloseTimeout + spell[s]
      BY <2>1 DEF StagesInTime
    <3>2. stage[s] \in {"closing", "finishing"} => spell'[s] = spell[s] + 1
      BY <1>1
    <3>3. spell[s] \in Nat
      BY <1>2
    <3> QED BY <1>2, <2>1, <3>1, <3>2, <3>3, NodeConstants
  <2>3. PICK s \in Streams : stage[s] # "ended"
    BY <2>1 DEF AllStopped
  <2>4. spell[s] < StageLimit(s) /\ (stage[s] = "closing" \/ stage[s] = "finishing")
    BY <1>2, <2>1, <2>3 DEF StageLimit
  <2>5. elapsed + 1 <= began + CloseBound
    <3>1. CASE stage[s] = "closing"
      BY <1>2, <2>1, <2>4, <3>1, NodeConstants DEF StagesInTime, StageLimit
    <3>2. CASE stage[s] = "finishing"
      BY <1>2, <2>1, <2>4, <3>2, NodeConstants DEF StagesInTime, StageLimit
    <3> QED BY <2>4, <3>1, <3>2
  <2> QED BY <1>1, <2>1, <2>2, <2>5
<1>9. ShuttingDown /\ phase # "collectors" => waited' <= Limit(phase)
  <2>1. Limit(phase) \in Int
    BY Limits, NodeConstants, Positive, PhaseNames DEF Limit
  <2> QED BY <1>1, <1>2, <1>4, <2>1 DEF InTime
<1>10. /\ phase = "writer" => elapsed' <= began' + CloseBound + waited'
       /\ phase = "drain" =>
            elapsed' + undrained' * TableBound
               <= DrainBy' + waited' + (IF pausing' THEN MaxStatement ELSE 0)
       /\ phase = "scheduler" => elapsed' <= DrainBy' + waited'
       /\ phase = "pool" => elapsed' <= DrainBy' + StopTimeout + waited'
  <2>1. DrainBy' = DrainBy /\ DrainBy \in Nat /\ undrained * TableBound \in Int
    BY <1>1, <1>2, NodeConstants DEF DrainBy
  <2>2. undrained' * TableBound = undrained * TableBound
    BY <1>1
  <2> QED BY <1>1, <1>2, <1>4, <2>1, <2>2, PhaseNames, NodeConstants, Positive DEF TimeInv
<1>11. (phase \in StartPhases \cup {"serving"} => waited' = 0) /\ phase # "killed"
  BY <1>1, PhaseNames DEF SchedulerRuns
<1>12. TimeInv'
  BY <1>1, <1>2, <1>3, <1>8, <1>9, <1>10, <1>11 DEF TimeInv
<1> QED BY <1>6, <1>7, <1>12 DEF EndInv

LEMMA EndStart ==
    ASSUME EndInv, StartStep
    PROVE  EndInv'
<1>1. /\ phase \in {"connect", "schema", "orphans"}
      /\ \/ phase' \in {"schema", "orphans", "exited"} /\ running' = running
         \/ phase' = "serving" /\ running' = TRUE
      /\ UNCHANGED <<scheduler, health, stage, spell, undrained, pausing, waited, elapsed, began>>
  BY DEF StartStep, Connect, ApplySchema, StartNext, StartAll, StartFails, StartPhases, stops
<1>2. UNCHANGED <<stopping, pc, due, check>>
  BY <1>1 DEF scheduler, health, probe
<1>3. AllUp /\ ~stopping /\ ~pausing
  BY <1>1, PhaseNames DEF EndInv, OrderInv
<1>4. AllUp' /\ \A s \in Streams : StageLimit(s)' = StageLimit(s)
  BY <1>1, <1>3 DEF AllUp, StageLimit
<1>5. running' \in BOOLEAN
  <2>1. running' = running => running' \in BOOLEAN
    BY NodeTypes DEF EndInv
  <2>2. running' = TRUE => running' \in BOOLEAN
    BY Zenon
  <2> QED BY <1>1, <2>1, <2>2
<1>6. NodeTypeOK'
  BY <1>1, <1>4, <1>5 DEF EndInv, NodeTypeOK, StartPhases
<1>7. OrderInv'
  BY <1>1, <1>2, <1>3, <1>4 DEF OrderInv, StartPhases
<1>8. waited = 0
  BY <1>1, PhaseNames DEF EndInv, TimeInv
<1>9. TimeInv'
  BY <1>1, <1>8 DEF TimeInv, ShuttingDown, StopPhases
<1> QED BY <1>6, <1>7, <1>9 DEF EndInv

\* An await of lifespan that keeps the rest as it is: its order and its time.
LEMMA StopFacts ==
    ASSUME NEW p, NEW q, StopNext(p, q)
    PROVE  /\ phase = p /\ phase' = q /\ waited' = 0
           /\ UNCHANGED <<check, running, stage, spell, elapsed, began>>
           /\ (AllUp <=> AllUp') /\ (AllStopped <=> AllStopped')
           /\ \A s \in Streams : StageLimit(s)' = StageLimit(s)
BY DEF StopNext, health, probe, AllUp, AllStopped, StageLimit

\* The types after such a step, whatever it does to the drain.
LEMMA StopTypes ==
    ASSUME NodeTypeOK, NEW p, NEW q, StopNext(p, q), q \in StopPhases \cup {"exited"},
           undrained' \in 0..3, pausing' \in BOOLEAN
    PROVE  NodeTypeOK'
<1>1. /\ phase' = q /\ waited' = 0 /\ UNCHANGED <<running, stage, spell, elapsed, began>>
      /\ \A s \in Streams : StageLimit(s)' = StageLimit(s)
  BY StopFacts
<1>2. waited' \in 0..elapsed'
  BY <1>1, NodeTypes
<1> QED BY <1>1, <1>2 DEF NodeTypeOK, TableCount

LEMMA EndSigTerm ==
    ASSUME EndInv, SigTerm
    PROVE  EndInv'
<1>1. /\ phase = "serving" /\ phase' = "requests" /\ waited' = 0 /\ elapsed' = 0
      /\ began' = Grace /\ UNCHANGED <<stopping, pc, running, stage, spell, undrained, pausing>>
  BY DEF SigTerm, Serving, scheduler, stops
<1>2. AllUp /\ ~stopping /\ running /\ ~pausing
  BY <1>1 DEF EndInv, OrderInv
<1>3. AllUp' /\ \A s \in Streams : StageLimit(s)' = StageLimit(s)
  BY <1>1, <1>2 DEF AllUp, StageLimit
<1>4. NodeTypeOK'
  BY <1>1, <1>3, NodeConstants DEF EndInv, NodeTypeOK, StopPhases
<1>5. OrderInv'
  BY <1>1, <1>2, <1>3 DEF OrderInv
<1>6. Limit(phase)' = Grace
  BY <1>1 DEF Limit
<1>7. TimeInv'
  BY <1>1, <1>6, NodeConstants DEF TimeInv, StartPhases
<1> QED BY <1>4, <1>5, <1>7 DEF EndInv

LEMMA EndReadersGone ==
    ASSUME EndInv, ReadersGone
    PROVE  EndInv'
<1>1. /\ phase = "requests" /\ check = "none" /\ phase' = "collectors" /\ running' = FALSE
      /\ stage' = [s \in Streams |-> "closing"] /\ spell' = [s \in Streams |-> 0]
      /\ waited' = 0 /\ began' = elapsed
      /\ UNCHANGED <<stopping, check, undrained, pausing, elapsed>>
  BY DEF ReadersGone, scheduler, health, probe
<1>2. /\ ~stopping /\ ~pausing /\ elapsed \in Nat /\ elapsed \in 0..Grace
  BY <1>1, NodeTypes DEF EndInv, OrderInv
<1>3. NodeTypeOK'
  <2>1. running' \in BOOLEAN
    BY <1>1, Zenon
  <2>2. stage' \in [Streams -> {"up", "closing", "finishing", "ended"}] /\ DOMAIN spell' = Streams
    BY <1>1
  <2>3. ASSUME NEW s \in Streams PROVE spell'[s] \in 0..StageLimit(s)'
    <3>1. StageLimit(s)' = CloseTimeout
      BY <1>1 DEF StageLimit
    <3> QED BY <1>1, <3>1, NodeConstants
  <2>4. waited' \in 0..elapsed'
    BY <1>1, <1>2
  <2> QED BY <1>1, <1>2, <2>1, <2>2, <2>3, <2>4 DEF EndInv, NodeTypeOK, StopPhases
<1>4. OrderInv'
  BY <1>1, <1>2 DEF EndInv, OrderInv, StartPhases
<1>5. elapsed' <= began' + CloseBound
  BY <1>1, <1>2, NodeConstants
<1>6. StagesInTime'
  BY <1>1, <1>2 DEF StagesInTime
<1>7. TimeInv'
  BY <1>1, <1>5, <1>6 DEF TimeInv, StartPhases
<1> QED BY <1>3, <1>4, <1>7 DEF EndInv

\* A collector goes on in its stop.
LEMMA EndCollector ==
    ASSUME EndInv, NEW s \in Streams, SocketClosed(s) \/ SessionFinished(s) \/ TaskEnds(s)
    PROVE  EndInv'
<1>1. /\ phase = "collectors" /\ spell' = [spell EXCEPT ![s] = 0]
      /\ \/ stage[s] = "closing" /\ stage' = [stage EXCEPT ![s] = "finishing"]
         \/ stage' = [stage EXCEPT ![s] = "ended"]
      /\ UNCHANGED <<phase, running, undrained, pausing, waited, elapsed, began>>
      /\ UNCHANGED <<stopping, check>>
  BY DEF SocketClosed, SessionFinished, TaskEnds, CollectorMoves, scheduler, health, probe
<1>2. /\ NodeTypeOK /\ OrderInv /\ TimeInv /\ StagesInTime /\ check = "none" /\ ~stopping
      /\ ~pausing /\ elapsed <= began + CloseBound
  BY <1>1 DEF EndInv, OrderInv, TimeInv
<1>3. /\ elapsed \in Nat /\ began \in Nat /\ \A t \in Streams : spell[t] \in 0..StageLimit(t)
      /\ DOMAIN stage = Streams /\ DOMAIN spell = Streams
  BY <1>2, NodeTypes DEF NodeTypeOK
<1>4. /\ spell'[s] = 0 /\ (stage'[s] = "finishing" \/ stage'[s] = "ended")
      /\ stage'[s] = "finishing" => stage[s] = "closing"
      /\ \A t \in Streams : t # s => stage'[t] = stage[t] /\ spell'[t] = spell[t]
  BY <1>1, <1>3
<1>5. NodeTypeOK'
  <2>1. \A t \in Streams : spell'[t] \in 0..StageLimit(t)'
    <3> SUFFICES ASSUME NEW t \in Streams PROVE spell'[t] \in 0..StageLimit(t)'
      OBVIOUS
    <3>1. CASE t = s
      BY <1>4, <3>1, NodeConstants DEF StageLimit
    <3>2. CASE t # s
      BY <1>3, <1>4, <3>2 DEF StageLimit
    <3> QED BY <3>1, <3>2
  <2>2. stage' \in [Streams -> {"up", "closing", "finishing", "ended"}] /\ DOMAIN spell' = Streams
    BY <1>1, <1>2 DEF NodeTypeOK
  <2> QED BY <1>1, <1>2, <2>1, <2>2 DEF NodeTypeOK
<1>6. OrderInv'
  BY <1>1, <1>2 DEF OrderInv, StartPhases
<1>7. StagesInTime'
  <2> SUFFICES ASSUME NEW t \in Streams
               PROVE  /\ stage'[t] = "closing"   => elapsed <= began + spell'[t]
                      /\ stage'[t] = "finishing" => elapsed <= began + CloseTimeout + spell'[t]
    BY <1>1 DEF StagesInTime
  <2>1. CASE t = s
    <3>1. stage[s] = "closing" => elapsed <= began + spell[s] /\ spell[s] <= CloseTimeout
                                  /\ spell[s] \in Nat
      BY <1>2, <1>3, NodeConstants DEF StagesInTime, StageLimit
    <3> QED BY <1>3, <1>4, <2>1, <3>1, NodeConstants
  <2>2. CASE t # s
    BY <1>2, <1>4, <2>2 DEF StagesInTime
  <2> QED BY <2>1, <2>2
<1>8. TimeInv'
  BY <1>1, <1>2, <1>7 DEF TimeInv, StartPhases
<1> QED BY <1>5, <1>6, <1>8 DEF EndInv

\* lifespan goes on from one await to the next.
LEMMA EndAwaits ==
    ASSUME LoopInv, EndInv,
           \/ CollectorsStopped \/ WriterEnds \/ TableDrained \/ CopyFails \/ PauseEnds \/ Drained
           \/ SchedulerEnds \/ PoolClosed
    PROVE  EndInv'
<1>0. /\ NodeTypeOK /\ OrderInv /\ TimeInv /\ waited \in Nat /\ elapsed \in Nat /\ began \in Nat
      /\ undrained \in 0..3 /\ pausing \in BOOLEAN
  BY NodeTypes DEF EndInv
<1>1. CASE CollectorsStopped
  <2>1. AllStopped /\ StopNext("collectors", "writer")
        /\ UNCHANGED <<stopping, pc, undrained, pausing>>
    BY <1>1 DEF CollectorsStopped, scheduler
  <2>2. /\ phase = "collectors" /\ phase' = "writer" /\ waited' = 0 /\ AllStopped' /\ ~pausing
        /\ UNCHANGED <<check, running, stage, spell, elapsed, began>> /\ check = "none" /\ ~stopping
    BY <1>0, <2>1, StopFacts DEF OrderInv
  <2>3. NodeTypeOK'
    BY <1>0, <2>1, StopTypes DEF StopPhases
  <2>4. OrderInv'
    BY <2>1, <2>2 DEF OrderInv, StartPhases
  <2>5. TimeInv'
    <3>1. elapsed <= began + CloseBound
      BY <1>0, <2>2 DEF TimeInv
    <3>2. Limit(phase)' = WriterTimeout
      BY <2>2 DEF Limit
    <3> QED BY <1>0, <2>2, <3>1, <3>2, NodeConstants DEF TimeInv, StartPhases
  <2> QED BY <2>3, <2>4, <2>5 DEF EndInv
<1>2. CASE WriterEnds
  <2>1. StopNext("writer", "drain") /\ UNCHANGED <<stopping, pc, pausing>> /\ undrained' = 3
    BY <1>2 DEF WriterEnds, scheduler, TableCount
  <2>2. /\ phase = "writer" /\ phase' = "drain" /\ waited' = 0 /\ AllStopped' /\ ~pausing
        /\ UNCHANGED <<check, running, stage, spell, elapsed, began>> /\ check = "none" /\ ~stopping
    BY <1>0, <2>1, StopFacts DEF OrderInv
  <2>3. NodeTypeOK'
    BY <1>0, <2>1, StopTypes DEF StopPhases
  <2>4. OrderInv'
    BY <2>1, <2>2 DEF OrderInv, StartPhases
  <2>5. TimeInv'
    <3>1. elapsed <= began + CloseBound + waited /\ waited <= WriterTimeout
      BY <1>0, <2>2, Limits, PhaseNames DEF TimeInv
    <3>2. Limit(phase)' = MaxStatement
      BY <2>1, <2>2 DEF Limit
    <3>3. elapsed + 3 * TableBound <= DrainBy
      BY <1>0, <3>1, NodeConstants DEF DrainBy
    <3>4. DrainBy' = DrainBy /\ DrainBy \in Nat
      BY <1>0, <2>2, NodeConstants DEF DrainBy
    <3>5. elapsed' + undrained' * TableBound
             <= DrainBy' + waited' + (IF pausing' THEN MaxStatement ELSE 0)
      BY <1>0, <2>1, <2>2, <3>3, <3>4, NodeConstants
    <3> QED BY <2>2, <3>2, <3>5, NodeConstants DEF TimeInv, StartPhases
  <2> QED BY <2>3, <2>4, <2>5 DEF EndInv
<1>3. CASE TableDrained \/ CopyFails \/ PauseEnds
  <2>1. /\ StopNext("drain", "drain") /\ UNCHANGED <<stopping, pc>> /\ undrained > 0
        /\ \/ undrained' = undrained - 1 /\ ~pausing /\ ~pausing'
           \/ undrained' = undrained /\ ~pausing /\ pausing'
           \/ undrained' = undrained - 1 /\ pausing /\ ~pausing'
    BY <1>0, <1>3 DEF TableDrained, CopyFails, PauseEnds, scheduler, OrderInv
  <2>2. /\ phase = "drain" /\ phase' = "drain" /\ waited' = 0 /\ AllStopped'
        /\ UNCHANGED <<check, running, stage, spell, elapsed, began>> /\ check = "none" /\ ~stopping
    BY <1>0, <2>1, StopFacts DEF OrderInv
  <2>3. pausing' \in BOOLEAN
    BY <1>0, <1>3, Zenon DEF TableDrained, CopyFails, PauseEnds
  <2>4. NodeTypeOK'
    BY <1>0, <2>1, <2>3, StopTypes DEF StopPhases
  <2>5. OrderInv'
    BY <1>0, <2>1, <2>2 DEF OrderInv, StartPhases
  <2>6. TimeInv'
    <3>1. /\ elapsed + undrained * TableBound
                <= DrainBy + waited + (IF pausing THEN MaxStatement ELSE 0)
          /\ waited <= Limit("drain")
      BY <1>0, <2>2, PhaseNames DEF TimeInv
    <3>2. DrainBy' = DrainBy /\ DrainBy \in Nat
      BY <1>0, <2>2, NodeConstants DEF DrainBy
    <3>3. /\ waited <= (IF pausing THEN FailurePause ELSE MaxStatement)
          /\ undrained - 1 \in Nat
      BY <1>0, <2>1, <3>1, Limits
    <3>4. /\ undrained * TableBound \in Int
          /\ (undrained - 1) * TableBound = undrained * TableBound - TableBound
      BY <1>0, NodeConstants
    <3>5. elapsed + undrained' * TableBound <= DrainBy + (IF pausing' THEN MaxStatement ELSE 0)
      BY <1>0, <2>1, <3>1, <3>2, <3>3, <3>4, NodeConstants
    <3>6. elapsed' + undrained' * TableBound
             <= DrainBy' + waited' + (IF pausing' THEN MaxStatement ELSE 0)
      BY <1>0, <2>2, <3>2, <3>5, NodeConstants
    <3>7. waited' <= Limit(phase)'
      BY <2>2, NodeConstants DEF Limit
    <3> QED BY <2>2, <3>6, <3>7 DEF TimeInv, StartPhases
  <2> QED BY <2>4, <2>5, <2>6 DEF EndInv
<1>4. CASE Drained
  <2>1. /\ StopNext("drain", "scheduler") /\ undrained = 0 /\ stopping'
        /\ UNCHANGED <<due, pc, undrained, pausing>>
    BY <1>4 DEF Drained, Stop
  <2>2. /\ phase = "drain" /\ phase' = "scheduler" /\ waited' = 0 /\ AllStopped' /\ ~pausing
        /\ UNCHANGED <<check, running, stage, spell, elapsed, began>> /\ check = "none" /\ ~stopping
    BY <1>0, <2>1, StopFacts DEF OrderInv
  <2>3. NodeTypeOK'
    BY <1>0, <2>1, StopTypes DEF StopPhases
  <2>4. \A j \in Jobs : due'[j] >= Overdue - waited'
    <3>1. \A j \in Jobs : due[j] \in Int
      BY DEF LoopInv, LoopTypes
    <3> QED BY <2>1, <2>2, <3>1, NotLate, JobConstants
  <2>5. OrderInv'
    BY <2>1, <2>2, <2>4 DEF OrderInv, StartPhases
  <2>6. TimeInv'
    <3>0. undrained * TableBound = 0
      BY <2>1, NodeConstants
    <3>1. elapsed + undrained * TableBound <= DrainBy + waited /\ waited <= 0
      <4>1. /\ elapsed + undrained * TableBound
                  <= DrainBy + waited + (IF pausing THEN MaxStatement ELSE 0)
            /\ waited <= Limit("drain")
        BY <1>0, <2>2, PhaseNames DEF TimeInv
      <4>2. ~pausing /\ Limit("drain") = 0
        BY <1>0, <2>1, <2>2, Limits
      <4>3. DrainBy \in Nat
        BY <1>0, NodeConstants DEF DrainBy
      <4> QED BY <1>0, <3>0, <4>1, <4>2, <4>3
    <3>2. DrainBy' = DrainBy /\ DrainBy \in Nat
      BY <1>0, <2>2, NodeConstants DEF DrainBy
    <3>3. elapsed' <= DrainBy' + waited'
      BY <1>0, <2>1, <2>2, <3>0, <3>1, <3>2, NodeConstants
    <3>4. Limit(phase)' = StopTimeout
      BY <2>2 DEF Limit
    <3> QED BY <2>2, <3>3, <3>4, Positive DEF TimeInv, StartPhases
  <2> QED BY <2>3, <2>5, <2>6 DEF EndInv
<1>5. CASE SchedulerEnds
  <2>1. /\ StopNext("scheduler", "pool") /\ pc' = "ended"
        /\ UNCHANGED <<stopping, undrained, pausing>>
    BY <1>5 DEF SchedulerEnds, Cancel, scheduler
  <2>2. /\ phase = "scheduler" /\ phase' = "pool" /\ waited' = 0 /\ AllStopped' /\ ~pausing
        /\ UNCHANGED <<check, running, stage, spell, elapsed, began>> /\ check = "none"
    BY <1>0, <2>1, StopFacts DEF OrderInv
  <2>3. NodeTypeOK'
    BY <1>0, <2>1, StopTypes DEF StopPhases
  <2>4. OrderInv'
    BY <2>1, <2>2 DEF OrderInv, StartPhases
  <2>5. TimeInv'
    <3>1. elapsed <= DrainBy + waited /\ waited <= StopTimeout
      BY <1>0, <2>2, Limits, PhaseNames DEF TimeInv
    <3>2. DrainBy' = DrainBy /\ DrainBy \in Nat
      BY <1>0, <2>2, NodeConstants DEF DrainBy
    <3>3. elapsed' <= DrainBy' + StopTimeout + waited'
      BY <1>0, <2>2, <3>1, <3>2, Positive
    <3>4. Limit(phase)' = MaxStatement
      BY <2>2 DEF Limit
    <3> QED BY <2>2, <3>3, <3>4, NodeConstants DEF TimeInv, StartPhases
  <2> QED BY <2>3, <2>4, <2>5 DEF EndInv
<1>6. CASE PoolClosed
  <2>1. /\ StopNext("pool", "exited") /\ UNCHANGED <<stopping, pc, undrained, pausing>>
    BY <1>6 DEF PoolClosed, scheduler
  <2>2. /\ phase = "pool" /\ phase' = "exited" /\ waited' = 0 /\ AllStopped' /\ ~pausing
        /\ UNCHANGED <<check, running, stage, spell, elapsed, began>> /\ check = "none"
        /\ pc = "ended"
    BY <1>0, <2>1, StopFacts DEF OrderInv
  <2>3. NodeTypeOK'
    BY <1>0, <2>1, StopTypes DEF StopPhases
  <2>4. OrderInv'
    BY <2>1, <2>2 DEF OrderInv, StartPhases
  <2>5. TimeInv'
    BY <2>2 DEF TimeInv, StartPhases, ShuttingDown, StopPhases
  <2> QED BY <2>3, <2>4, <2>5 DEF EndInv
<1> QED BY <1>1, <1>2, <1>3, <1>4, <1>5, <1>6

\* When the runtime's patience is over, lifespan was called too late for its awaits.
LEMMA EndKill ==
    ASSUME EndInv, Kill
    PROVE  EndInv'
<1>1. /\ ShuttingDown /\ elapsed = Grace /\ phase' = "killed"
      /\ UNCHANGED <<stopping, pc, running, stage, spell, undrained, pausing, waited>>
      /\ UNCHANGED <<elapsed, began>>
  BY DEF Kill, scheduler, stops
<1>2. /\ NodeTypeOK /\ OrderInv /\ TimeInv /\ waited \in Nat /\ elapsed \in Nat /\ began \in Nat
      /\ undrained \in 0..3
  BY NodeTypes DEF EndInv
<1>3. NodeTypeOK'
  <2>1. \A s \in Streams : StageLimit(s)' = StageLimit(s)
    BY <1>1 DEF StageLimit
  <2> QED BY <1>1, <1>2, <2>1 DEF NodeTypeOK
<1>4. OrderInv'
  BY <1>1, <1>2, PhaseNames DEF OrderInv, StartPhases
<1>5. began + StopBound >= Grace
  <2>0. DrainBy \in Nat /\ DrainBy + StopTimeout + MaxStatement = began + StopBound
    BY <1>2, NodeConstants, Positive DEF DrainBy
  <2>1. CASE phase = "requests"
    BY <1>2, <2>1, NodeConstants DEF TimeInv
  <2>2. CASE phase = "collectors"
    <3>1. elapsed <= began + CloseBound
      BY <1>2, <2>2 DEF TimeInv
    <3> QED BY <1>1, <1>2, <3>1, NodeConstants, Positive
  <2>3. CASE phase = "writer"
    <3>1. elapsed <= began + CloseBound + waited /\ waited <= WriterTimeout
      BY <1>1, <1>2, <2>3, Limits DEF TimeInv
    <3> QED BY <1>1, <1>2, <3>1, NodeConstants, Positive
  <2>4. CASE phase = "drain"
    <3>1. elapsed + undrained * TableBound
             <= DrainBy + waited + (IF pausing THEN MaxStatement ELSE 0)
      BY <1>2, <2>4 DEF TimeInv
    <3>2. waited <= Limit("drain")
      BY <1>1, <1>2, <2>4 DEF TimeInv
    <3>3. CASE undrained = 0
      BY <1>1, <1>2, <2>0, <3>1, <3>2, <3>3, Limits, NodeConstants, Positive DEF OrderInv
    <3>4. CASE undrained > 0
      <4>1. undrained * TableBound >= TableBound /\ undrained * TableBound \in Int
        <5>1. undrained \in {1, 2, 3}
          BY <1>2, <3>4
        <5> QED BY <5>1, NodeConstants
      <4>2. waited + (IF pausing THEN MaxStatement ELSE 0) <= TableBound
        BY <1>2, <3>2, <3>4, Limits, NodeConstants
      <4> QED BY <1>1, <1>2, <2>0, <3>1, <4>1, <4>2, NodeConstants, Positive
    <3> QED BY <1>2, <3>3, <3>4
  <2>5. CASE phase = "scheduler"
    <3>1. elapsed <= DrainBy + waited /\ waited <= StopTimeout
      BY <1>1, <1>2, <2>5, Limits DEF TimeInv
    <3> QED BY <1>1, <1>2, <2>0, <3>1, NodeConstants, Positive
  <2>6. CASE phase = "pool"
    <3>1. elapsed <= DrainBy + StopTimeout + waited /\ waited <= MaxStatement
      BY <1>1, <1>2, <2>6, Limits DEF TimeInv
    <3> QED BY <1>1, <1>2, <2>0, <3>1, NodeConstants, Positive
  <2> QED BY <1>1, <2>1, <2>2, <2>3, <2>4, <2>5, <2>6, PhaseNames
<1>6. TimeInv'
  BY <1>1, <1>5 DEF TimeInv, ShuttingDown, StopPhases, StartPhases
<1> QED BY <1>3, <1>4, <1>6 DEF EndInv

LEMMA EndStops ==
    ASSUME LoopInv, EndInv, StopStep
    PROVE  EndInv'
BY EndSigTerm, EndReadersGone, EndCollector, EndAwaits, EndKill DEF StopStep

LEMMA EndRuns ==
    ASSUME LoopInv, EndInv, SchedulerStep \/ FeedStep \/ ProbeStep \/ Exited \/ UNCHANGED all
    PROVE  EndInv'
<1>1. CASE SchedulerStep
  BY <1>1, SchedulerStepFacts, EndStands
<1>2. CASE FeedStep \/ ProbeStep
  <2>1. phase \in {"serving", "requests"} /\ UNCHANGED node /\ UNCHANGED <<stopping, due, pc>>
    BY <1>2 DEF FeedStep, ProbeStep, Following, Serving, scheduler
  <2> QED BY <2>1, EndStands
<1>3. CASE Exited \/ UNCHANGED all
  <2>1. UNCHANGED <<check, stopping, due, pc>> /\ UNCHANGED node
    BY <1>3 DEF Exited, all, health, probe, scheduler
  <2> QED BY <2>1, EndStands
<1> QED BY <1>1, <1>2, <1>3

LEMMA EndNext == LoopInv /\ EndInv /\ [Next]_all => EndInv'
BY EndRuns, EndSecond, EndStart, EndStops DEF Next

LEMMA EndBegins == Init => EndInv
<1> SUFFICES ASSUME Init PROVE EndInv
  OBVIOUS
<1>1. /\ phase = "connect" /\ running = FALSE /\ waited = 0 /\ elapsed = 0 /\ began = 0
      /\ stage = [s \in Streams |-> "up"] /\ spell = [s \in Streams |-> 0]
      /\ undrained = 0 /\ pausing = FALSE /\ stopping = FALSE
  BY DEF Init, SchedulerInit
<1>2. running \in BOOLEAN /\ pausing \in BOOLEAN
  BY <1>1, Zenon
<1>3. \A s \in Streams : StageLimit(s) = 0
  BY <1>1 DEF StageLimit
<1>4. NodeTypeOK
  BY <1>1, <1>2, <1>3, NodeConstants DEF NodeTypeOK, StartPhases, TableCount
<1>5. AllUp
  BY <1>1 DEF AllUp
<1>6. OrderInv
  BY <1>1, <1>5 DEF OrderInv
<1>7. TimeInv
  BY <1>1 DEF TimeInv, ShuttingDown, StopPhases
<1> QED BY <1>4, <1>6, <1>7 DEF EndInv

-----------------------------------------------------------------------------
(* The theorems on the process *)

\* The loop's hours, the order of the end and the types of /health hold together,
\* each step keeping the three.
THEOREM ProcessInductive == Spec => [](LoopInv /\ EndInv /\ HealthTypeOK)
<1>1. Init => LoopInv /\ EndInv /\ HealthTypeOK
  BY LoopStarts, EndBegins, HealthStarts DEF Init
<1>2. LoopInv /\ EndInv /\ HealthTypeOK /\ [Next]_all => (LoopInv /\ EndInv /\ HealthTypeOK)'
  BY LoopNext, EndNext, HealthNext
<1> QED BY <1>1, <1>2, PTL DEF Spec

\* Every variable holds a value the code could hold, no job is later than its bound,
\* and nothing that takes a connection is left when the pool is closed.
THEOREM ProcessHolds == Spec => []NInv
<1>1. LoopInv /\ EndInv /\ HealthTypeOK => NInv
  <2> SUFFICES ASSUME LoopInv, EndInv, HealthTypeOK PROVE NInv
    OBVIOUS
  <2>1. SchedulerTypeOK
    BY JobConstants, Positive DEF LoopInv, LoopTypes, SchedulerTypeOK
  <2>2. NoJobIsLate
    BY NotLate, JobConstants DEF NoJobIsLate
  <2>3. PoolOutlivesItsUsers
    <3> SUFFICES ASSUME phase = "pool" \/ (phase = "exited" /\ AllStopped)
                 PROVE  pc = "ended" /\ check = "none"
      BY DEF PoolOutlivesItsUsers, Waiting
    <3> QED BY UpIsNotStopped DEF EndInv, OrderInv
  <2> QED BY <2>1, <2>2, <2>3 DEF NInv, SInv, EndInv
<1> QED BY <1>1, ProcessInductive, PTL

\* Once lifespan is called, the sessions are closed within one close handshake and one
\* statement, however many they are; and a process that is killed was called to its end
\* with no more of the grace period left than the awaits of lifespan add up to.
THEOREM StopIsInTime == Spec => []StopKeepsItsDeadlines
<1>1. LoopInv /\ EndInv /\ HealthTypeOK => StopKeepsItsDeadlines
  <2> SUFFICES ASSUME EndInv PROVE StopKeepsItsDeadlines
    OBVIOUS
  <2>1. elapsed \in Nat /\ began \in Nat
    BY NodeTypes DEF EndInv
  <2>2. phase = "collectors" => elapsed - began <= CloseBound
    BY <2>1, NodeConstants DEF EndInv, TimeInv
  <2> QED BY <2>2 DEF EndInv, TimeInv, StopKeepsItsDeadlines
<1> QED BY <1>1, ProcessInductive, PTL

-----------------------------------------------------------------------------
(* An ok is no older than its check *)

\* A finite set of numbers has a least one.
LEMMA LeastExists ==
    ASSUME NEW S \in SUBSET Int, IsFiniteSet(S), S # {}
    PROVE  \E x \in S : \A y \in S : x <= y
<1> DEFINE Below(x) == {y \in S : y < x}
           T == {Below(x) : x \in S}
<1>1. IsWellFoundedOn(StrictSubsetOrdering(S), SUBSET S)
  BY FS_StrictSubsetOrderingWellFounded, FS_FiniteSubsetsOfFinite
<1>2. T \subseteq SUBSET S /\ T # {}
  OBVIOUS
<1>3. PICK B \in T : \A C \in T : <<C, B>> \notin StrictSubsetOrdering(S)
  <2> HIDE DEF T
  <2> QED BY <1>1, <1>2, WFMin
<1>4. PICK x \in S : B = Below(x)
  OBVIOUS
<1>5. ASSUME NEW y \in S, y < x PROVE FALSE
  <2>1. \A z \in S : z < y => z < x
    BY <1>5
  <2>2. Below(y) \subseteq Below(x)
    BY <2>1
  <2>3. y \in Below(x) /\ y \notin Below(y)
    BY <1>5
  <2>4. <<Below(y), Below(x)>> \in StrictSubsetOrdering(S)
    BY <2>2, <2>3 DEF StrictSubsetOrdering
  <2> QED BY <1>3, <1>4, <2>4
<1> QED BY <1>5

\* The newest point of the grid is a point of some column, and the newest one.
LEMMA GridAgeIsTheLeast ==
    ASSUME ServedTypes
    PROVE  \E s \in Streams : GridAge = column[s] /\ \A t \in Streams : column[s] <= column[t]
<1> DEFINE Ages == {column[s] : s \in Streams}
<1>1. Ages \in SUBSET Int /\ Ages # {} /\ IsFiniteSet(Ages)
  <2>1. Ages \in SUBSET (0..Old) /\ Ages # {}
    BY HealthConstants DEF ServedTypes
  <2>2. IsFiniteSet(0..Old)
    BY FS_Interval, HealthConstants
  <2> HIDE DEF Ages
  <2>3. IsFiniteSet(Ages)
    BY <2>1, <2>2, FS_Subset
  <2>4. Ages \subseteq Int
    BY <2>1, HealthConstants
  <2> QED BY <2>1, <2>3, <2>4
<1>2. PICK a \in Ages : \A b \in Ages : a <= b
  BY <1>1, LeastExists
<1>3. \A s \in Streams : a <= column[s]
  BY <1>2
<1>4. GridAge \in Ages /\ \A s \in Streams : GridAge <= column[s]
  BY <1>2, <1>3 DEF GridAge
<1> QED BY <1>4

LEMMA FreshNext == FreshInv /\ HealthTypeOK /\ [Next]_all => FreshInv'
<1> SUFFICES ASSUME FreshInv, HealthTypeOK, [Next]_all PROVE FreshInv'
  OBVIOUS
<1>0. FeedTypes /\ ServedTypes /\ ProbeTypes /\ HistoryTypes /\ \A s \in Streams : column[s] \in Nat
      /\ asked \in Nat
  <2>1. FeedTypes /\ ServedTypes /\ ProbeTypes /\ HistoryTypes
    BY TypesOfHealth
  <2> QED BY <2>1, HealthConstants DEF ServedTypes, ProbeTypes
<1>1. CASE UNCHANGED probe /\ UNCHANGED column
  BY <1>1 DEF probe, FreshInv
<1>2. CASE JobMoves
  <2>1. UNCHANGED probe
    BY <1>0, <1>2, JobKeepsTypes
  <2>2. \A s \in Streams : column'[s] \in Nat /\ column'[s] <= column[s]
    <3>1. CASE column' = column
      BY <1>0, <3>1
    <3>2. ASSUME NEW heard_streams \in SUBSET Streams \ {{}}, JobPublishes(heard_streams)
          PROVE  \A s \in Streams : column'[s] \in Nat /\ column'[s] <= column[s]
      <4>1. column' = [s \in Streams |-> IF s \in heard_streams /\ point < column[s]
                                         THEN point ELSE column[s]]
        BY <3>2 DEF JobPublishes
      <4>2. point \in Nat
        BY <1>0, HealthConstants DEF ServedTypes
      <4> QED BY <1>0, <4>1, <4>2
    <3> QED BY <1>2, <3>1, <3>2 DEF JobMoves, JobBegins, JobFails
  <2>3. ASSUME seen.fresh PROVE \E s \in Streams : column'[s] <= MaxGridLag + asked
    <3>1. PICK s \in Streams : column[s] <= MaxGridLag + asked
      BY <2>3 DEF FreshInv
    <3> QED BY <1>0, <2>2, <3>1, HealthConstants
  <2> QED BY <2>1, <2>3 DEF FreshInv, probe
<1>3. CASE Ask \/ CheckEnds(running)
  <2>1. seen' = NothingSeen
    BY <1>3 DEF Ask, CheckEnds, Metrics, Unreachable, Answered
  <2> QED BY <2>1 DEF FreshInv, NothingSeen
<1>4. CASE Ping /\ UNCHANGED column
  BY <1>4 DEF Ping, FreshInv
<1>5. CASE Bounds /\ UNCHANGED column
  <2>1. /\ seen'.fresh => GridAge - asked <= MaxGridLag
        /\ check' = "last_run" /\ asked' = asked /\ column' = column
    BY <1>5 DEF Bounds
  <2>2. PICK s \in Streams : GridAge = column[s]
    BY <1>0, GridAgeIsTheLeast
  <2>3. seen'.fresh => column'[s] <= MaxGridLag + asked'
    BY <1>0, <2>1, <2>2, HealthConstants
  <2> QED BY <2>1, <2>3 DEF FreshInv
<1>6. CASE LastRun /\ UNCHANGED column
  BY <1>6 DEF LastRun, FreshInv
<1>7. CASE HealthSecond
  <2>1. /\ UNCHANGED <<seen, check>> /\ asked' = (IF check = "none" THEN 0 ELSE asked + 1)
        /\ column' = [s \in Streams |-> Aged(column[s], Old)]
    BY <1>7 DEF HealthSecond
  <2>2. \A s \in Streams : column'[s] \in Nat /\ column'[s] <= column[s] + 1
    <3>1. ASSUME NEW s \in Streams
          PROVE  column'[s] \in Nat /\ column'[s] <= column[s] + 1
      <4>1. column'[s] = Aged(column[s], Old) /\ column[s] \in Nat /\ Old \in Nat
            /\ column[s] <= Old
        BY <1>0, <2>1, HealthConstants DEF ServedTypes
      <4>2. /\ Aged(column[s], Old) \in 0..Old
            /\ Aged(column[s], Old) <= column[s] + 1
        BY <4>1, AgedFacts
      <4> QED BY <4>1, <4>2
    <3> QED BY <3>1
  <2>3. ASSUME seen.fresh PROVE \E s \in Streams : column'[s] <= MaxGridLag + asked'
    <3>1. PICK s \in Streams : column[s] <= MaxGridLag + asked
      BY <2>3 DEF FreshInv
    <3>2. asked' = asked + 1
      BY <2>1, <2>3 DEF FreshInv
    <3> QED BY <1>0, <2>2, <3>1, <3>2, HealthConstants
  <2> QED BY <2>1, <2>3 DEF FreshInv
<1>8. CASE SigTerm
  <2>1. CASE check = "none"
    BY <1>8, <2>1 DEF SigTerm, FreshInv, probe
  <2>2. CASE check # "none"
    BY <1>1, <1>8, <2>2 DEF SigTerm, served
  <2> QED BY <2>1, <2>2
<1>8k. CASE Kill
  BY <1>8k DEF Kill, FreshInv, NothingSeen
<1>9. StartStep \/ FeedStep \/ Exited \/ UNCHANGED all => UNCHANGED probe /\ UNCHANGED column
  <2>1. FeedStep => UNCHANGED <<served, probe>>
    <3>1. FeedStep => FeedMoves
      BY DEF FeedStep, FeedMoves
    <3> QED BY <1>0, <3>1, FeedKeepsTypes
  <2> QED BY <2>1 DEF StartStep, Connect, ApplySchema, StartNext, StartAll, StartFails, Exited,
                      all, health, served
<1>10. SchedulerStep => JobMoves \/ (UNCHANGED probe /\ UNCHANGED column)
  BY DEF SchedulerStep, JobMoves, health, served
<1>11. Second => HealthSecond \/ (UNCHANGED probe /\ UNCHANGED column)
  BY DEF Second, health, served
<1>12. StopStep => SigTerm \/ Kill \/ (UNCHANGED probe /\ UNCHANGED column)
  BY DEF StopStep, ReadersGone, CollectorsStopped, WriterEnds, TableDrained,
     CopyFails, PauseEnds, Drained, SchedulerEnds, PoolClosed, StopNext, SocketClosed,
     SessionFinished, TaskEnds, CollectorMoves, health, served
<1>13. ProbeStep => Ask \/ CheckEnds(running) \/ (CheckReads /\ UNCHANGED column)
  BY DEF ProbeStep, served
<1> QED BY <1>1, <1>2, <1>3, <1>4, <1>5, <1>6, <1>7, <1>8, <1>8k, <1>9, <1>10, <1>11, <1>12, <1>13
        DEF Next, CheckReads

LEMMA FailingNext == FailingInv /\ HealthTypeOK /\ [Next]_all => FailingInv'
<1> SUFFICES ASSUME FailingInv, HealthTypeOK, [Next]_all PROVE FailingInv'
  OBVIOUS
<1>0. FeedTypes /\ ServedTypes /\ ProbeTypes /\ HistoryTypes
  BY TypesOfHealth
<1>1. CASE UNCHANGED <<failing, status, check, seen>>
  BY <1>1 DEF FailingInv
<1>2. CASE JobMoves
  <2>1. UNCHANGED <<check, seen>>
    BY <1>0, <1>2, JobKeepsTypes DEF probe
  <2>2. failing' => failing /\ status' = status
    <3>1. CASE JobBegins
      BY <3>1 DEF JobBegins
    <3>2. CASE JobFails
      BY <3>2 DEF JobFails, FailingInv
    <3>3. CASE \E heard_streams \in SUBSET Streams \ {{}} : JobPublishes(heard_streams)
      BY <3>3 DEF JobPublishes
    <3> QED BY <1>2, <3>1, <3>2, <3>3 DEF JobMoves
  <2> QED BY <2>1, <2>2 DEF FailingInv
<1>3. CASE Ask
  BY <1>3 DEF Ask, FailingInv
<1>4. CASE Forget
  BY <1>4 DEF Forget, FailingInv
<1>5. CASE CheckReads /\ UNCHANGED served
  <2>1. UNCHANGED <<failing, status>>
    BY <1>5 DEF served
  <2>2. CASE Ping \/ Bounds
    BY <2>1, <2>2 DEF Ping, Bounds, FailingInv
  <2>3. CASE LastRun
    <3>1. check' = "metrics" /\ seen'.refused = (status \in BadStatus)
      BY <2>3 DEF LastRun
    <3>2. status = "aborted" => seen'.refused
      BY <3>1 DEF BadStatus
    <3> QED BY <2>1, <3>2 DEF FailingInv
  <2> QED BY <1>5, <2>2, <2>3 DEF CheckReads
<1>6. CASE CheckEnds(running) /\ UNCHANGED served
  BY <1>6 DEF CheckEnds, Metrics, Unreachable, Answered, FailingInv, served
<1>7. CASE HealthSecond
  BY <1>7 DEF HealthSecond, FailingInv
<1>8. StartStep \/ FeedStep \/ Exited \/ UNCHANGED all => UNCHANGED <<failing, status, check, seen>>
  <2>1. FeedStep => UNCHANGED <<served, probe>>
    <3>1. FeedStep => FeedMoves
      BY DEF FeedStep, FeedMoves
    <3> QED BY <1>0, <3>1, FeedKeepsTypes
  <2> QED BY <2>1 DEF StartStep, Connect, ApplySchema, StartNext, StartAll, StartFails, Exited,
                      all, health, served, probe
<1>9. SchedulerStep => JobMoves \/ UNCHANGED <<failing, status, check, seen>>
  BY DEF SchedulerStep, JobMoves, health, served, probe
<1>10. Second => HealthSecond \/ UNCHANGED <<failing, status, check, seen>>
  BY DEF Second, health, served, probe
<1>11. StopStep => Forget \/ UNCHANGED <<failing, status, check, seen>>
  BY DEF StopStep, SigTerm, ReadersGone, Kill, CollectorsStopped, WriterEnds, TableDrained,
     CopyFails, PauseEnds, Drained, SchedulerEnds, PoolClosed, StopNext, SocketClosed,
     SessionFinished, TaskEnds, CollectorMoves, health, served, probe
<1>12. ProbeStep => \/ Ask \/ Forget \/ (CheckReads /\ UNCHANGED served)
                    \/ CheckEnds(running) /\ UNCHANGED served
  BY DEF ProbeStep
<1> QED BY <1>1, <1>2, <1>3, <1>4, <1>5, <1>6, <1>7, <1>8, <1>9, <1>10, <1>11, <1>12 DEF Next

\* An answer is given by the last statement of a check, or by its failure.
LEMMA WhoAnswers ==
    ASSUME HealthTypeOK, [Next]_all, answer' # answer
    PROVE  Ask \/ (Following /\ CheckEnds(running))
<1>0. FeedTypes /\ ServedTypes /\ ProbeTypes /\ HistoryTypes
  BY TypesOfHealth
<1>1. StartStep \/ Exited \/ UNCHANGED all => UNCHANGED probe
  BY DEF StartStep, Connect, ApplySchema, StartNext, StartAll, StartFails, Exited, all, health
<1>2. FeedStep => UNCHANGED probe
  <2>1. FeedStep => FeedMoves
    BY DEF FeedStep, FeedMoves
  <2> QED BY <1>0, <2>1, FeedKeepsTypes
<1>3. SchedulerStep => UNCHANGED probe
  <2>1. SchedulerStep => JobMoves \/ UNCHANGED probe
    BY DEF SchedulerStep, JobMoves, health
  <2> QED BY <1>0, <2>1, JobKeepsTypes
<1>4. Second => UNCHANGED answer
  BY DEF Second, HealthSecond, health, probe
<1>5. StopStep => UNCHANGED answer
  BY DEF StopStep, SigTerm, ReadersGone, Kill, CollectorsStopped, WriterEnds, TableDrained,
     CopyFails, PauseEnds, Drained, SchedulerEnds, PoolClosed, StopNext, SocketClosed,
     SessionFinished, TaskEnds, CollectorMoves, health, probe
<1>6. ProbeStep => Ask \/ (Following /\ CheckEnds(running)) \/ UNCHANGED answer
  BY DEF ProbeStep, CheckReads, Ping, Bounds, LastRun
<1> QED BY <1>1, <1>2, <1>3, <1>4, <1>5, <1>6 DEF Next, probe

\* When a check answers ok, some point of the grid was within its threshold when the check
\* read the time, and the newest run is none that had failed when the check began: what
\* it read in two statements is that young, whatever the jobs did between them.
THEOREM OkIsTrue == Spec => OkMeansFresh
<1> DEFINE Fresh == answer # "ok" /\ answer' = "ok" =>
                      /\ \E s \in Streams : column[s] <= MaxGridLag + asked
                      /\ ~failing
<1>1. Init => FreshInv /\ FailingInv
  BY DEF Init, HealthInit, FreshInv, FailingInv, NothingSeen
<1>2. FreshInv /\ FailingInv /\ HealthTypeOK /\ [Next]_all => Fresh
  <2> SUFFICES ASSUME FreshInv, FailingInv, HealthTypeOK, [Next]_all,
                      answer # "ok", answer' = "ok"
               PROVE  /\ \E s \in Streams : column[s] <= MaxGridLag + asked
                      /\ ~failing
    OBVIOUS
  <2>1. CheckEnds(running)
    BY WhoAnswers DEF Ask
  <2>2. Metrics(running)
    BY <2>1 DEF CheckEnds, Unreachable, Answered, Ok
  <2>3. seen.fresh /\ ~seen.refused /\ check = "metrics"
    BY <2>2 DEF Metrics, Answered, Ok
  <2> QED BY <2>3 DEF FreshInv, FailingInv
<1>3. FreshInv /\ FailingInv /\ HealthTypeOK /\ [Next]_all => FreshInv' /\ FailingInv'
  BY FreshNext, FailingNext
<1>4. Spec => [](FreshInv /\ FailingInv)
  BY <1>1, <1>3, ProcessInductive, PTL DEF Spec
<1> HIDE DEF Fresh
<1>5. Spec => [][Fresh]_<<scheduler, health>>
  BY <1>2, <1>4, ProcessInductive, PTL DEF Spec, all
<1> QED BY <1>5 DEF OkMeansFresh, Fresh

-----------------------------------------------------------------------------
(* No false alarm *)

\* As long as a check may be answered, the loop runs as nobody has told it to stop.
LEMMA ServingRuns ==
    ASSUME LoopInv, EndInv, Following
    PROVE  /\ ~stopping /\ DueSince /\ HoldUp /\ LoopTypes /\ running /\ pc # "ended"
           /\ since[1] \in Nat /\ since[2] \in Nat /\ spent \in Nat /\ pass \in Nat
           /\ due[1] \in Int /\ due[2] \in Int
           /\ pc = "job" => (job = 1 \/ job = 2) /\ spent <= MaxJob
           /\ pc = "sleep" => spent <= TickSeconds
<1>1. ~stopping /\ running
  BY DEF Following, Serving, EndInv, OrderInv
<1>2. DueSince /\ HoldUp /\ LoopTypes
  BY <1>1 DEF LoopInv
<1> QED BY <1>1, <1>2, JobConstants DEF LoopTypes

LEMMA ServedNumbers ==
    ASSUME ServedTypes
    PROVE  /\ \A s \in Streams : column[s] \in Nat /\ column[s] <= Old
           /\ point \in Nat /\ point <= Old /\ clock \in Nat /\ clock < Step
BY HealthConstants DEF ServedTypes

\* A column younger than one age is younger than any greater one.
LEMMA YoungerStill ==
    ASSUME ServedTypes, NEW a \in Int, NEW b \in Int, a <= b, Younger(a)
    PROVE  Younger(b)
BY ServedNumbers, HealthConstants DEF Younger

\* As long as the feed, the grid and the check stand still, calm is a matter of the
\* place the loop is at.
LEMMA CalmStands ==
    ASSUME CalmInv, UNCHANGED health, Following' <=> Following,
           pc' = "job" => pc = "job" /\ spent' = spent, calm => CalmAges'
    PROVE  CalmInv'
<1>1. /\ UNCHANGED <<database, link, silent, lost, clock, column, point, status>>
      /\ UNCHANGED <<check, asked, seen, answer, troubles, calm, clear>>
  BY DEF health, feed, served, probe, history
<1>2. PointAge'
  BY <1>1 DEF CalmInv, PointAge
<1>3. SeenWell'
  BY <1>1 DEF CalmInv, SeenWell
<1>4. calm => CalmWell'
  BY <1>1 DEF CalmInv, CalmWell, AllWell
<1> QED BY <1>1, <1>2, <1>3, <1>4 DEF CalmInv

\* Where nothing is followed there is no calm.
LEMMA CalmGone ==
    ASSUME LoopInv', ~calm', ~clear', point' = 0
    PROVE  CalmInv'
<1>1. spent' \in Nat
  BY DEF LoopInv, LoopTypes
<1>2. \A n \in Nat : 0 < Step + n
  BY HealthConstants
<1>3. PointAge'
  BY <1>1, <1>2 DEF PointAge
<1> QED BY <1>3 DEF CalmInv, SeenWell

LEMMA CalmLoop ==
    ASSUME LoopInv, EndInv, ServedTypes, CalmInv, LoopStep, UNCHANGED <<health, node>>
    PROVE  CalmInv'
<1>1. pc' # "job" /\ UNCHANGED since
  BY DEF LoopStep, Loop, Skip, Sleep, Wake
<1>2. column' = column /\ (Following' <=> Following)
  BY DEF health, served, probe, node, Following, Serving
<1>3. ASSUME calm PROVE CalmAges'
  <2>1. /\ ~stopping /\ DueSince /\ HoldUp /\ CalmAges
        /\ since[1] \in Nat /\ since[2] \in Nat /\ spent \in Nat /\ pass \in Nat
        /\ due[1] \in Int /\ due[2] \in Int /\ job \in 1..3
    BY <1>3, ServingRuns DEF CalmInv, CalmWell, LoopTypes
  <2>2. pc # "job"
    BY DEF LoopStep, Loop, Skip, Sleep, Wake
  <2>3. Younger(since[1])
    BY <2>1, <2>2 DEF CalmAges
  <2>4. CASE Loop
    BY <1>1, <1>2, <2>1, <2>3, <2>4 DEF Loop, CalmAges, Younger
  <2>5. CASE Skip
    <3>1. /\ pc = "check" /\ pc' = "check" /\ job \in Jobs /\ job' = job + 1
          /\ ~(due[job] + pass <= 0)
      BY <2>5 DEF Skip, Due
    <3>2. Younger(TailInterval - 1)
      <4>1. CASE job = 1
        <5>1. pass = 0 /\ since[1] + due[1] <= TailInterval
          BY <2>1, <3>1, <4>1, JobConstants DEF HoldUp, DueSince
        <5>2. since[1] <= TailInterval - 1
          BY <2>1, <3>1, <4>1, <5>1, Positive
        <5> QED BY <2>1, <2>3, <5>2, YoungerStill, Positive
      <4>2. CASE job = 2
        BY <2>1, <3>1, <4>2 DEF CalmAges
      <4> QED BY <3>1, <4>1, <4>2, JobConstants
    <3>3. job' # 1
      BY <2>1, <3>1, JobConstants
    <3> QED BY <1>1, <1>2, <2>3, <3>1, <3>2, <3>3 DEF CalmAges, Younger
  <2>6. CASE Sleep
    <3>1. pc = "check" /\ job = 3 /\ pc' = "sleep" /\ spent' = 0
      BY <2>1, <2>6, JobConstants DEF Sleep
    <3>2. Younger(TailInterval - 1)
      BY <2>1, <3>1 DEF CalmAges
    <3> QED BY <1>1, <1>2, <2>3, <3>1, <3>2, Positive DEF CalmAges, Younger
  <2>7. CASE Wake
    <3>1. pc = "sleep" /\ spent = TickSeconds /\ pc' = "loop"
      BY <2>7 DEF Wake
    <3>2. Younger(TailInterval - 1 + TickSeconds)
      BY <2>1, <3>1 DEF CalmAges
    <3>3. Younger(TailInterval + TickSeconds - 1)
      BY <3>2, Positive DEF Younger
    <3> QED BY <1>1, <1>2, <2>3, <3>1, <3>3 DEF CalmAges, Younger
  <2> QED BY <2>4, <2>5, <2>6, <2>7 DEF LoopStep
<1> QED BY <1>1, <1>2, <1>3, CalmStands

\* What a job does to the history of trouble.
LEMMA CalmJobBegins ==
    ASSUME LoopInv, EndInv, ServedTypes, CalmInv, Following, JobBegins, UNCHANGED node
    PROVE  CalmInv'
<1>1. /\ pc = "check" /\ job \in Jobs /\ pc' = "job" /\ spent' = 0 /\ job' = job
      /\ since' = [since EXCEPT ![job] = 0] /\ point' = clock
      /\ status' = (IF database THEN "running" ELSE status)
      /\ UNCHANGED <<database, link, silent, lost, column, check, seen, calm, clear>>
  BY DEF JobBegins, Begin, MayBegin, feed, probe, NoTrouble, history
<1>2. UNCHANGED phase
  BY DEF node
<1>3. since \in [Jobs -> Nat] /\ since[1] \in Nat
  BY JobConstants DEF LoopInv, LoopTypes
<1>4. PointAge'
  BY <1>1, <1>2, ServedNumbers, HealthConstants DEF PointAge, Following, Serving
<1>5. SeenWell'
  BY <1>1 DEF CalmInv, SeenWell
<1>6. ASSUME calm PROVE CalmWell' /\ CalmAges'
  <2>1. CalmWell /\ CalmAges
    BY <1>6 DEF CalmInv
  <2>2. CalmWell'
    BY <1>1, <1>2, <2>1 DEF CalmWell, AllWell, Following, Serving
  <2>3. CASE job = 1
    <3>1. Younger(TailInterval + TickSeconds - 1)
      BY <1>1, <2>1, <2>3 DEF CalmAges
    <3>2. TailInterval + TickSeconds - 1 + spent' = TailInterval + TickSeconds - 1
      BY <1>1, Positive
    <3>3. \A s \in Streams : column'[s] < Step + (TailInterval + TickSeconds - 1 + spent')
      BY <1>1, <3>1, <3>2 DEF Younger
    <3> QED BY <1>1, <2>2, <2>3, <3>3 DEF CalmAges, Younger
  <2>4. CASE job = 2
    <3>1. Younger(TailInterval - 1) /\ Younger(since[1]) /\ since'[1] = since[1]
      BY <1>1, <1>3, <2>1, <2>4, JobConstants DEF CalmAges
    <3>2. TailInterval - 1 + spent' = TailInterval - 1
      BY <1>1, Positive
    <3>3. /\ \A s \in Streams : column'[s] < Step + (TailInterval - 1 + spent')
          /\ \A s \in Streams : column'[s] < Step + since'[1]
      BY <1>1, <3>1, <3>2 DEF Younger
    <3> QED BY <1>1, <2>2, <2>4, <3>3 DEF CalmAges, Younger
  <2> QED BY <1>1, <2>2, <2>3, <2>4, JobConstants
<1> QED BY <1>1, <1>4, <1>5, <1>6 DEF CalmInv

LEMMA CalmJobPublishes ==
    ASSUME LoopInv, EndInv, ServedTypes, CalmInv, Following, UNCHANGED node,
           NEW heard_streams \in SUBSET Streams, JobPublishes(heard_streams)
    PROVE  CalmInv'
<1>1. /\ pc = "job" /\ pc' = "check" /\ job' = job + 1 /\ since' = since
      /\ database /\ status = "running" /\ status' = "published" /\ point' = 0
      /\ column' = [s \in Streams |-> IF s \in heard_streams /\ point < column[s]
                                      THEN point ELSE column[s]]
      /\ UNCHANGED <<database, link, silent, lost, check, seen>>
  BY DEF JobPublishes, JobEnds, feed, probe
<1>2. UNCHANGED phase
  BY DEF node
<1>3. PointAge'
  BY <1>1, <1>2 DEF PointAge, Following, Serving
<1>4. CASE heard_streams # Streams
  <2>1. ~calm' /\ ~clear'
    BY <1>4 DEF JobPublishes, Trouble
  <2> QED BY <1>3, <2>1 DEF CalmInv, SeenWell
<1>5. CASE heard_streams = Streams
  <2>1. (calm' <=> calm \/ AllWell) /\ clear' = clear
    BY <1>5 DEF JobPublishes
  <2>2. SeenWell'
    BY <1>1, <2>1 DEF CalmInv, SeenWell
  <2>3. ASSUME calm' PROVE CalmWell' /\ CalmAges'
    <3>1. AllWell
      BY <2>1, <2>3 DEF CalmInv, CalmWell
    <3>2. CalmWell'
      BY <1>1, <1>2, <3>1 DEF CalmWell, AllWell, Following, Serving
    <3>3. /\ point < Step + spent /\ spent <= MaxJob /\ (job = 1 \/ job = 2)
          /\ since[1] \in Nat /\ since[1] >= spent /\ spent \in Nat /\ point \in Nat
      BY <1>1, ServingRuns, ServedNumbers DEF CalmInv, PointAge, HoldUp
    <3>4. \A s \in Streams : column'[s] \in Nat /\ column'[s] <= point
      BY <1>1, <1>5, ServedNumbers
    <3>5. \A s \in Streams : column'[s] < Step + (TailInterval - 1)
      BY <3>3, <3>4, Positive, HealthConstants
    <3>6. \A s \in Streams : column'[s] < Step + since'[1]
      BY <1>1, <3>3, <3>4, HealthConstants
    <3>7. pc' = "check" /\ job' # 1
      BY <1>1, <3>3
    <3> QED BY <3>2, <3>5, <3>6, <3>7 DEF CalmAges, Younger
  <2> QED BY <1>3, <2>2, <2>3 DEF CalmInv
<1> QED BY <1>4, <1>5

LEMMA CalmJobFails ==
    ASSUME LoopInv, EndInv, CalmInv, JobFails, UNCHANGED node
    PROVE  CalmInv'
<1>1. /\ pc = "job" /\ pc' = "check" /\ point' = 0 /\ UNCHANGED <<check, seen>>
  BY DEF JobFails, JobEnds, probe
<1>2. UNCHANGED phase
  BY DEF node
<1>3. PointAge'
  BY <1>1, <1>2 DEF PointAge, Following, Serving
<1>4. ~calm' /\ ~clear'
  <2>1. CASE database /\ status = "running"
    BY <2>1 DEF JobFails, Trouble
  <2>2. CASE ~(database /\ status = "running")
    <3>1. ~calm
      BY <1>1, <2>2 DEF CalmInv, CalmWell, AllWell
    <3>2. calm' = calm /\ clear' = clear
      BY <2>2 DEF JobFails, NoTrouble, history
    <3> QED BY <3>1, <3>2 DEF CalmInv, SeenWell
  <2> QED BY <2>1, <2>2
<1> QED BY <1>3, <1>4 DEF CalmInv, SeenWell

\* With nothing wrong, whatever the venues and the database do next is trouble.
LEMMA CalmFeed ==
    ASSUME CalmInv, FeedMoves, FeedTypes, UNCHANGED <<scheduler, node>>
    PROVE  CalmInv'
<1>1. UNCHANGED <<served, probe>> /\ (Trouble \/ NoTrouble)
  BY FeedKeepsTypes
<1>2. PointAge'
  BY <1>1 DEF CalmInv, PointAge, served, probe, scheduler, node, Following, Serving
<1>3. ~calm' /\ ~clear'
  <2>1. CASE Trouble
    BY <2>1 DEF Trouble
  <2>2. CASE ~Trouble
    <3>1. UNCHANGED <<calm, clear>>
      BY <1>1, <2>2 DEF NoTrouble, history
    <3>2. ~AllWell
      BY <2>2 DEF FeedMoves, Connects, Syncs, Hears, Resyncs, Drops, Closed, FallsSilent,
                  DatabaseFails, DatabaseReturns, AllWell
    <3> QED BY <3>1, <3>2 DEF CalmInv, CalmWell, SeenWell
  <2> QED BY <2>1, <2>2
<1> QED BY <1>2, <1>3 DEF CalmInv, SeenWell

\* A second makes every age one more.
LEMMA CalmSecond ==
    ASSUME LoopInv, EndInv, ServedTypes, CalmInv, Second
    PROVE  CalmInv'
<1>1. UNCHANGED <<phase, pc>>
  BY SecondFacts
<1>2. CASE ~Following
  <2>1. UNCHANGED health
    BY <1>2 DEF Second
  <2>2. UNCHANGED <<point, check, seen, calm, clear>>
    BY <2>1 DEF health, served, probe, history
  <2>3. PointAge'
    <3>1. point' = 0
      BY <1>2, <2>2 DEF CalmInv, PointAge
    <3>2. pc' = "job" => spent' \in Nat
      BY SecondFacts DEF LoopInv, LoopTypes
    <3> QED BY <3>1, <3>2, HealthConstants DEF PointAge
  <2>4. ~calm' /\ ~clear'
    BY <1>2, <2>2 DEF CalmInv, CalmWell, SeenWell
  <2> QED BY <2>3, <2>4 DEF CalmInv, SeenWell
<1>3. CASE Following
  <2>1. SchedulerSecond /\ HealthSecond
    BY <1>3, ServingRuns DEF Second
  <2>2. /\ pc \in {"job", "sleep"} /\ job' = job /\ spent' = spent + 1
        /\ since' = [j \in Jobs |-> IF since[j] < Late(j) THEN since[j] + 1 ELSE Late(j)]
        /\ point' = (IF pc = "job" THEN Aged(point, Old) ELSE 0)
        /\ column' = [s \in Streams |-> Aged(column[s], Old)]
        /\ UNCHANGED <<database, link, silent, lost, status, check, seen, calm, clear>>
    BY <2>1 DEF SchedulerSecond, Waiting, HealthSecond, feed, history
  <2>3. /\ since'[1] = since[1] + 1 /\ since[1] \in Nat /\ spent \in Nat
        /\ pc = "job" => job = 1 \/ job = 2
    BY <1>3, <2>2, ServingRuns, NotLate, JobConstants
  <2>4. /\ point \in Nat /\ Aged(point, Old) \in Nat /\ Aged(point, Old) <= point + 1
    BY ServedNumbers, AgedFacts, HealthConstants
  <2>5. PointAge'
    BY <1>1, <1>3, <2>2, <2>3, <2>4, HealthConstants DEF CalmInv, PointAge, Following, Serving
  <2>6. SeenWell'
    BY <2>2 DEF CalmInv, SeenWell
  <2>7. ASSUME NEW s \in Streams
        PROVE  column'[s] \in Nat /\ column[s] \in Nat /\ column'[s] <= column[s] + 1
    <3>1. column'[s] = Aged(column[s], Old) /\ column[s] \in Nat /\ column[s] <= Old
      BY <2>2, ServedNumbers
    <3> QED BY <3>1, AgedFacts, HealthConstants
  <2>8. ASSUME calm PROVE CalmWell' /\ CalmAges'
    <3>1. CalmWell /\ CalmAges
      BY <2>8 DEF CalmInv
    <3>2. CalmWell'
      BY <1>1, <2>2, <3>1 DEF CalmWell, AllWell, Following, Serving
    <3>3. ASSUME NEW a \in Int, Younger(a)
          PROVE  \A s \in Streams : column'[s] < Step + (a + 1)
      BY <2>7, <3>3, HealthConstants DEF Younger
    <3>4. CASE pc = "job" /\ job = 1
      <4>1. \A s \in Streams : column'[s] < Step + (TailInterval + TickSeconds - 1 + spent + 1)
        BY <2>3, <3>1, <3>3, <3>4, Positive DEF CalmAges
      <4>2. TailInterval + TickSeconds - 1 + spent' = TailInterval + TickSeconds - 1 + spent + 1
        BY <2>2, <2>3, Positive
      <4>3. \A s \in Streams : column'[s] < Step + (TailInterval + TickSeconds - 1 + spent')
        BY <4>1, <4>2
      <4> QED BY <1>1, <2>2, <3>2, <3>4, <4>3 DEF CalmAges, Younger
    <3>5. CASE (pc = "job" /\ job = 2) \/ pc = "sleep"
      <4>1. \A s \in Streams : column'[s] < Step + (TailInterval - 1 + spent + 1)
        BY <2>3, <3>1, <3>3, <3>5, Positive DEF CalmAges
      <4>2. \A s \in Streams : column'[s] < Step + (since[1] + 1)
        BY <2>3, <3>1, <3>3, <3>5 DEF CalmAges
      <4>3. TailInterval - 1 + spent' = TailInterval - 1 + spent + 1
        BY <2>2, <2>3, Positive
      <4>4. \A s \in Streams : /\ column'[s] < Step + (TailInterval - 1 + spent')
                               /\ column'[s] < Step + since'[1]
        BY <2>3, <4>1, <4>2, <4>3
      <4> QED BY <1>1, <2>2, <3>2, <3>5, <4>4 DEF CalmAges, Younger
    <3> QED BY <2>2, <2>3, <3>2, <3>4, <3>5
  <2> QED BY <2>2, <2>5, <2>6, <2>8 DEF CalmInv
<1> QED BY <1>2, <1>3

\* In calm the grid is young for every job the loop may be at.
LEMMA CalmIsYoung ==
    ASSUME LoopInv, EndInv, ServedTypes, CalmInv, calm
    PROVE  \A s \in Streams : column[s] <= MaxGridLag
<1>1. Following /\ CalmAges
  BY DEF CalmInv, CalmWell
<1>2. /\ HoldUp /\ pc # "ended" /\ spent \in Nat
      /\ pc \in {"loop", "check", "job", "sleep", "ended"}
      /\ job \in 1..3 /\ (pc = "job" => (job = 1 \/ job = 2) /\ spent <= MaxJob)
      /\ (pc = "sleep" => spent <= TickSeconds)
  BY <1>1, ServingRuns DEF LoopTypes
<1>3. Younger(TailInterval + TickSeconds + MaxJob)
  <2>1. CASE pc = "loop" \/ (pc = "check" /\ job = 1)
    <3>1. Younger(TailInterval + TickSeconds - 1)
      BY <1>1, <2>1 DEF CalmAges
    <3> QED BY <3>1, YoungerStill, Positive
  <2>2. CASE pc = "job" /\ job = 1
    <3>1. Younger(TailInterval + TickSeconds - 1 + spent)
      BY <1>1, <2>2 DEF CalmAges
    <3> QED BY <1>2, <2>2, <3>1, YoungerStill, Positive
  <2>3. CASE pc = "check" /\ job # 1
    <3>1. Younger(TailInterval - 1)
      BY <1>1, <1>2, <2>3 DEF CalmAges
    <3> QED BY <3>1, YoungerStill, Positive
  <2>4. CASE (pc = "job" /\ job = 2) \/ pc = "sleep"
    <3>1. Younger(TailInterval - 1 + spent)
      BY <1>1, <2>4 DEF CalmAges
    <3> QED BY <1>2, <2>4, <3>1, YoungerStill, Positive
  <2> QED BY <1>2, <2>1, <2>2, <2>3, <2>4
<1>4. Step + (TailInterval + TickSeconds + MaxJob) <= MaxGridLag
  BY HealthConstants, Positive
<1> QED BY <1>3, <1>4, ServedNumbers, HealthConstants, Positive DEF Younger

LEMMA CalmProbe ==
    ASSUME LoopInv, EndInv, HealthTypeOK, CalmInv, Following' <=> Following,
           UNCHANGED <<scheduler, node>>,
           \/ Ask
           \/ /\ CheckReads \/ CheckEnds(running)
              /\ UNCHANGED <<database, feed, served, history>>
    PROVE  CalmInv'
<1>0. FeedTypes /\ ServedTypes /\ ProbeTypes /\ HistoryTypes
  BY TypesOfHealth
<1>1. UNCHANGED <<database, link, silent, lost, column, point, status, calm>>
  BY DEF Ask, feed, served, history
<1>2. UNCHANGED <<pc, job, spent, since>>
  BY DEF scheduler
<1>3. PointAge'
  BY <1>1, <1>2 DEF CalmInv, PointAge
<1>4. calm' => CalmWell' /\ CalmAges'
  BY <1>1, <1>2 DEF CalmInv, CalmWell, AllWell, CalmAges, Younger
<1>5. SeenWell'
  <2>0. ~Ask => UNCHANGED <<calm, clear>>
    BY DEF history
  <2>1. CASE Ask
    BY <2>1 DEF Ask, SeenWell
  <2>2. CASE Ping /\ ~Ask
    BY <2>0, <2>2 DEF Ping, SeenWell, CalmInv
  <2>3. CASE Bounds /\ ~Ask
    <3>1. /\ check' = "last_run" /\ UNCHANGED <<calm, clear>>
          /\ seen' = [fresh |-> GridAge # Old /\ GridAge - asked <= MaxGridLag, refused |-> FALSE]
      BY <2>0, <2>3 DEF Bounds
    <3>2. ASSUME clear PROVE GridAge # Old /\ GridAge - asked <= MaxGridLag
      <4>1. calm
        BY <3>2 DEF CalmInv, SeenWell
      <4>2. PICK s \in Streams : GridAge = column[s]
        BY <1>0, GridAgeIsTheLeast
      <4>3. column[s] <= MaxGridLag /\ column[s] \in Nat
        BY <1>0, <4>1, CalmIsYoung, ServedNumbers
      <4>4. asked \in Nat
        BY <1>0, HealthConstants DEF ProbeTypes
      <4> QED BY <4>2, <4>3, <4>4, HealthConstants
    <3>3. clear => seen'.fresh
      BY <3>1, <3>2
    <3> QED BY <3>1, <3>3 DEF CalmInv, SeenWell
  <2>4. CASE LastRun /\ ~Ask
    <3>1. /\ check = "last_run" /\ check' = "metrics" /\ UNCHANGED <<calm, clear>>
          /\ seen' = [fresh |-> seen.fresh, refused |-> status \in BadStatus]
      BY <2>0, <2>4 DEF LastRun
    <3>2. clear => status \notin BadStatus /\ seen.fresh
      BY <3>1 DEF CalmInv, SeenWell, CalmWell, BadStatus
    <3> QED BY <3>1, <3>2 DEF CalmInv, SeenWell
  <2>5. CASE CheckEnds(running) /\ ~Ask
    <3>1. check' = "none" /\ UNCHANGED <<calm, clear>>
      BY <2>0, <2>5 DEF CheckEnds, Metrics, Unreachable, Answered
    <3> QED BY <3>1 DEF SeenWell, CalmInv
  <2> QED BY <2>1, <2>2, <2>3, <2>4, <2>5 DEF CheckReads
<1> QED BY <1>3, <1>4, <1>5 DEF CalmInv

\* Lifespan's steps happen before or after the service, where there is no calm; or a check
\* is under way at SIGTERM, and nothing changes for it.
LEMMA CalmLifespan ==
    ASSUME LoopInv, EndInv, CalmInv, StartStep \/ StopStep
    PROVE  CalmInv'
<1>0. LoopInv'
  <2>1. [Next]_all
    BY DEF Next
  <2> QED BY <2>1, LoopNext
<1>1. CASE Forget
  BY <1>0, <1>1, CalmGone DEF Forget
<1>2. CASE SigTerm /\ check # "none"
  <2>1. UNCHANGED <<health, scheduler>> /\ Following /\ phase' = "requests" /\ check' = check
    BY <1>2 DEF SigTerm, health, probe, Following
  <2>2. Following'
    BY <1>2, <2>1 DEF Following
  <2>3. UNCHANGED <<pc, job, spent, since, column>>
    BY <2>1 DEF scheduler, health, served
  <2>4. calm => CalmAges'
    BY <2>3 DEF CalmInv, CalmAges, Younger
  <2> QED BY <2>1, <2>2, <2>3, <2>4, CalmStands
<1>3. CASE ~Following /\ ~Forget
  <2>1. ~calm /\ ~clear /\ point = 0
    BY <1>3 DEF CalmInv, CalmWell, SeenWell, PointAge
  <2>2. UNCHANGED health
    BY <1>3 DEF StartStep, Connect, ApplySchema, StartNext, StartAll, StartFails, StopStep,
       SigTerm, Following, ReadersGone, Kill, CollectorsStopped, WriterEnds, TableDrained,
       CopyFails, PauseEnds, Drained, SchedulerEnds, PoolClosed, StopNext, SocketClosed,
       SessionFinished, TaskEnds, CollectorMoves
  <2>3. UNCHANGED <<calm, clear, point>>
    BY <2>2 DEF health, served, history
  <2> QED BY <1>0, <2>1, <2>3, CalmGone
<1>4. CASE Following /\ ~Forget /\ ~(SigTerm /\ check # "none")
  <2>1. phase = "serving" \/ (phase = "requests" /\ check # "none")
    BY <1>4 DEF Following, Serving
  <2>2. ~StartStep
    BY <2>1 DEF StartStep, Connect, ApplySchema, StartNext, StartAll, StartFails, StartPhases
  <2>3. ~SigTerm /\ ~Kill
    BY <1>4 DEF SigTerm, Kill
  <2>4. FALSE
    BY <2>1, <2>2, <2>3 DEF StopStep, ReadersGone, CollectorsStopped, WriterEnds,
       TableDrained, CopyFails, PauseEnds, Drained, SchedulerEnds, PoolClosed, StopNext,
       SocketClosed, SessionFinished, TaskEnds, CollectorMoves
  <2> QED BY <2>4
<1> QED BY <1>1, <1>2, <1>3, <1>4

LEMMA CalmNext == LoopInv /\ EndInv /\ HealthTypeOK /\ CalmInv /\ [Next]_all => CalmInv'
<1> SUFFICES ASSUME LoopInv, EndInv, HealthTypeOK, CalmInv, [Next]_all PROVE CalmInv'
  OBVIOUS
<1>0. FeedTypes /\ ServedTypes
  BY TypesOfHealth
<1>1. CASE StartStep \/ StopStep
  BY <1>1, CalmLifespan
<1>2. CASE SchedulerStep
  <2>1. CASE LoopStep /\ UNCHANGED <<health, node>>
    BY <1>0, <2>1, CalmLoop
  <2>2. CASE Following /\ UNCHANGED node /\ (JobBegins \/ JobFails)
    BY <1>0, <2>2, CalmJobBegins, CalmJobFails
  <2>3. ASSUME Following, UNCHANGED node, NEW heard_streams \in SUBSET Streams,
               JobPublishes(heard_streams)
        PROVE  CalmInv'
    BY <1>0, <2>3, CalmJobPublishes
  <2>4. CASE ~Following /\ UNCHANGED health
    <3>1. ~calm /\ ~clear /\ point = 0
      BY <2>4 DEF CalmInv, CalmWell, SeenWell, PointAge
    <3>2. UNCHANGED <<calm, clear, point>>
      BY <2>4 DEF health, served, history
    <3> QED BY <3>1, <3>2, LoopNext, CalmGone
  <2> QED BY <1>2, <2>1, <2>2, <2>3, <2>4 DEF SchedulerStep
<1>3. CASE FeedStep
  <2>1. FeedMoves /\ UNCHANGED <<scheduler, node>>
    BY <1>3 DEF FeedStep, FeedMoves
  <2> QED BY <1>0, <2>1, CalmFeed
<1>4. CASE ProbeStep
  <2>1. Following /\ UNCHANGED <<scheduler, node>>
    BY <1>4 DEF ProbeStep
  <2>2. CASE Forget
    BY <2>2, LoopNext, CalmGone DEF Forget
  <2>3. CASE ~Forget
    <3>1. \/ Ask /\ Serving
          \/ CheckReads /\ UNCHANGED <<database, feed, served, history>>
          \/ CheckEnds(running) /\ Serving /\ UNCHANGED <<database, feed, served, history>>
      BY <1>4, <2>3 DEF ProbeStep
    <3>2. Following'
      <4>1. CASE Serving
        BY <2>1, <4>1 DEF Following, Serving, node
      <4>2. CASE CheckReads
        <5>1. check' # "none"
          BY <4>2 DEF CheckReads, Ping, Bounds, LastRun
        <5> QED BY <2>1, <5>1 DEF Following, Serving, node
      <4> QED BY <3>1, <4>1, <4>2
    <3> QED BY <2>1, <3>1, <3>2, CalmProbe
  <2> QED BY <2>2, <2>3
<1>5. CASE Second
  BY <1>0, <1>5, CalmSecond
<1>6. CASE Exited \/ UNCHANGED all
  <2>1. /\ UNCHANGED health /\ UNCHANGED <<pc, job, spent, since>> /\ UNCHANGED column
        /\ Following' <=> Following
    BY <1>6 DEF Exited, all, scheduler, health, served, probe, node, Following, Serving
  <2>2. calm => CalmAges'
    BY <2>1 DEF CalmInv, CalmAges, Younger
  <2> QED BY <2>1, <2>2, CalmStands
<1> QED BY <1>1, <1>2, <1>3, <1>4, <1>5, <1>6 DEF Next

\* With every stream published after the last trouble and nothing wrong since a check
\* began, the check does not answer that something is, whatever the intervals, the
\* length of a job within its bound, and the way jobs, seconds and statements fall.
THEOREM NeverAFalseAlarm == Spec => NoFalseAlarm
<1> DEFINE Quiet == answer # "not_ok" /\ answer' = "not_ok" => ~clear
<1>1. Init => CalmInv
  <2> SUFFICES ASSUME Init PROVE CalmInv
    OBVIOUS
  <2>1. pc = "loop" /\ point = 0 /\ ~calm /\ ~clear
    BY DEF Init, SchedulerInit, HealthInit
  <2> QED BY <2>1 DEF CalmInv, PointAge, SeenWell
<1>2. LoopInv /\ EndInv /\ HealthTypeOK /\ CalmInv /\ [Next]_all => Quiet
  <2> SUFFICES ASSUME LoopInv, EndInv, HealthTypeOK, CalmInv, [Next]_all,
                      answer # "not_ok", answer' = "not_ok", clear
               PROVE  FALSE
    OBVIOUS
  <2>1. Following /\ (Metrics(running) \/ Unreachable(running))
    BY WhoAnswers DEF Ask, CheckEnds
  <2>2. calm /\ AllWell /\ running
    BY <2>1, ServingRuns DEF CalmInv, SeenWell, CalmWell
  <2>3. Metrics(running)
    BY <2>1, <2>2 DEF Unreachable, AllWell
  <2>4. seen.fresh /\ ~seen.refused
    BY <2>3 DEF Metrics, CalmInv, SeenWell
  <2>5. MetricsFresh
    <3>1. ServedTypes
      BY TypesOfHealth
    <3>2. \A s \in Streams : column[s] <= MaxGridLag /\ column[s] \in Nat
      BY <2>2, <3>1, CalmIsYoung, ServedNumbers
    <3> QED BY <3>2, HealthConstants, HealthAssumption DEF MetricsFresh
  <2>6. Ok(TRUE, seen.fresh, seen.refused, running)
    BY <2>2, <2>4, <2>5 DEF Ok, AllWell, StreamFresh
  <2> QED BY <2>3, <2>6 DEF Metrics, Answered
<1>3. UNCHANGED all => UNCHANGED <<scheduler, health>>
  BY DEF all
<1> HIDE DEF Quiet
<1>4. Spec => [][Quiet]_<<scheduler, health>>
  BY <1>1, <1>2, CalmNext, ProcessInductive, PTL DEF Spec
<1> QED BY <1>4 DEF NoFalseAlarm, Quiet

=============================================================================
