------------------------------ MODULE Delivery ------------------------------
(***************************************************************************)
(* The writer together with what it starts: the announce tasks of             *)
(* api/src/collectors/notify.py, one for each flush pass that wrote rows.  A   *)
(* task is one of DBWriter's notices until it returns; on its way it skips, or  *)
(* claims the interval and awaits its POST.  Tasks overlap with each other,     *)
(* with the flusher and with stop(), which waits for none of them.              *)
(* Times are counted back from the clock, up to the interval.                  *)
(***************************************************************************)
EXTENDS DBWriter

CONSTANTS
    Configured,     \* the three settings are there
    MinInterval     \* MIN_INTERVAL_S

ASSUME DeliveryAssumption == Configured \in BOOLEAN /\ MinInterval \in Nat \ {0}

VARIABLES
    posting,   \* notices that await their POST
    elapsed,   \* monotonic() - _last_sent
    silence    \* history: time since the last POST was sent

delivery == <<posting, elapsed, silence>>
all == <<vars, delivery>>

TooSoon == elapsed < MinInterval

\* A task that has not had its first turn.
Started == Yielded /\ posting < notices

-----------------------------------------------------------------------------

\* Not configured, or too soon since the last one.
Skip ==
    /\ Started /\ (Configured => TooSoon) /\ NoticeEnds
    /\ UNCHANGED delivery

\* Mutant: _last_sent is set once the warehouse has answered.
SendSetsTheClockLater ==
    /\ Started /\ Configured /\ ~TooSoon
    /\ posting' = posting + 1 /\ silence' = 0
    /\ UNCHANGED <<vars, elapsed>>

\* _last_sent is set before the POST is awaited.
Send ==
    /\ Started /\ Configured /\ ~TooSoon
    /\ posting' = posting + 1 /\ elapsed' = 0 /\ silence' = 0
    /\ UNCHANGED vars

\* Accepted, refused, unreachable or timed out: the caller ignores which.
PostEnds ==
    /\ posting > 0 /\ NoticeEnds
    /\ posting' = posting - 1
    /\ UNCHANGED <<elapsed, silence>>

Second ==
    /\ Yielded /\ elapsed + silence < 2 * MinInterval
    /\ elapsed' = Least(elapsed + 1, MinInterval)
    /\ silence' = Least(silence + 1, MinInterval)
    /\ UNCHANGED <<vars, posting>>

\* _last_sent is 0: the clock is past the interval when rows first land.
DeliveryInit == Init /\ posting = 0 /\ elapsed = MinInterval /\ silence = MinInterval

WriterStep ==
    \/ \E t \in Tables : Put(t)
    \/ TaskStep \/ CopyStep \/ Stop \/ TaskEnded \/ TaskCancelled \/ Stopped

DeliveryNext ==
    \/ WriterStep /\ UNCHANGED delivery
    \/ Skip \/ Send \/ PostEnds \/ Second

\* The writer's fairness; nothing is asked of the warehouse or the clock.
DeliverySpec == DeliveryInit /\ [][DeliveryNext]_all /\ Fairness

-----------------------------------------------------------------------------
(* What the announcements promise *)

\* "Never announce more often than this": however many passes land rows and however
\* long their POSTs take, two POSTs are MIN_INTERVAL_S apart.
PostsAreSpaced == [][posting' > posting => silence >= MinInterval]_all

=============================================================================
