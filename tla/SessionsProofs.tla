--------------------------- MODULE SessionsProofs ---------------------------
(***************************************************************************)
(* What stream_runs says about time is true for every back-off, length of  *)
(* the clock and fault: a finished row claims only seconds in which the    *)
(* stream was connected, and no second is claimed by two rows.             *)
(*                                                                         *)
(* Neither is inductive.  A finished row is true because the row in hand   *)
(* has been attended ever since it was opened; two rows do not overlap     *)
(* because a row that is open, and not forgotten, is the last one, and the *)
(* next session cannot start before it is closed: by its own process, or   *)
(* by the start of the next one.  From both, /coverage adds up no second   *)
(* twice and none that was not attended.                                   *)
(*                                                                         *)
(* The back-off is at least twice what it was at the last failure, or the   *)
(* longest there is, and a sleep is not over before it has lasted that long.*)
(***************************************************************************)
EXTENDS Sessions, FiniteSetTheorems, TLAPS

Row == [connected_at : Nat, disconnected_at : Nat \cup {Never},
        reason : {"none", "closed", "orphan_closed_on_startup"}]

TableOK == now \in Nat /\ rows \in Seq(Row) /\ run_id \in DOMAIN rows \cup {Never}

\* The stamps of a row are past and in order, and it has a reason once it is closed.
Stamped(row, n) ==
    /\ row.connected_at <= n
    /\ row.disconnected_at # Never =>
          row.connected_at <= row.disconnected_at /\ row.disconnected_at <= n
    /\ row.disconnected_at = Never <=> row.reason = "none"
StampsArePast == \A i \in DOMAIN rows : Stamped(rows[i], now)

\* The row in hand is the last, is open, and has been attended since it was opened.
HandIsHeld ==
    (run_id # Never /\ pc # "off") =>
        /\ pc = "session" \/ pc = "close"
        /\ connected /\ run_id = Len(rows) /\ rows[run_id].disconnected_at = Never
        /\ \A t \in Int : rows[run_id].connected_at <= t /\ t < now => t \in attended

OpensConnected == pc = "start_run" => connected
StopCloses == stopping => pc = "close" \/ pc = "off"

\* An open row is the last, in hand, or left by a process that is stopping or dead.
OpenIsLast ==
    \A i \in DOMAIN rows \ forgotten :
        rows[i].disconnected_at = Never => i = Len(rows) /\ (i = run_id \/ stopping \/ pc = "off")

\* A row ends before the next one begins.
ClosedInOrder ==
    \A i \in DOMAIN rows \ forgotten, j \in DOMAIN rows :
        i < j => rows[i].disconnected_at # Never /\ rows[i].disconnected_at <= rows[j].connected_at

RowInv == /\ TableOK /\ StampsArePast /\ HandIsHeld /\ OpensConnected /\ StopCloses
          /\ OpenIsLast /\ ClosedInOrder /\ FinishedRowsAreTrue

-----------------------------------------------------------------------------
(* The table *)

\* How a step may change the table: orphans are closed, a row is added, the row in
\* hand is closed; the clock does not go back, and stands still for a statement.
LEMMA TableSteps ==
    ASSUME TableOK, [Next]_vars
    PROVE  /\ \/ rows' = rows
              \/ Boot /\ rows' = CloseOrphans(rows)
              \/ pc = "start_run" /\ rows' = Append(rows, NewRow)
              \/ /\ pc = "close" /\ run_id # Never
                 /\ rows' = [rows EXCEPT ![run_id] = Ended(@, "closed")]
           /\ now' = now \/ (Second /\ now' = now + 1 /\ rows' = rows)
<1>1. CASE Boot
  BY <1>1 DEF Boot
<1>2. CASE Connected \/ SessionEnds \/ Reopen \/ UNCHANGED vars
  BY <1>2 DEF Connected, SessionEnds, Reopen, vars
<1>3. CASE RunStarted \/ OpenFailed \/ Closed \/ Stop \/ Crash
  BY <1>3 DEF RunStarted, OpenFailed, Closed, Stop, Crash, Statement
<1>4. CASE Second
  BY <1>4 DEF Second
<1> QED BY <1>1, <1>2, <1>3, <1>4 DEF Next, Over

\* What becomes of each row.
LEMMA RowChanges ==
    ASSUME TableOK, [Next]_vars, NEW i \in DOMAIN rows'
    PROVE  \/ i \in DOMAIN rows /\ rows'[i] = rows[i]
           \/ /\ i \in DOMAIN rows /\ Boot /\ rows[i].disconnected_at = Never
              /\ rows'[i] = Ended(rows[i], "orphan_closed_on_startup")
           \/ i = Len(rows) + 1 /\ pc = "start_run" /\ rows'[i] = NewRow
           \/ i \in DOMAIN rows /\ i = run_id /\ pc = "close" /\ rows'[i] = Ended(rows[i], "closed")
<1>1. CASE rows' = rows
  BY <1>1
<1>2. CASE Boot /\ rows' = CloseOrphans(rows)
  BY <1>2 DEF CloseOrphans
<1>3. CASE pc = "start_run" /\ rows' = Append(rows, NewRow)
  BY <1>3 DEF TableOK
<1>4. CASE /\ pc = "close" /\ run_id # Never
           /\ rows' = [rows EXCEPT ![run_id] = Ended(@, "closed")]
  BY <1>4 DEF TableOK
<1> QED BY <1>1, <1>2, <1>3, <1>4, TableSteps

\* A row as it is opened, and as it is closed.
LEMMA EndedRow ==
    ASSUME TableOK, NEW row \in Row, NEW why \in {"closed", "orphan_closed_on_startup"}
    PROVE  /\ Ended(row, why) \in Row
           /\ Ended(row, why).connected_at = row.connected_at
           /\ Ended(row, why).disconnected_at = now
           /\ Ended(row, why).reason = why
<1>1. now \in Nat
  BY DEF TableOK
<1>2. row \in [connected_at : Nat, disconnected_at : Nat \cup {Never},
               reason : {"none", "closed", "orphan_closed_on_startup"}]
  BY DEF Row
<1>3. why = "closed" \/ why = "orphan_closed_on_startup"
  OBVIOUS
<1> HIDE DEF Never
<1>4. DOMAIN row = {"connected_at", "disconnected_at", "reason"}
  BY <1>2
<1>5. /\ Ended(row, why).connected_at = row.connected_at
      /\ Ended(row, why).disconnected_at = now
      /\ Ended(row, why).reason = why
  BY <1>4 DEF Ended
<1>6. Ended(row, why) \in Row
  BY <1>1, <1>2, <1>3 DEF Ended, Row
<1> QED BY <1>5, <1>6

\* No row disappears.
LEMMA RowsStay ==
    ASSUME TableOK, [Next]_vars
    PROVE  /\ DOMAIN rows \subseteq DOMAIN rows' /\ DOMAIN rows = 1..Len(rows)
           /\ DOMAIN rows' = 1..Len(rows') /\ Len(rows) \in Nat /\ Len(rows') \in Nat
           /\ Len(rows') = Len(rows) \/ (pc = "start_run" /\ Len(rows') = Len(rows) + 1)
           /\ rows' \in Seq(Row)
<1>1. CASE rows' = rows
  BY <1>1 DEF TableOK
<1>2. CASE rows' = CloseOrphans(rows)
  <2>1. /\ Len(rows) \in Nat /\ DOMAIN rows' = 1..Len(rows)
        /\ \A i \in 1..Len(rows) : rows'[i] \in Row
    BY <1>2, EndedRow DEF TableOK, CloseOrphans
  <2>2. rows' = [i \in 1..Len(rows) |-> rows'[i]]
    BY <1>2, <2>1 DEF CloseOrphans
  <2> QED BY <2>1, <2>2 DEF TableOK
<1>3. CASE pc = "start_run" /\ rows' = Append(rows, NewRow)
  <2>1. NewRow \in Row
    BY DEF TableOK, NewRow, Row
  <2> QED BY <1>3, <2>1 DEF TableOK
<1>4. CASE run_id # Never /\ rows' = [rows EXCEPT ![run_id] = Ended(@, "closed")]
  <2>1. Ended(rows[run_id], "closed") \in Row
    BY <1>4, EndedRow DEF TableOK
  <2> QED BY <1>4, <2>1 DEF TableOK
<1> QED BY <1>1, <1>2, <1>3, <1>4, TableSteps

\* The fields of a row, and of a new one.
LEMMA RowValues ==
    ASSUME TableOK
    PROVE  /\ NewRow.connected_at = now /\ NewRow.disconnected_at = Never /\ NewRow.reason = "none"
           /\ now # Never /\ now \in Int
           /\ \A i \in DOMAIN rows : /\ rows[i].connected_at \in Nat
                                    /\ rows[i].disconnected_at \in Int
                                    /\ rows[i] \in Row
<1>1. \A i \in DOMAIN rows : rows[i] \in Row
  BY DEF TableOK
<1> QED BY <1>1 DEF TableOK, NewRow, Never, Row
-----------------------------------------------------------------------------
(* The invariant is preserved *)

\* A row keeps its stamps, or is given the present.
LEMMA StampsKept ==
    ASSUME TableOK, StampsArePast, [Next]_vars
    PROVE  StampsArePast'
<1> SUFFICES ASSUME NEW i \in DOMAIN rows' PROVE Stamped(rows'[i], now')
  BY DEF StampsArePast, Stamped
<1>1. now \in Nat /\ (now' = now \/ now' = now + 1)
  BY TableSteps DEF TableOK
<1>2. \A k \in DOMAIN rows : Stamped(rows[k], now) /\ rows[k] \in Row
  BY RowValues DEF StampsArePast
<1>3. CASE i \in DOMAIN rows /\ rows'[i] = rows[i]
  <2>1. rows[i].connected_at \in Nat /\ rows[i].disconnected_at \in Int
    BY <1>3, RowValues
  <2> QED BY <1>1, <1>2, <1>3, <2>1 DEF Stamped
<1>4. CASE i = Len(rows) + 1 /\ rows'[i] = NewRow
  BY <1>1, <1>4, RowValues DEF Stamped
<1>5. CASE i \in DOMAIN rows /\ \E why \in {"closed", "orphan_closed_on_startup"} :
                                   rows'[i] = Ended(rows[i], why)
  <2>1. PICK why \in {"closed", "orphan_closed_on_startup"} : rows'[i] = Ended(rows[i], why)
    BY <1>5
  <2>2. /\ rows'[i].connected_at = rows[i].connected_at /\ rows'[i].disconnected_at = now
        /\ rows'[i].reason # "none"
    BY <1>2, <1>5, <2>1, EndedRow
  <2>3. rows[i].connected_at \in Nat /\ rows[i].connected_at <= now
    BY <1>2, <1>5, RowValues DEF Stamped
  <2> QED BY <1>1, <2>2, <2>3, RowValues DEF Stamped
<1> QED BY <1>3, <1>4, <1>5, RowChanges

\* What a process is at: the session it holds, or its end.
LEMMA PlacesKept ==
    ASSUME OpensConnected, StopCloses, [Next]_vars
    PROVE  OpensConnected' /\ StopCloses'
<1>1. CASE Boot \/ Connected \/ RunStarted \/ OpenFailed \/ SessionEnds
  BY <1>1 DEF OpensConnected, StopCloses, Boot, Connected, RunStarted, OpenFailed, SessionEnds
<1>2. CASE Closed \/ Reopen \/ Stop \/ Crash
  BY <1>2 DEF OpensConnected, StopCloses, Closed, Reopen, Stop, Crash
<1>3. CASE Second \/ UNCHANGED vars
  BY <1>3 DEF OpensConnected, StopCloses, Second, vars
<1> QED BY <1>1, <1>2, <1>3 DEF Next, Over

\* While a row is in hand every second that passes is attended.
LEMMA HandKept ==
    ASSUME RowInv, [Next]_vars
    PROVE  HandIsHeld' /\ run_id' \in DOMAIN rows' \cup {Never}
<1>a. TableOK /\ HandIsHeld /\ OpensConnected /\ StopCloses
  BY DEF RowInv
<1>b. Len(rows) \in Nat /\ DOMAIN rows = 1..Len(rows) /\ DOMAIN rows \subseteq DOMAIN rows'
  BY <1>a, RowsStay
<1>1. CASE Boot \/ Closed
  BY <1>1 DEF Boot, Closed, HandIsHeld
<1>2. CASE Stop \/ Crash
  <2>1. UNCHANGED <<run_id, now, connected, attended>> /\ pc # "off"
        /\ (pc' = "off" \/ (pc' = "close" /\ pc \notin {"close", "sleep"}))
        /\ (Statement \/ rows' = rows)
    BY <1>2 DEF Stop, Crash
  <2>2. run_id' \in DOMAIN rows' \cup {Never}
    BY <1>a, <1>b, <2>1 DEF TableOK
  <2>3. CASE pc' = "off"
    BY <2>2, <2>3 DEF HandIsHeld
  <2>4. CASE pc' = "close" /\ pc \notin {"close", "sleep"}
    <3>1. run_id # Never => pc = "session"
      BY <1>a, <2>1, <2>4 DEF HandIsHeld
    <3>2. run_id # Never => rows' = rows
      BY <2>1, <2>4, <3>1 DEF Statement
    <3> QED BY <1>a, <2>1, <2>2, <2>4, <3>2 DEF HandIsHeld
  <2> QED BY <2>1, <2>3, <2>4
<1>3. CASE RunStarted
  <2>1. /\ pc = "start_run" /\ rows' = Append(rows, NewRow) /\ run_id' = Len(rows) + 1
        /\ pc' = "session" /\ UNCHANGED <<now, connected, attended>>
    BY <1>3 DEF RunStarted, Statement
  <2>2. /\ Len(rows') = Len(rows) + 1 /\ run_id' \in DOMAIN rows' /\ rows'[run_id'] = NewRow
    BY <1>a, <2>1 DEF TableOK
  <2> QED BY <1>a, <2>1, <2>2, RowValues DEF HandIsHeld, OpensConnected
<1>4. CASE OpenFailed
  <2>1. pc = "connect" \/ pc = "start_run"
    BY <1>4 DEF OpenFailed
  <2>2. run_id' = Never
    BY <1>4, <1>a, <2>1 DEF OpenFailed, HandIsHeld
  <2> QED BY <2>2 DEF HandIsHeld
<1>5. CASE Connected \/ SessionEnds \/ Reopen \/ UNCHANGED vars
  <2>1. /\ UNCHANGED <<run_id, rows, now, attended>>
        /\ \/ pc = "connect" \/ pc = "sleep"
           \/ pc = "session" /\ pc' = "close" /\ connected' = connected
           \/ pc' = pc /\ connected' = connected
    BY <1>5 DEF Connected, SessionEnds, Reopen, vars
  <2> QED BY <1>a, <2>1 DEF HandIsHeld, TableOK
<1>6. CASE Second
  <2>1. /\ UNCHANGED <<run_id, rows, pc, connected>> /\ now' = now + 1
        /\ attended' = IF connected /\ pc # "off" THEN attended \cup {now} ELSE attended
    BY <1>6 DEF Second
  <2>2. run_id' \in DOMAIN rows' \cup {Never}
    BY <1>a, <2>1 DEF TableOK
  <2>3. ASSUME run_id # Never, pc # "off", NEW t \in Int,
               rows[run_id].connected_at <= t, t < now + 1
        PROVE  t \in attended'
    <3>1. t < now \/ t = now
      BY <1>a, <2>3 DEF TableOK
    <3> QED BY <1>a, <2>1, <2>3, <3>1 DEF HandIsHeld
  <2> QED BY <1>a, <2>1, <2>2, <2>3 DEF HandIsHeld
<1> QED BY <1>1, <1>2, <1>3, <1>4, <1>5, <1>6 DEF Next, Over

\* A row that finishes was in hand; no second leaves the attended ones.
LEMMA FinishedKept ==
    ASSUME RowInv, [Next]_vars
    PROVE  FinishedRowsAreTrue'
<1>a. TableOK /\ HandIsHeld /\ StampsArePast /\ FinishedRowsAreTrue
  BY DEF RowInv
<1> SUFFICES ASSUME NEW i \in DOMAIN rows', rows'[i].reason = "closed",
                    NEW t \in SecondsOf(rows[i])'
             PROVE  t \in attended'
  BY DEF FinishedRowsAreTrue
<1>1. attended \subseteq attended'
  <2>1. CASE Second
    BY <2>1 DEF Second
  <2>2. CASE ~Second
    BY <2>2 DEF Next, Boot, Connected, RunStarted, OpenFailed, SessionEnds, Closed, Reopen, Stop,
                Crash, Over, vars
  <2> QED BY <2>1, <2>2
<1>2. CASE i \in DOMAIN rows /\ rows'[i] = rows[i]
  <2>1. rows[i].disconnected_at # Never
    BY <1>a, <1>2 DEF StampsArePast, Stamped
  <2>2. t \in SecondsOf(rows[i])
    BY <1>2, <2>1 DEF SecondsOf, EndOf
  <2> QED BY <1>a, <1>1, <1>2, <2>2 DEF FinishedRowsAreTrue
<1>3. CASE i \in DOMAIN rows /\ i = run_id /\ pc = "close" /\ rows'[i] = Ended(rows[i], "closed")
  <2>1. /\ rows'[i].connected_at = rows[i].connected_at /\ rows'[i].disconnected_at = now
        /\ rows[i].connected_at \in Nat /\ now \in Int /\ now # Never
    BY <1>a, <1>3, EndedRow, RowValues
  <2>2. t \in rows[i].connected_at..(now - 1)
    BY <2>1 DEF SecondsOf, EndOf
  <2>3. t \in Int /\ rows[i].connected_at <= t /\ t < now
    BY <2>1, <2>2
  <2>4. run_id # Never
    BY <1>a, <1>3, RowsStay DEF Never
  <2> QED BY <1>a, <1>1, <1>3, <2>3, <2>4 DEF HandIsHeld
<1>4. CASE /\ i \in DOMAIN rows /\ Boot /\ rows[i].disconnected_at = Never
           /\ rows'[i] = Ended(rows[i], "orphan_closed_on_startup")
  BY <1>a, <1>4, EndedRow, RowValues
<1>5. CASE i = Len(rows) + 1 /\ pc = "start_run" /\ rows'[i] = NewRow
  BY <1>a, <1>5, RowValues
<1> QED BY <1>a, <1>2, <1>3, <1>4, <1>5, RowChanges

\* While a session opens no row is in hand, and the process neither stops nor is down.
LEMMA NothingInHand ==
    ASSUME RowInv, pc = "start_run"
    PROVE  /\ run_id = Never /\ ~stopping
           /\ \A i \in DOMAIN rows \ forgotten : rows[i].disconnected_at # Never
<1>1. run_id = Never /\ ~stopping
  BY DEF RowInv, HandIsHeld, StopCloses
<1>2. \A i \in DOMAIN rows : i # Never
  BY DEF RowInv, TableOK, Never
<1> QED BY <1>1, <1>2 DEF RowInv, OpenIsLast

\* The rows of statements that failed are not forgotten again.
LEMMA ForgottenStay ==
    ASSUME [Next]_vars
    PROVE  forgotten \subseteq forgotten'
BY DEF Next, Boot, Connected, RunStarted, OpenFailed, SessionEnds, Closed, Reopen, Stop, Crash,
       Second, Over, vars

\* A row that is left open is left by a session that lives, stops or died, or is forgotten.
LEMMA OpenKept ==
    ASSUME RowInv, [Next]_vars
    PROVE  OpenIsLast'
<1>a. TableOK /\ HandIsHeld /\ StopCloses /\ OpenIsLast
  BY DEF RowInv
<1>b. Len(rows) \in Nat /\ DOMAIN rows = 1..Len(rows)
  BY <1>a, RowsStay
<1> SUFFICES ASSUME NEW i \in DOMAIN rows', i \notin forgotten', rows'[i].disconnected_at = Never
             PROVE  i = Len(rows') /\ (i = run_id' \/ stopping' \/ pc' = "off")
  BY DEF OpenIsLast
<1>c. i \notin forgotten /\ i # Never
  BY <1>a, ForgottenStay, RowsStay DEF Never
<1>1. CASE i \in DOMAIN rows /\ rows'[i] = rows[i]
  <2>1. i = Len(rows) /\ (i = run_id \/ stopping \/ pc = "off")
    BY <1>a, <1>c, <1>1 DEF OpenIsLast
  <2>2. pc # "start_run"
    BY <1>c, <1>1, NothingInHand
  <2>3. i = Len(rows')
    BY <1>a, <2>1, <2>2, RowsStay
  <2>4. CASE Boot
    <3>1. rows[i].disconnected_at = Never /\ rows'[i] = Ended(rows[i], "orphan_closed_on_startup")
      BY <1>1, <2>4 DEF Boot, CloseOrphans
    <3> QED BY <1>a, <1>1, <3>1, EndedRow, RowValues
  <2>5. CASE Closed
    <3>1. pc = "close"
      BY <2>5 DEF Closed
    <3>2. CASE stopping
      BY <2>3, <2>5, <3>2 DEF Closed
    <3>3. CASE i = run_id
      <4>1. rows' = [rows EXCEPT ![run_id] = Ended(@, "closed")] \/ run_id \in forgotten'
        BY <1>c, <2>5, <3>1, <3>3 DEF Closed, Statement
      <4>2. rows' = [rows EXCEPT ![run_id] = Ended(@, "closed")]
        BY <3>3, <4>1
      <4>3. rows'[i] = Ended(rows[i], "closed")
        BY <1>1, <3>3, <4>2
      <4> QED BY <1>a, <1>1, <4>3, EndedRow, RowValues
    <3> QED BY <2>1, <3>1, <3>2, <3>3
  <2>6. CASE Connected \/ OpenFailed \/ SessionEnds \/ Reopen \/ Stop \/ Crash \/ Second
             \/ UNCHANGED vars
    BY <2>1, <2>3, <2>6 DEF Connected, OpenFailed, SessionEnds, Reopen, Stop, Crash, Second, vars
  <2>7. ~RunStarted
    BY <2>2 DEF RunStarted
  <2> QED BY <2>4, <2>5, <2>6, <2>7 DEF Next, Over
<1>2. CASE i = Len(rows) + 1 /\ pc = "start_run" /\ rows'[i] = NewRow
  <2>1. i = Len(rows')
    BY <1>a, <1>b, <1>2, RowsStay
  <2>2. CASE OpenFailed
    <3>1. rows' = rows \/ i \in forgotten'
      BY <1>2, <2>2 DEF OpenFailed
    <3> QED BY <1>b, <1>2, <3>1
  <2>3. CASE RunStarted \/ Stop \/ Crash
    BY <1>2, <2>1, <2>3 DEF RunStarted, Stop, Crash
  <2>4. CASE Second \/ UNCHANGED vars
    <3>1. DOMAIN rows' = DOMAIN rows
      BY <2>4 DEF Second, vars
    <3>2. i \in 1..Len(rows)
      BY <1>b, <3>1
    <3> QED BY <1>b, <1>2, <3>2
  <2> QED BY <1>2, <2>2, <2>3, <2>4
          DEF Next, Boot, Connected, SessionEnds, Closed, Reopen, Over
<1>3. CASE i \in DOMAIN rows /\ \E why \in {"closed", "orphan_closed_on_startup"} :
                                   rows'[i] = Ended(rows[i], why)
  BY <1>a, <1>3, EndedRow, RowValues
<1> QED BY <1>a, <1>1, <1>2, <1>3, RowChanges

\* The next session starts after all rows that are not forgotten have ended.
LEMMA OrderKept ==
    ASSUME RowInv, [Next]_vars
    PROVE  ClosedInOrder'
<1>a. TableOK /\ HandIsHeld /\ StampsArePast /\ ClosedInOrder
  BY DEF RowInv
<1>b. /\ Len(rows) \in Nat /\ Len(rows') \in Nat /\ DOMAIN rows = 1..Len(rows)
      /\ DOMAIN rows' = 1..Len(rows') /\ Len(rows') <= Len(rows) + 1
  BY <1>a, RowsStay
<1> SUFFICES ASSUME NEW i \in DOMAIN rows', i \notin forgotten', NEW j \in DOMAIN rows', i < j
             PROVE  /\ rows'[i].disconnected_at # Never
                    /\ rows'[i].disconnected_at <= rows'[j].connected_at
  BY DEF ClosedInOrder
<1>c. i \notin forgotten /\ i \in DOMAIN rows
  BY <1>b, ForgottenStay
<1>1. ASSUME rows[i].disconnected_at # Never PROVE rows'[i] = rows[i]
  <2>1. i # run_id \/ pc # "close"
    BY <1>a, <1>c, <1>1, RowsStay DEF HandIsHeld, Never
  <2> QED BY <1>a, <1>b, <1>c, <1>1, <2>1, RowChanges
<1>2. CASE j \in DOMAIN rows
  <2>1. rows[i].disconnected_at # Never /\ rows[i].disconnected_at <= rows[j].connected_at
    BY <1>a, <1>c, <1>2 DEF ClosedInOrder
  <2>2. rows'[j].connected_at = rows[j].connected_at
    BY <1>a, <1>b, <1>2, RowChanges, EndedRow, RowValues
  <2> QED BY <1>1, <2>1, <2>2
<1>3. CASE j \notin DOMAIN rows
  <2>1. pc = "start_run" /\ rows'[j] = NewRow
    BY <1>a, <1>3, RowChanges
  <2>2. rows[i].disconnected_at # Never
    BY <1>c, <2>1, NothingInHand
  <2>3. rows[i].disconnected_at <= now /\ NewRow.connected_at = now
    BY <1>a, <1>c, <2>2, RowValues DEF StampsArePast, Stamped
  <2> QED BY <1>1, <2>1, <2>2, <2>3
<1> QED BY <1>2, <1>3

\* RowInv is an invariant of the session loop.
THEOREM RowsInductive == Spec => []RowInv
<1>1. Init => RowInv
  BY DEF Init, RowInv, TableOK, StampsArePast, HandIsHeld, OpensConnected, StopCloses, OpenIsLast,
         ClosedInOrder, FinishedRowsAreTrue
<1>2. RowInv /\ [Next]_vars => RowInv'
  <2> SUFFICES ASSUME RowInv, [Next]_vars PROVE RowInv'
    OBVIOUS
  <2>a. TableOK /\ StampsArePast /\ OpensConnected /\ StopCloses
    BY DEF RowInv
  <2>1. TableOK'
    <3>1. now' \in Nat /\ rows' \in Seq(Row)
      BY <2>a, TableSteps, RowsStay DEF TableOK
    <3> QED BY <3>1, HandKept DEF TableOK
  <2>2. StampsArePast' /\ OpensConnected' /\ StopCloses'
    BY <2>a, StampsKept, PlacesKept
  <2>3. HandIsHeld' /\ FinishedRowsAreTrue'
    BY HandKept, FinishedKept
  <2>4. OpenIsLast' /\ ClosedInOrder'
    BY OpenKept, OrderKept
  <2> QED BY <2>1, <2>2, <2>3, <2>4 DEF RowInv
<1> QED BY <1>1, <1>2, PTL DEF Spec

\* A row that its own process closed claims only seconds in which the stream was
\* connected throughout, whatever crashed, failed or was stopped before and after it.
THEOREM FinishedRowsHold == Spec => []FinishedRowsAreTrue
<1>1. RowInv => FinishedRowsAreTrue
  BY DEF RowInv
<1> QED BY <1>1, RowsInductive, PTL

\* No second belongs to two sessions: crashes, restarts and the rows they leave open
\* included, but for the rows of statements that failed.
THEOREM RowsAreDisjoint == Spec => []RowsDoNotOverlap
<1>1. RowInv => RowsDoNotOverlap
  <2> SUFFICES ASSUME RowInv, NEW i \in DOMAIN rows \ forgotten, NEW j \in DOMAIN rows \ forgotten,
                      i < j
               PROVE  SecondsOf(rows[i]) \cap SecondsOf(rows[j]) = {}
    <3>1. DOMAIN rows \subseteq Int
      BY DEF RowInv, TableOK
    <3>2. \A i, j \in DOMAIN rows \ forgotten : i # j => i < j \/ j < i
      BY <3>1
    <3> QED BY <3>2 DEF RowsDoNotOverlap
  <2>1. /\ rows[i].disconnected_at # Never
        /\ rows[i].disconnected_at <= rows[j].connected_at
    BY DEF RowInv, ClosedInOrder
  <2>2. /\ rows[i].connected_at \in Int /\ rows[i].disconnected_at \in Int
        /\ rows[j].connected_at \in Int /\ rows[j].disconnected_at \in Int /\ now \in Int
    BY RowValues DEF RowInv
  <2>3. \A t \in SecondsOf(rows[i]) : t < rows[j].connected_at
    BY <2>1, <2>2 DEF SecondsOf, EndOf
  <2>4. \A t \in SecondsOf(rows[j]) : rows[j].connected_at <= t /\ t \in Int
    BY <2>2 DEF SecondsOf, EndOf
  <2> QED BY <2>2, <2>3, <2>4
<1> QED BY <1>1, RowsInductive, PTL

-----------------------------------------------------------------------------
(* What /coverage adds up *)

\* A row that is open, and not forgotten, has been attended since it was opened, by
\* the process that holds it or by one that was stopped before it could.
OpenIsAttended ==
    pc # "off" =>
        \A i \in DOMAIN rows \ forgotten : rows[i].disconnected_at = Never =>
            /\ connected
            /\ \A t \in Int : rows[i].connected_at <= t /\ t < now => t \in attended

\* What CoverageIsNotInflated takes beside RowsDoNotOverlap.
AttendedInv == RowInv /\ OpenIsAttended /\ IsFiniteSet(attended)

\* A session that ends leaves no row open, unless it is stopped or the statement fails.
LEMMA CloseClosesAll ==
    ASSUME RowInv, Closed, ~stopping, NEW i \in DOMAIN rows', i \notin forgotten'
    PROVE  rows'[i].disconnected_at # Never
<1>1. TableOK /\ HandIsHeld /\ OpenIsLast /\ pc = "close"
  BY DEF RowInv, Closed
<1>2. i \in DOMAIN rows /\ i \notin forgotten /\ [Next]_vars
  <2>1. [Next]_vars
    BY DEF Next
  <2>2. forgotten \subseteq forgotten'
    BY <2>1, ForgottenStay
  <2> QED BY <1>1, <2>1, <2>2, RowsStay
<1>3. CASE rows[i].disconnected_at # Never
  <2>1. rows'[i] = rows[i] \/ rows'[i] = Ended(rows[i], "closed")
    BY <1>1, <1>2, <1>3, RowChanges
  <2> QED BY <1>1, <1>2, <1>3, <2>1, EndedRow, RowValues
<1>4. CASE rows[i].disconnected_at = Never
  <2>1. i = run_id
    BY <1>1, <1>2, <1>4 DEF OpenIsLast
  <2>2. rows' = [rows EXCEPT ![run_id] = Ended(@, "closed")]
    BY <1>1, <1>2, <2>1, RowsStay DEF Closed, Statement, Never
  <2>3. rows'[i] = Ended(rows[i], "closed")
    BY <1>2, <2>1, <2>2
  <2> QED BY <1>1, <1>2, <2>3, EndedRow, RowValues
<1> QED BY <1>3, <1>4

\* A row stays attended while it is open: every second that passes is, while connected.
LEMMA AttendedKept ==
    ASSUME AttendedInv, [Next]_vars
    PROVE  OpenIsAttended' /\ IsFiniteSet(attended')
<1>a. RowInv /\ TableOK /\ OpenIsAttended /\ OpensConnected /\ IsFiniteSet(attended)
  BY DEF AttendedInv, RowInv
<1>1. IsFiniteSet(attended')
  <2>1. attended' = attended \/ attended' = attended \cup {now}
    BY DEF Next, Boot, Connected, RunStarted, OpenFailed, SessionEnds, Closed, Reopen, Stop,
           Crash, Second, Over, vars
  <2> QED BY <1>a, <2>1, FS_AddElement
<1>2. OpenIsAttended'
  <2> SUFFICES ASSUME pc' # "off", NEW i \in DOMAIN rows', i \notin forgotten',
                      rows'[i].disconnected_at = Never
               PROVE  /\ connected'
                      /\ \A t \in Int : rows'[i].connected_at <= t /\ t < now' => t \in attended'
    BY DEF OpenIsAttended
  <2>1. i \notin forgotten
    BY ForgottenStay
  <2>2. CASE i \in DOMAIN rows /\ rows'[i] = rows[i]
    <3>1. pc # "off" => /\ connected
                        /\ \A t \in Int : rows[i].connected_at <= t /\ t < now => t \in attended
      BY <1>a, <2>1, <2>2 DEF OpenIsAttended
    <3>2. CASE Boot
      <4>1. rows'[i] = Ended(rows[i], "orphan_closed_on_startup")
        BY <2>2, <3>2 DEF Boot, CloseOrphans
      <4> QED BY <1>a, <2>2, <4>1, EndedRow, RowValues
    <3>3. CASE Closed
      <4>1. stopping
        BY <1>a, <3>3, CloseClosesAll
      <4> QED BY <3>3, <4>1 DEF Closed
    <3>4. CASE Connected
      <4>1. pc # "off" /\ now' = now /\ attended' = attended /\ connected'
        BY <3>4 DEF Connected
      <4> QED BY <2>2, <3>1, <4>1
    <3>5. CASE RunStarted \/ OpenFailed \/ SessionEnds \/ Reopen \/ Stop \/ Crash \/ UNCHANGED vars
      <4>1. pc # "off" /\ now' = now /\ attended' = attended /\ connected' = connected
        BY <3>5 DEF RunStarted, OpenFailed, SessionEnds, Reopen, Stop, Crash, vars
      <4> QED BY <2>2, <3>1, <4>1
    <3>6. CASE Second
      <4>1. /\ pc # "off" /\ now' = now + 1 /\ connected' = connected
            /\ attended' = IF connected /\ pc # "off" THEN attended \cup {now} ELSE attended
        BY <3>6 DEF Second
      <4>2. connected /\ attended' = attended \cup {now}
        BY <3>1, <4>1
      <4>3. ASSUME NEW t \in Int, rows'[i].connected_at <= t, t < now + 1
            PROVE  t \in attended'
        <5>1. t < now \/ t = now
          BY <1>a, <4>3 DEF TableOK
        <5> QED BY <2>2, <3>1, <4>1, <4>2, <4>3, <5>1
      <4> QED BY <4>1, <4>2, <4>3
    <3> QED BY <3>2, <3>3, <3>4, <3>5, <3>6 DEF Next, Over
  <2>3. CASE i = Len(rows) + 1 /\ pc = "start_run" /\ rows'[i] = NewRow
    <3>1. connected /\ connected' = connected /\ now' = now
      <4>1. ~Closed /\ ~Boot /\ ~Connected /\ ~Second
        BY <2>3 DEF Closed, Boot, Connected, Second
      <4> QED BY <1>a, <2>3, <4>1
              DEF OpensConnected, Next, RunStarted, OpenFailed, SessionEnds, Reopen, Stop, Crash,
                  Over, vars
    <3>2. rows'[i].connected_at = now /\ now \in Int
      BY <1>a, <2>3, RowValues
    <3> QED BY <3>1, <3>2
  <2>4. CASE i \in DOMAIN rows /\ \E why \in {"closed", "orphan_closed_on_startup"} :
                                     rows'[i] = Ended(rows[i], why)
    BY <1>a, <2>4, EndedRow, RowValues
  <2> QED BY <1>a, <2>2, <2>3, <2>4, RowChanges
<1> QED BY <1>1, <1>2

\* AttendedInv is an invariant of the session loop.
THEOREM AttendedInductive == Spec => []AttendedInv
<1>1. Init => OpenIsAttended /\ IsFiniteSet(attended)
  BY FS_EmptySet DEF Init, OpenIsAttended
<1>2. AttendedInv /\ RowInv' /\ [Next]_vars => AttendedInv'
  <2>1. AttendedInv /\ [Next]_vars => OpenIsAttended' /\ IsFiniteSet(attended')
    BY AttendedKept
  <2> QED BY <2>1 DEF AttendedInv
<1>3. Init /\ RowInv => AttendedInv
  BY <1>1 DEF AttendedInv
<1> QED BY <1>2, <1>3, RowsInductive, PTL DEF Spec

\* While the node serves, and no row had to be closed for a dead process or was
\* forgotten, /coverage claims no more seconds than the stream was connected in:
\* every second it adds up is attended, and is of one row only.
THEOREM CoverageHolds == Spec => []CoverageIsNotInflated
<1>1. AttendedInv /\ RowsDoNotOverlap => CoverageIsNotInflated
  <2> SUFFICES ASSUME AttendedInv, RowsDoNotOverlap, pc # "off", forgotten = {},
                      \A i \in DOMAIN rows : rows[i].reason # "orphan_closed_on_startup"
               PROVE  ConnectedSeconds <= Cardinality(attended)
    BY DEF CoverageIsNotInflated
  <2> DEFINE all == UNION {{i} \X SecondsOf(rows[i]) : i \in DOMAIN rows}
             second == [e \in all |-> e[2]]
  <2>1. \A e \in all : /\ e[1] \in DOMAIN rows /\ e[2] \in SecondsOf(rows[e[1]])
                       /\ e = <<e[1], e[2]>>
    OBVIOUS
  <2>2. ASSUME NEW i \in DOMAIN rows
        PROVE  SecondsOf(rows[i]) \subseteq attended
    <3>1. TableOK /\ StampsArePast /\ FinishedRowsAreTrue /\ OpenIsAttended
      BY DEF AttendedInv, RowInv
    <3>2. rows[i] \in Row /\ Stamped(rows[i], now)
      BY <3>1, RowValues DEF StampsArePast
    <3>3. CASE rows[i].reason = "closed"
      BY <3>1, <3>3 DEF FinishedRowsAreTrue
    <3>4. CASE rows[i].reason = "none"
      <4>1. rows[i].disconnected_at = Never
        BY <3>2, <3>4 DEF Stamped
      <4>2. SecondsOf(rows[i]) = rows[i].connected_at..(now - 1)
        BY <4>1 DEF SecondsOf, EndOf
      <4>3. \A t \in Int : rows[i].connected_at <= t /\ t < now => t \in attended
        BY <3>1, <4>1 DEF OpenIsAttended
      <4>4. rows[i].connected_at \in Int /\ now \in Int
        BY <3>1, RowValues
      <4> QED BY <4>2, <4>3, <4>4
    <3> QED BY <3>2, <3>3, <3>4 DEF Row
  <2>3. \A e, f \in all : e[2] = f[2] => e = f
    <3> SUFFICES ASSUME NEW e \in all, NEW f \in all, e[2] = f[2] PROVE e = f
      OBVIOUS
    <3>1. e[1] = f[1]
      <4> HIDE DEF all
      <4> QED BY <2>1 DEF RowsDoNotOverlap
    <3> HIDE DEF all
    <3> QED BY <2>1, <3>1
  <2>4. second \in Injection(all, attended)
    <3>1. second \in [all -> attended]
      <4> HIDE DEF all
      <4> QED BY <2>1, <2>2
    <3> HIDE DEF all
    <3> QED BY <2>3, <3>1 DEF Injection, IsInjective
  <2>5. Cardinality(all) <= Cardinality(attended)
    <3> HIDE DEF all, second
    <3> QED BY <2>4, FS_Injection DEF AttendedInv
  <2> QED BY <2>5 DEF ConnectedSeconds
<1> QED BY <1>1, AttendedInductive, RowsAreDisjoint, PTL

-----------------------------------------------------------------------------
(* The back-off *)

\* 2^n is the number of subsets of a set of n: the provers know no more of it.
LEMMA SubsetsOf ==
    ASSUME NEW n \in Nat
    PROVE  /\ IsFiniteSet(SUBSET (1..n)) /\ Cardinality(SUBSET (1..n)) = 2 ^ n
           /\ 2 ^ n \in Nat
<1>1. IsFiniteSet(1..n) /\ Cardinality(1..n) = n
  BY FS_Interval
<1>2. IsFiniteSet(SUBSET (1..n)) /\ Cardinality(SUBSET (1..n)) = 2 ^ Cardinality(1..n)
  BY <1>1, FS_SUBSET
<1> QED BY <1>1, <1>2, FS_CardinalityType

\* Half of the subsets of 1..n+1 have n + 1.
LEMMA PowerDoubles ==
    ASSUME NEW n \in Nat
    PROVE  2 ^ (n + 1) = 2 * 2 ^ n
<1> DEFINE A == SUBSET (1..n)
           All == SUBSET (1..(n + 1))
           B == {s \in All : n + 1 \in s}
           f == [s \in A |-> s \cup {n + 1}]
<1>1. /\ IsFiniteSet(A) /\ Cardinality(A) = 2 ^ n /\ 2 ^ n \in Nat
      /\ IsFiniteSet(All) /\ Cardinality(All) = 2 ^ (n + 1) /\ 2 ^ (n + 1) \in Nat
  <2>1. n + 1 \in Nat
    OBVIOUS
  <2> QED BY <2>1, SubsetsOf
<1>2. 1..(n + 1) = (1..n) \cup {n + 1} /\ n + 1 \notin 1..n
  OBVIOUS
<1>3. All = A \cup B /\ A \cap B = {}
  <2>1. \A s : s \in A <=> s \in All /\ n + 1 \notin s
    BY <1>2
  <2> HIDE DEF A, All
  <2> QED BY <2>1
<1>4. f \in Bijection(A, B)
  <2>1. \A s \in A : f[s] \in B /\ f[s] \ {n + 1} = s
    BY <1>2
  <2>2. \A t \in B : t \ {n + 1} \in A /\ f[t \ {n + 1}] = t
    BY <1>2
  <2>3. f \in [A -> B]
    <3>1. f = [s \in A |-> f[s]]
      OBVIOUS
    <3> HIDE DEF f, A, B
    <3> QED BY <2>1, <3>1
  <2>4. \A r, s \in A : f[r] = f[s] => r = s
    <3> HIDE DEF f, A, B
    <3> QED BY <2>1
  <2>5. \A t \in B : \E s \in A : f[s] = t
    <3> HIDE DEF f, A, B
    <3> QED BY <2>2
  <2> HIDE DEF f, A, B
  <2>6. f \in Injection(A, B)
    BY <2>3, <2>4 DEF Injection, IsInjective
  <2>7. f \in Surjection(A, B)
    BY <2>3, <2>5 DEF Surjection
  <2> QED BY <2>6, <2>7 DEF Bijection
<1> HIDE DEF A, B, All, f
<1>5. IsFiniteSet(B) /\ Cardinality(B) = Cardinality(A)
  BY <1>1, <1>4, FS_Bijection DEF ExistsBijection
<1>6. Cardinality(A \cup B) = Cardinality(A) + Cardinality(B) - Cardinality(A \cap B)
  BY <1>1, <1>5, FS_Union
<1>7. Cardinality(A \cap B) = 0
  BY <1>3, FS_EmptySet
<1> QED BY <1>1, <1>3, <1>5, <1>6, <1>7

\* The least the back-off is after n failures, the longest delay permitting.
Due(n) == Least(ReconnectMax, ReconnectMin * 2 ^ n)

\* It grows no faster than the back-off does.
LEMMA DueDoubles ==
    ASSUME NEW n \in Nat
    PROVE  /\ Due(n) \in Nat /\ Due(n) <= ReconnectMax /\ Due(n) <= Due(n + 1)
           /\ \A b \in Nat : b >= Due(n) => Least(2 * b, ReconnectMax) >= Due(n + 1)
<1> DEFINE d == ReconnectMin * 2 ^ n
           e == ReconnectMin * 2 ^ (n + 1)
<1>1. ReconnectMin \in Nat /\ ReconnectMax \in Nat
  BY SessionsAssumption
<1>2. d \in Nat /\ e = 2 * d
  <2> DEFINE p == 2 ^ n
             q == 2 ^ (n + 1)
  <2>1. p \in Nat /\ q = 2 * p
    BY SubsetsOf, PowerDoubles
  <2>2. ReconnectMin * p \in Nat /\ ReconnectMin * q = 2 * (ReconnectMin * p)
    <3> HIDE DEF p, q
    <3> QED BY <1>1, <2>1
  <2> QED BY <2>2
<1>3. Due(n) = Least(ReconnectMax, d) /\ Due(n + 1) = Least(ReconnectMax, e)
  BY DEF Due
<1> HIDE DEF d, e
<1> QED BY <1>1, <1>2, <1>3 DEF Least

\* The first delay.
LEMMA FirstDue ==
    /\ Due(0) = ReconnectMin /\ ReconnectMin \in Nat /\ ReconnectMax \in Nat
    /\ ReconnectMin <= ReconnectMax
<1>1. IsFiniteSet(SUBSET (1..0)) /\ Cardinality(SUBSET (1..0)) = 2 ^ 0
  BY SubsetsOf
<1>2. SUBSET (1..0) = {{}}
  OBVIOUS
<1>3. Cardinality({{}}) = 1
  BY FS_Singleton
<1>4. 2 ^ 0 = 1
  BY <1>1, <1>2, <1>3
<1> QED BY <1>4, SessionsAssumption DEF Due, Least

\* What RefusalsSpaceAttempts asks of a sleep.
Asked(r) == Due(IF r = 0 THEN 0 ELSE r - 1)

\* The back-off of the attempt under way, and what is left of a sleep.
BackoffGrows ==
    /\ backoff \in Nat /\ refusals \in Nat /\ slept \in Nat /\ remaining \in Nat
    /\ pc \in {"connect", "start_run"} => backoff >= Due(refusals)
    /\ pc # "off" => backoff >= Asked(refusals)
    /\ pc = "sleep" => slept + remaining >= backoff

\* A failure later as much is asked as the back-off is due now.
LEMMA AskedIsDue ==
    ASSUME NEW r \in Nat
    PROVE  /\ Asked(r) \in Nat /\ Due(r) \in Nat /\ Asked(r) <= Due(r) /\ Asked(r + 1) = Due(r)
           /\ \A b \in Nat : b >= Asked(r) => Least(2 * b, ReconnectMax) >= Due(r)
<1>1. Due(r) \in Nat /\ (r + 1) - 1 = r /\ r + 1 # 0
  BY DueDoubles
<1>2. Asked(r + 1) = Due(r)
  BY <1>1 DEF Asked
<1>3. CASE r = 0
  <2>1. Asked(r) = Due(0) /\ Due(r) = Due(0)
    BY <1>3 DEF Asked
  <2> QED BY <1>1, <1>2, <1>3, <2>1, FirstDue DEF Least
<1>4. CASE r # 0
  <2>1. r - 1 \in Nat /\ (r - 1) + 1 = r
    BY <1>4
  <2>2. Asked(r) = Due(r - 1)
    BY <1>4 DEF Asked
  <2>3. /\ Due(r - 1) \in Nat /\ Due(r - 1) <= Due(r)
        /\ \A b \in Nat : b >= Due(r - 1) => Least(2 * b, ReconnectMax) >= Due(r)
    BY <2>1, DueDoubles
  <2> QED BY <1>1, <1>2, <2>2, <2>3
<1> QED BY <1>3, <1>4

\* The back-off doubles with every failure, and a sleep counts down what it has left.
LEMMA GrowthKept ==
    ASSUME BackoffGrows, [Next]_vars
    PROVE  BackoffGrows'
<1>a. /\ backoff \in Nat /\ refusals \in Nat /\ slept \in Nat /\ remaining \in Nat
  BY DEF BackoffGrows
<1>b. /\ Asked(refusals) \in Nat /\ Due(refusals) \in Nat /\ Asked(refusals) <= Due(refusals)
      /\ Asked(refusals + 1) = Due(refusals)
      /\ \A b \in Nat : b >= Asked(refusals) => Least(2 * b, ReconnectMax) >= Due(refusals)
  BY <1>a, AskedIsDue
<1>c. /\ Asked(0) = ReconnectMin /\ Due(0) = ReconnectMin
      /\ ReconnectMin \in Nat /\ ReconnectMax \in Nat
  BY FirstDue DEF Asked
<1>d. /\ Due(refusals)' = Due(refusals') /\ Asked(refusals)' = Asked(refusals')
  BY DEF Due, Asked
<1>e. Delays \subseteq Nat /\ \A d \in Delays : d >= backoff
  BY <1>a DEF Delays
<1>1. CASE Boot \/ RunStarted
  <2>1. /\ backoff' = ReconnectMin /\ refusals' = 0 /\ slept' \in Nat /\ remaining' \in Nat
        /\ pc' # "sleep"
    BY <1>a, <1>1 DEF Boot, RunStarted
  <2>2. Due(refusals') = ReconnectMin /\ Asked(refusals') = ReconnectMin
    BY <1>c, <2>1
  <2>3. backoff' >= Due(refusals)' /\ backoff' >= Asked(refusals)'
    BY <1>c, <1>d, <2>1, <2>2
  <2> QED BY <1>c, <2>1, <2>3 DEF BackoffGrows
<1>2. CASE Connected \/ SessionEnds
  <2>1. /\ UNCHANGED <<backoff, refusals, slept, remaining>> /\ pc # "off" /\ pc' # "sleep"
        /\ pc' \in {"connect", "start_run"} => pc \in {"connect", "start_run"}
    BY <1>2 DEF Connected, SessionEnds
  <2> QED BY <2>1, <1>d DEF BackoffGrows
<1>3. CASE OpenFailed
  <2>1. /\ UNCHANGED <<backoff, slept, remaining>> /\ refusals' = refusals + 1
        /\ pc' = "close" /\ pc \in {"connect", "start_run"}
    BY <1>3 DEF OpenFailed
  <2>2. backoff >= Asked(refusals + 1)
    BY <1>b, <2>1 DEF BackoffGrows
  <2> QED BY <1>a, <1>d, <2>1, <2>2 DEF BackoffGrows
<1>4. CASE Closed
  <2>1. /\ UNCHANGED <<backoff, refusals>> /\ slept' = 0 /\ pc = "close"
        /\ \/ pc' = "off" /\ remaining' = 0
           \/ pc' = "sleep" /\ remaining' \in Delays
    BY <1>4 DEF Closed
  <2>2. remaining' \in Nat /\ (pc' = "sleep" => slept' + remaining' >= backoff)
    <3>1. CASE pc' = "off" /\ remaining' = 0
      BY <3>1
    <3>2. CASE remaining' \in Delays
      <4>1. remaining' \in Nat /\ remaining' >= backoff
        BY <1>e, <3>2
      <4>2. slept' = 0
        BY <2>1
      <4>3. \A m, b \in Nat : m >= b => 0 + m >= b
        OBVIOUS
      <4>4. slept' + remaining' >= backoff
        BY <1>a, <4>1, <4>2, <4>3
      <4> QED BY <4>1, <4>4
    <3> QED BY <2>1, <3>1, <3>2
  <2> QED BY <1>a, <1>d, <2>1, <2>2 DEF BackoffGrows
<1>5. CASE Reopen
  <2>1. /\ UNCHANGED <<refusals, slept, remaining>> /\ pc = "sleep" /\ pc' = "connect"
        /\ backoff' = Least(2 * backoff, ReconnectMax)
    BY <1>5 DEF Reopen, NextBackoff
  <2>2. backoff' \in Nat /\ backoff' >= Due(refusals)
    BY <1>a, <1>b, <1>c, <2>1 DEF BackoffGrows, Least
  <2> QED BY <1>a, <1>b, <1>d, <2>1, <2>2 DEF BackoffGrows
<1>6. CASE Stop \/ Crash \/ UNCHANGED vars
  <2>1. /\ UNCHANGED <<backoff, refusals, slept, remaining>>
        /\ pc' = pc \/ pc' = "off" \/ (pc # "off" /\ pc' = "close")
    BY <1>6 DEF Stop, Crash, vars
  <2> QED BY <2>1, <1>d DEF BackoffGrows
<1>7. CASE Second
  <2>1. /\ UNCHANGED <<backoff, refusals, pc>>
        /\ pc = "sleep" => remaining > 0 /\ remaining' = remaining - 1 /\ slept' = slept + 1
        /\ pc # "sleep" => UNCHANGED <<slept, remaining>>
    BY <1>7 DEF Second
  <2>2. /\ slept' \in Nat /\ remaining' \in Nat
        /\ slept' + remaining' = slept + remaining
    BY <1>a, <2>1
  <2> QED BY <1>a, <1>d, <2>1, <2>2 DEF BackoffGrows
<1> QED BY <1>1, <1>2, <1>3, <1>4, <1>5, <1>6, <1>7 DEF Next, Over

\* A venue that refuses is asked again after at least reconnect_min_seconds, twice as
\* long after each refusal, up to reconnect_max_seconds, whatever jitter is added.
THEOREM RefusalsAreSpaced == Spec => RefusalsSpaceAttempts
<1>1. Init => BackoffGrows
  BY FirstDue DEF Init, BackoffGrows
<1>2. BackoffGrows /\ [Next]_vars => BackoffGrows'
  BY GrowthKept
<1>3. BackoffGrows /\ [Next]_vars =>
        [pc = "sleep" /\ pc' = "connect"
          => slept >= Least(ReconnectMax,
                            ReconnectMin * 2 ^ (IF refusals = 0 THEN 0 ELSE refusals - 1))]_vars
  <2> SUFFICES ASSUME BackoffGrows, Next, pc = "sleep", pc' = "connect"
               PROVE  slept >= Asked(refusals)
    BY DEF Asked, Due
  <2>1. remaining = 0
    BY DEF Next, Boot, Connected, RunStarted, OpenFailed, SessionEnds, Closed, Reopen, Stop, Crash,
           Second, Over, vars
  <2>2. Asked(refusals) \in Nat
    BY AskedIsDue DEF BackoffGrows
  <2> QED BY <2>1, <2>2 DEF BackoffGrows
<1> QED BY <1>1, <1>2, <1>3, PTL DEF Spec, RefusalsSpaceAttempts

=============================================================================
