------------------------ MODULE StreamCollectorProofs ------------------------
(***************************************************************************)
(* Theorems about StreamCollector, for every venue, history and bound, and *)
(* that it implements LiveBook.                                            *)
(*                                                                         *)
(* BookIsTheVenues is not inductive: a step applies a message taken from   *)
(* the wire or from the buffer, so the invariant says of each of them that *)
(* it is something the venue said, and of a finished fetch that its answer *)
(* is a real update id.                                                    *)
(***************************************************************************)
EXTENDS StreamCollector, FiniteSetTheorems, TLAPS

-----------------------------------------------------------------------------
(* Facts about the rules *)

\* There are finitely many levels, so those ahead of one can be counted.
LEMMA LevelFinite == IsFiniteSet(Level)
<1>1. IsFiniteSet({"bid", "ask"})
    <2>1. IsFiniteSet({"bid"})
        BY FS_Singleton
    <2>2. IsFiniteSet({"bid"} \cup {"ask"})
        BY <2>1, FS_AddElement
    <2>3. {"bid"} \cup {"ask"} = {"bid", "ask"}
        OBVIOUS
    <2> QED
        BY <2>2, <2>3
<1> QED
    BY <1>1, FS_Product, BoundAssumption DEF Level

\* A book that understates another has no more levels ahead of any.
LEMMA FewerAhead ==
    ASSUME NEW book, NEW u \in Ids, Understates(book, u), NEW l \in Level, NEW n \in Nat,
           Within(VenueBook[u], l, n)
    PROVE  Within(book, l, n)
<1> DEFINE ahead(b) == {m \in Level : Better(m, l) /\ b[m] > 0}
<1>1. ahead(book) \subseteq ahead(VenueBook[u])
    BY DEF Understates
<1>2. ahead(VenueBook[u]) \subseteq Level
    OBVIOUS
<1>3. IsFiniteSet(ahead(VenueBook[u]))
    BY <1>2, LevelFinite, FS_Subset
<1>4. IsFiniteSet(ahead(book)) /\ Cardinality(ahead(book)) <= Cardinality(ahead(VenueBook[u]))
    BY <1>1, <1>3, FS_Subset
<1>5. Cardinality(ahead(book)) \in Nat /\ Cardinality(ahead(VenueBook[u])) \in Nat
    BY <1>3, <1>4, FS_CardinalityType
<1>6. n = 0 \/ Cardinality(ahead(VenueBook[u])) < n
    BY DEF Within
<1>7. n = 0 \/ Cardinality(ahead(book)) < n
    <2> HIDE DEF ahead
    <2> QED
        BY <1>4, <1>5, <1>6
<1> QED
    BY <1>7 DEF Within

\* Cutting a book that tells the venue's leaves one that tells its n best.
LEMMA LadderTells ==
    ASSUME NEW book, NEW a, NEW u \in Ids, NEW n \in Nat, Tells(book, a, u, 0)
    PROVE  Tells(Ladder(book, n), a, u, n)
<1>1. Understates(book, u) /\ \A l \in KnownLevels(a, u) : book[l] = VenueBook[u][l]
    BY DEF Tells, Within
<1>2. Understates(Ladder(book, n), u)
    BY <1>1 DEF Understates, Ladder
<1>3. ASSUME NEW l \in KnownLevels(a, u), Within(VenueBook[u], l, n)
      PROVE  Ladder(book, n)[l] = VenueBook[u][l]
    <2>1. l \in Level
        BY DEF KnownLevels, Changed
    <2>2. Within(book, l, n)
        BY <1>1, <1>3, <2>1, FewerAhead
    <2> QED
        BY <1>1, <2>1, <2>2 DEF Ladder
<1> QED
    BY <1>2, <1>3 DEF Tells

\* The part of a book near its touch is a book.
LEMMA LadderType == \A book \in Ladders, n \in Nat : Ladder(book, n) \in Ladders
BY DEF Ladder, Ladders

\* What OrderBook.reset makes of a snapshot: the venue's book, cut as the snapshot is.
LEMMA ResetIsTheSnapshot ==
    ASSUME NEW id \in Ids
    PROVE  /\ Reset(SnapshotLevels(id)) = Ladder(VenueBook[id], SnapshotDepth)
           /\ SnapshotDepth \in Nat
<1>1. VenueBook[id] \in Ladders
    BY HistoryAssumption DEF Ids
<1>2. SnapshotDepth \in Nat
    BY LimitsAssumption DEF SnapshotDepth
<1> DEFINE listed == Ladder(VenueBook[id], SnapshotDepth)
<1>3. listed \in [Level -> Nat]
    BY <1>1, <1>2, LadderType DEF Ladders
<1> HIDE DEF listed
<1>4. SnapshotLevels(id) = [l \in Level |-> IF listed[l] > 0 THEN listed[l] ELSE Unsaid]
    BY DEF SnapshotLevels, listed
<1>5. \A l \in Level : listed[l] \in Nat
    BY <1>3
<1>6. \A l \in Level : (IF SnapshotLevels(id)[l] = Unsaid THEN 0 ELSE SnapshotLevels(id)[l])
                            = listed[l]
    BY <1>4, <1>5 DEF Unsaid
<1>7. listed = [l \in Level |-> listed[l]]
    BY <1>3
<1>8. Reset(SnapshotLevels(id)) = listed
    BY <1>3, <1>6 DEF Reset
<1> QED
    BY <1>2, <1>8 DEF listed

\* Such a book tells the venue's, as far as the snapshot reached.
LEMMA SnapshotTells ==
    ASSUME NEW id \in Ids
    PROVE  /\ Tells(Reset(SnapshotLevels(id)), id, id, 0)
           /\ Reset(SnapshotLevels(id)) \in Ladders
<1> DEFINE book == Ladder(VenueBook[id], SnapshotDepth)
<1>1. VenueBook[id] \in Ladders /\ SnapshotDepth \in Nat
    BY HistoryAssumption, ResetIsTheSnapshot DEF Ids
<1>2. Changed(id, id) = {}
    <2>1. id..id = {id}
        BY BoundAssumption DEF Ids
    <2> QED
        BY <2>1 DEF Changed
<1>3. \A l \in KnownLevels(id, id) : book[l] = VenueBook[id][l]
    BY <1>2 DEF KnownLevels, Ladder
<1>4. Understates(book, id)
    BY DEF Understates, Ladder
<1>5. book \in Ladders
    BY <1>1, LadderType
<1> QED
    BY <1>3, <1>4, <1>5, ResetIsTheSnapshot DEF Tells

\* Applying a diff that covers the book's id leaves a book that tells the venue's: a
\* level the diff does not list has not changed since the update the book is at.
LEMMA CoveredTells ==
    ASSUME NEW ev \in Event, NEW id \in Ids, NEW prev \in Ids, NEW a \in OptId, NEW book,
           ev \in DiffEvents(prev, ev.update_id), prev <= id, id <= ev.update_id,
           Tells(book, a, id, 0)
    PROVE  Tells(Apply(book, ev), a, ev.update_id, 0)
<1> DEFINE u == ev.update_id
<1>1. u \in Ids
    BY DEF Event
<1>2. VenueBook[u] \in [Level -> Nat]
    BY <1>1, HistoryAssumption DEF Ids, Ladders
<1>3. ev.levels = [l \in Level |-> IF l \in Changed(prev, u) THEN VenueBook[u][l] ELSE Unsaid]
    BY DEF DiffEvents
<1>4. /\ id \in prev..u /\ u \in prev..u /\ a \in Int
      /\ \A b \in a..u : b \in prev..u \/ b \in a..id
    BY <1>1, BoundAssumption DEF Ids, OptId, NoId
<1>5. /\ \A l \in Level : book[l] \in {0, VenueBook[id][l]}
      /\ \A l \in KnownLevels(a, id) : book[l] = VenueBook[id][l]
    BY DEF Tells, Understates, Within
<1>6. ASSUME NEW l \in Changed(prev, u)
      PROVE  Apply(book, ev)[l] = VenueBook[u][l]
    <2>1. l \in Level
        BY DEF Changed
    <2>2. VenueBook[u][l] # Unsaid
        BY <1>2, <2>1 DEF Unsaid
    <2> QED
        BY <1>3, <2>1, <2>2 DEF Apply
<1>7. ASSUME NEW l \in Level, l \notin Changed(prev, u)
      PROVE  /\ Apply(book, ev)[l] = book[l] /\ VenueBook[id][l] = VenueBook[u][l]
             /\ \A b \in prev..u : VenueBook[b][l] = VenueBook[u][l]
    <2>1. \A b \in prev..u : VenueBook[b][l] = VenueBook[u][l]
        BY <1>7 DEF Changed
    <2>2. Apply(book, ev)[l] = book[l]
        BY <1>3, <1>7 DEF Apply
    <2> QED
        BY <1>4, <2>1, <2>2
<1>8. Understates(Apply(book, ev), u)
    BY <1>5, <1>6, <1>7 DEF Understates
<1>9. ASSUME NEW l \in KnownLevels(a, u)
      PROVE  Apply(book, ev)[l] = VenueBook[u][l]
    <2>1. CASE l \in Changed(prev, u)
        BY <1>6, <2>1
    <2>2. CASE l \notin Changed(prev, u)
        <3>1. l \in Level
            BY DEF KnownLevels, Changed
        <3>2. l \in KnownLevels(a, id)
            <4>1. CASE l \in Changed(a, u)
                <5>1. PICK b \in a..u : VenueBook[b][l] # VenueBook[u][l]
                    BY <4>1 DEF Changed
                <5>2. b \in a..id /\ VenueBook[b][l] # VenueBook[id][l]
                    BY <1>4, <1>7, <2>2, <3>1, <5>1
                <5> QED
                    BY <3>1, <5>2 DEF KnownLevels, Changed
            <4>2. CASE l \notin Changed(a, u)
                BY <4>2 DEF KnownLevels
            <4> QED
                BY <4>1, <4>2
        <3> QED
            BY <1>5, <1>7, <2>2, <3>1, <3>2
    <2> QED
        BY <2>1, <2>2
<1> QED
    BY <1>8, <1>9 DEF Tells

\* The best bid and ask are one pair.
LEMMA OneBest ==
    ASSUME NEW book, NEW p \in Best(book), NEW q \in Best(book)
    PROVE  p[1] = q[1] /\ p[2] = q[2]
<1>1. /\ p[1] \in Bids(book) /\ p[2] \in Asks(book) /\ q[1] \in Bids(book) /\ q[2] \in Asks(book)
      /\ p[1] <= q[1] /\ q[1] <= p[1] /\ p[2] <= q[2] /\ q[2] <= p[2]
    BY DEF Best
<1>2. p[1] \in Prices /\ q[1] \in Prices /\ p[2] \in Prices /\ q[2] \in Prices
    BY <1>1 DEF Bids, Asks
<1>3. Prices \subseteq Nat
    BY BoundAssumption
<1>4. \A x, y \in Prices : x <= y /\ y <= x => x = y
    BY <1>3
<1> QED
    BY <1>1, <1>2, <1>4

\* The top of a book that tells the venue's is the venue's, where that is known.
LEMMA TopOfTold ==
    ASSUME NEW book \in Ladders, NEW a, NEW u \in Ids, Tells(book, a, u, 0)
    PROVE  TopTells(Top(book), a, u)
<1> DEFINE v == VenueBook[u]
<1>1. /\ \A l \in Level : book[l] \in {0, v[l]}
      /\ \A l \in KnownLevels(a, u) : book[l] = v[l]
    BY DEF Tells, Understates, Within
<1>2. v \in [Level -> Nat] /\ book \in [Level -> Nat]
    BY HistoryAssumption DEF Ids, Ladders
<1> HIDE DEF v
<1>3. \A p \in Prices : <<"bid", p>> \in Level /\ <<"ask", p>> \in Level
    BY DEF Level
<1>a. ASSUME NEW l \in Level, book[l] > 0 PROVE v[l] = book[l]
    BY <1>1, <1>2, <1>a
<1>b. \A p \in Prices : /\ book[<<"bid", p>>] > 0 => v[<<"bid", p>>] = book[<<"bid", p>>]
                        /\ book[<<"ask", p>>] > 0 => v[<<"ask", p>>] = book[<<"ask", p>>]
    BY <1>3, <1>a
<1>4. Bids(book) \subseteq Bids(v) /\ Asks(book) \subseteq Asks(v)
    BY <1>b DEF Bids, Asks
<1>5. ASSUME NEW t \in Top(book)
      PROVE  t[2] = v[<<"bid", t[1]>>] /\ t[4] = v[<<"ask", t[3]>>]
    <2>1. PICK p \in Best(book) :
              t = <<p[1], book[<<"bid", p[1]>>], p[2], book[<<"ask", p[2]>>]>>
        BY DEF Top
    <2>2. p[1] \in Bids(book) /\ p[2] \in Asks(book)
        BY DEF Best
    <2>3. /\ p[1] \in Prices /\ book[<<"bid", p[1]>>] > 0
          /\ p[2] \in Prices /\ book[<<"ask", p[2]>>] > 0
        BY <2>2 DEF Bids, Asks
    <2>4. t[1] = p[1] /\ t[2] = book[<<"bid", p[1]>>] /\ t[3] = p[2] /\ t[4] = book[<<"ask", p[2]>>]
        BY <2>1
    <2> QED
        BY <1>b, <2>3, <2>4
<1>6. ASSUME NEW p \in Best(v), <<"bid", p[1]>> \in KnownLevels(a, u),
             <<"ask", p[2]>> \in KnownLevels(a, u)
      PROVE  Top(book) = Top(v)
    <2>1. /\ p = <<p[1], p[2]>> /\ p[1] \in Bids(v) /\ p[2] \in Asks(v)
          /\ \A b \in Bids(v) : b <= p[1]
          /\ \A x \in Asks(v) : p[2] <= x
        BY DEF Best
    <2>2. /\ p[1] \in Prices /\ v[<<"bid", p[1]>>] > 0
          /\ p[2] \in Prices /\ v[<<"ask", p[2]>>] > 0
        BY <2>1 DEF Bids, Asks
    <2>3. book[<<"bid", p[1]>>] = v[<<"bid", p[1]>>] /\ book[<<"ask", p[2]>>] = v[<<"ask", p[2]>>]
        BY <1>1, <1>6
    <2>4. p[1] \in Bids(book) /\ p[2] \in Asks(book)
        BY <2>2, <2>3 DEF Bids, Asks
    <2>5. p \in Best(book)
        BY <1>4, <2>1, <2>4 DEF Best
    <2> DEFINE quote(b) == <<p[1], b[<<"bid", p[1]>>], p[2], b[<<"ask", p[2]>>]>>
    <2>6. Top(book) = {quote(book)}
        BY <2>5, OneBest DEF Top
    <2>7. Top(v) = {quote(v)}
        BY <1>6, OneBest DEF Top
    <2> QED
        BY <2>3, <2>6, <2>7
<1> QED
    BY <1>5, <1>6 DEF TopTells, v

\* Whatever a rule accepts joins on: the book's id lies inside the range the
\* diff covers.
LEMMA AcceptedCovers ==
    ASSUME NEW ev \in Event, NEW id \in Ids, NEW prev \in Ids, ev.kind = "diff",
           prev < ev.update_id, ev \in DiffEvents(prev, ev.update_id),
           FirstEventOk(ev, id) \/ NextEventOk(ev, id)
    PROVE  prev <= id /\ id <= ev.update_id
<1>1. PICK f \in DiffFirstIds(prev, ev.update_id) :
          ev.first_update_id = f /\ (Venue # "binance_spot" => ev.prev_update_id = prev)
    BY DEF DiffEvents
<1>2. ev.update_id \in Int /\ prev \in Int /\ id \in Int /\ id >= 0 /\ prev >= 0
    BY BoundAssumption DEF Event, Ids
<1>3. CASE Venue = "binance_spot"
    BY <1>1, <1>2, <1>3 DEF DiffFirstIds, FirstEventOk, NextEventOk
<1>4. CASE Venue = "binance_futures"
    <2>1. f \in prev + 1 .. ev.update_id
        BY <1>1, <1>4 DEF DiffFirstIds
    <2> QED
        BY <1>1, <1>2, <1>4, <2>1 DEF FirstEventOk, NextEventOk
<1>5. CASE Venue = "deribit"
    BY <1>1, <1>2, <1>5 DEF FirstEventOk, NextEventOk
<1> QED
    BY <1>3, <1>4, <1>5, VenueAssumption DEF Venues

\* What the venue sends is a message, and genuine.
LEMMA SnapshotIsGenuine ==
    ASSUME NEW id \in Ids
    PROVE  SnapshotEvent(id) \in GenuineSnapshots /\ SnapshotEvent(id) \in Event
           /\ SnapshotEvent(id).kind = "snapshot" /\ SnapshotEvent(id).update_id = id
           /\ SnapshotEvent(id).levels = SnapshotLevels(id)
<1>1. Ladder(VenueBook[id], SnapshotDepth) \in [Level -> Nat]
    BY HistoryAssumption, LadderType, ResetIsTheSnapshot DEF Ids, Ladders
<1>2. SnapshotLevels(id) \in Levels
    BY <1>1 DEF SnapshotLevels, Levels
<1> QED
    BY <1>2 DEF SnapshotEvent, GenuineSnapshots, Event, OptId

\* Every batch the venue may push is genuine, whatever it skipped before it.
LEMMA DiffIsGenuine ==
    ASSUME NEW prev \in Ids, NEW u \in Ids, prev < u, NEW ev \in DiffEvents(prev, u)
    PROVE  ev \in GenuineDiffs
<1>1. VenueBook[u] \in [Level -> Nat]
    BY HistoryAssumption DEF Ids, Ladders
<1>2. [l \in Level |-> IF l \in Changed(prev, u) THEN VenueBook[u][l] ELSE Unsaid] \in Levels
    BY <1>1 DEF Levels
<1>3. DiffFirstIds(prev, u) \subseteq OptId
    <2>1. CASE Venue = "binance_spot"
        BY <2>1, BoundAssumption DEF DiffFirstIds, OptId, Ids
    <2>2. CASE Venue = "binance_futures"
        <3>1. DiffFirstIds(prev, u) \subseteq prev + 1 .. u
            BY <2>2 DEF DiffFirstIds
        <3> QED
            BY <3>1, BoundAssumption DEF OptId, Ids
    <2>3. CASE Venue = "deribit"
        BY <2>3 DEF DiffFirstIds, OptId
    <2> QED
        BY <2>1, <2>2, <2>3, VenueAssumption DEF Venues
<1>4. ev \in Event /\ ev.kind = "diff" /\ ev.update_id = u
    BY <1>2, <1>3 DEF DiffEvents, Event, OptId
<1> QED
    BY <1>4 DEF GenuineDiffs

\* Ladders stay ladders.
LEMMA LaddersType ==
    /\ \A levels \in Levels : Reset(levels) \in Ladders
    /\ \A book \in Ladders, ev \in Event : Apply(book, ev) \in Ladders
    /\ \A book \in Ladders : Top(book) \in SUBSET (Prices \X Nat \X Prices \X Nat)
<1>1. ASSUME NEW levels \in Levels PROVE Reset(levels) \in Ladders
    BY <1>1 DEF Reset, Levels, Ladders, Unsaid
<1>2. ASSUME NEW book \in Ladders, NEW ev \in Event PROVE Apply(book, ev) \in Ladders
    BY <1>2 DEF Apply, Event, Levels, Ladders, Unsaid
<1>3. ASSUME NEW book \in Ladders
      PROVE  Top(book) \in SUBSET (Prices \X Nat \X Prices \X Nat)
    <2>1. \A p \in Prices : book[<<"bid", p>>] \in Nat /\ book[<<"ask", p>>] \in Nat
        BY <1>3 DEF Ladders, Level
    <2>2. ASSUME NEW t \in Top(book) PROVE t \in Prices \X Nat \X Prices \X Nat
        <3>1. PICK pair \in Best(book) :
                  t = <<pair[1], book[<<"bid", pair[1]>>], pair[2], book[<<"ask", pair[2]>>]>>
            BY DEF Top
        <3>2. pair[1] \in Prices /\ pair[2] \in Prices
            BY DEF Best, Bids, Asks
        <3> QED
            BY <2>1, <3>1, <3>2
    <2> QED
        BY <2>2
<1> QED
    BY <1>1, <1>2, <1>3

\* The rules and the ladders together: a diff that the code applies to a book that
\* tells the venue's leaves one that does.
LEMMA AcceptedTells ==
    ASSUME NEW ev \in GenuineDiffs, NEW id \in Ids, NEW a \in OptId, NEW book,
           FirstEventOk(ev, id) \/ NextEventOk(ev, id), Tells(book, a, id, 0)
    PROVE  Tells(Apply(book, ev), a, ev.update_id, 0) /\ id <= ev.update_id
<1>1. PICK prev \in Ids : prev < ev.update_id /\ ev \in DiffEvents(prev, ev.update_id)
    BY DEF GenuineDiffs
<1>2. ev \in Event /\ ev.kind = "diff"
    BY DEF GenuineDiffs
<1>3. prev <= id /\ id <= ev.update_id
    BY <1>1, <1>2, AcceptedCovers
<1> QED
    BY <1>1, <1>2, <1>3, CoveredTells

-----------------------------------------------------------------------------
(* The values of a state that satisfies the invariant *)

\* The rows of stream_runs stay rows.
LEMMA RunRowsType ==
    ASSUME IInv
    PROVE  /\ NewRun \in RunRow
           /\ \A r \in RunRow : UpdatedRow(r) \in RunRow /\ FinishedRow(r) \in RunRow
                                /\ OrphanRow(r) \in RunRow
<1> USE BoundAssumption
    DEF IInv, TypeOK, ControlTypeOK, SyncTypeOK, RowsTypeOK, RunRow, Reasons, OptId, Ids, NoId
<1>1. NewRun \in RunRow
    BY DEF NewRun
<1>2. BookIdOrNone \in OptId
    BY DEF BookIdOrNone
<1>3. ASSUME NEW r \in RunRow PROVE UpdatedRow(r) \in RunRow
    BY <1>2, <1>3 DEF UpdatedRow
<1>4. ASSUME NEW r \in RunRow PROVE FinishedRow(r) \in RunRow
    BY <1>2, <1>4 DEF FinishedRow
<1>5. ASSUME NEW r \in RunRow PROVE OrphanRow(r) \in RunRow
    BY <1>5 DEF OrphanRow
<1> QED
    BY <1>1, <1>3, <1>4, <1>5

\* Changing one element of a sequence leaves a sequence with the same indices.
LEMMA ExceptType ==
    ASSUME NEW S, NEW s \in Seq(S), NEW i, NEW e, i \in DOMAIN s => e \in S
    PROVE  /\ [s EXCEPT ![i] = e] \in Seq(S)
           /\ DOMAIN [s EXCEPT ![i] = e] = DOMAIN s
<1> DEFINE new == [s EXCEPT ![i] = e]
<1>1. new = [j \in 1..Len(s) |-> IF j = i THEN e ELSE s[j]]
    OBVIOUS
<1>2. \A j \in 1..Len(s) : new[j] \in S
    OBVIOUS
<1>3. new \in [1..Len(s) -> S]
    BY <1>1, <1>2
<1>4. new \in Seq(S) /\ DOMAIN new = 1..Len(s)
    BY <1>1, <1>3
<1> QED
    BY <1>4

\* Every statement about stream_runs leaves a table of rows.
LEMMA RunsType ==
    ASSUME IInv
    PROVE  /\ [runs EXCEPT ![run_id] = UpdatedRow(@)] \in Seq(RunRow)
           /\ DOMAIN [runs EXCEPT ![run_id] = UpdatedRow(@)] = DOMAIN runs
           /\ [runs EXCEPT ![run_id] = FinishedRow(@)] \in Seq(RunRow)
           /\ DOMAIN [runs EXCEPT ![run_id] = FinishedRow(@)] = DOMAIN runs
           /\ Append(runs, NewRun) \in Seq(RunRow)
           /\ Len(runs) + 1 \in DOMAIN Append(runs, NewRun)
           /\ DOMAIN runs \subseteq DOMAIN Append(runs, NewRun)
           /\ CloseOrphans(runs) \in Seq(RunRow)
<1>1. runs \in Seq(RunRow)
    BY DEF IInv, TypeOK, RunsTypeOK
<1>2. \A i \in DOMAIN runs : runs[i] \in RunRow
    BY <1>1
<1>3. \A i \in DOMAIN runs : UpdatedRow(runs[i]) \in RunRow /\ FinishedRow(runs[i]) \in RunRow
                             /\ OrphanRow(runs[i]) \in RunRow
    BY <1>2, RunRowsType
<1>4. /\ [runs EXCEPT ![run_id] = UpdatedRow(@)] \in Seq(RunRow)
      /\ DOMAIN [runs EXCEPT ![run_id] = UpdatedRow(@)] = DOMAIN runs
    BY <1>1, <1>3, ExceptType
<1>5. /\ [runs EXCEPT ![run_id] = FinishedRow(@)] \in Seq(RunRow)
      /\ DOMAIN [runs EXCEPT ![run_id] = FinishedRow(@)] = DOMAIN runs
    BY <1>1, <1>3, ExceptType
<1>6. /\ Append(runs, NewRun) \in Seq(RunRow)
      /\ Len(runs) + 1 \in DOMAIN Append(runs, NewRun)
      /\ DOMAIN runs \subseteq DOMAIN Append(runs, NewRun)
    BY <1>1, RunRowsType
<1>7. CloseOrphans(runs) \in Seq(RunRow)
    <2>1. \A i \in 1..Len(runs) :
              (IF runs[i].open THEN OrphanRow(runs[i]) ELSE runs[i]) \in RunRow
        BY <1>1, <1>2, <1>3
    <2> QED
        BY <1>1, <2>1 DEF CloseOrphans
<1> QED
    BY <1>4, <1>5, <1>6, <1>7

\* A snapshot row written from a book that tells the venue's is true.
LEMMA RecordedSnapshot ==
    ASSUME IInv, NEW book \in Ladders, NEW id \in Ids, NEW a \in OptId,
           Tells(book, a, id, 0), NEW why \in {"sync", "resync", "periodic"}
    PROVE  /\ Append(book_snapshots, SnapshotRow(id, book, why, a)) \in Seq(TrueSnapshots)
           /\ Append(book_snapshots, SnapshotRow(id, book, why, a)) \in Seq(BookSnapshot)
<1> DEFINE row == SnapshotRow(id, book, why, a)
<1>1. KeptLevels \in Nat
    BY LimitAssumption
<1>2. Ladder(book, KeptLevels) \in Ladders /\ Tells(Ladder(book, KeptLevels), a, id, KeptLevels)
    BY <1>1, LadderType, LadderTells
<1>3. row \in BookSnapshot
    BY <1>2 DEF SnapshotRow, BookSnapshot
<1>4. row \in TrueSnapshots
    BY <1>2, <1>3 DEF SnapshotRow, TrueSnapshots
<1> HIDE DEF row
<1>5. book_snapshots \in Seq(TrueSnapshots) /\ book_snapshots \in Seq(BookSnapshot)
    BY DEF IInv, TypeOK, RowsTypeOK, RowsAreTrue
<1> QED
    BY <1>3, <1>4, <1>5 DEF row

\* So is one the handler's end writes while the book is synced.
LEMMA PeriodicIsTrue ==
    ASSUME IInv, synced
    PROVE  Append(book_snapshots, SnapshotRow(update_id, ladders, "periodic", anchor))
                \in Seq(TrueSnapshots) \cap Seq(BookSnapshot)
<1>1. /\ Tells(ladders, anchor, update_id, 0)
      /\ ladders \in Ladders /\ update_id \in Ids /\ anchor \in OptId
    BY DEF IInv, TypeOK, SyncTypeOK, BookIsTheVenues
<1> QED
    BY <1>1, RecordedSnapshot

\* The book that answers a subscription may be put on the wire.
LEMMA SubscriptionType ==
    ASSUME IInv
    PROVE  /\ SnapshotEvent(pushed) \in GenuineMessages
           /\ SnapshotEvent(pushed) \in Event \cup Trade
           /\ (IF InBand THEN <<SnapshotEvent(pushed)>> ELSE <<>>) \in Seq(GenuineMessages)
           /\ (IF InBand THEN <<SnapshotEvent(pushed)>> ELSE <<>>) \in Seq(Event \cup Trade)
<1>1. pushed \in Ids
    BY BoundAssumption DEF IInv, TypeOK, VenueTypeOK, Ids
<1>2. SnapshotEvent(pushed) \in GenuineMessages /\ SnapshotEvent(pushed) \in Event \cup Trade
    BY <1>1, SnapshotIsGenuine DEF GenuineMessages
<1>3. <<SnapshotEvent(pushed)>> \in Seq(GenuineMessages) /\ <<>> \in Seq(GenuineMessages)
    BY <1>2
<1>4. <<SnapshotEvent(pushed)>> \in Seq(Event \cup Trade) /\ <<>> \in Seq(Event \cup Trade)
    BY <1>2
<1> QED
    BY <1>2, <1>3, <1>4

\* And so may a batch of updates.
LEMMA BatchType ==
    ASSUME IInv, pushed < venue_id, NEW ev \in DiffEvents(pushed, venue_id)
    PROVE  /\ Append(wire, ev) \in Seq(GenuineMessages)
           /\ Append(wire, ev) \in Seq(Event \cup Trade)
<1>1. pushed \in Ids /\ venue_id \in Ids
    BY BoundAssumption DEF IInv, TypeOK, VenueTypeOK, Ids
<1>2. ev \in GenuineDiffs
    BY <1>1, DiffIsGenuine
<1>3. ev \in GenuineMessages /\ ev \in Event \cup Trade
    BY <1>2 DEF GenuineMessages, GenuineDiffs
<1>4. wire \in Seq(GenuineMessages) /\ wire \in Seq(Event \cup Trade)
    BY DEF IInv, TypeOK, VenueTypeOK, MessagesAreGenuine
<1> QED
    BY <1>3, <1>4

\* The next message on the wire.
LEMMA HeadOfWire ==
    ASSUME IInv, wire # <<>>
    PROVE  /\ Head(wire) \in GenuineMessages /\ Head(wire) \in Event \cup Trade
           /\ Tail(wire) \in Seq(GenuineMessages) /\ Tail(wire) \in Seq(Event \cup Trade)
BY DEF IInv, TypeOK, VenueTypeOK, MessagesAreGenuine

\* The diff that _on_event is handed is one the venue sent.
LEMMA HeadDiff ==
    ASSUME IInv, wire # <<>>, Head(wire).kind = "diff"
    PROVE  /\ Head(wire) \in GenuineDiffs /\ Head(wire) \in Event /\ Head(wire).update_id \in Ids
           /\ Append(buffer, Head(wire)) \in Seq(GenuineDiffs)
           /\ Append(buffer, Head(wire)) \in Seq(Event)
           /\ Append(received, Head(wire).update_id) \in Seq(Ids)
<1>1. Head(wire) \in GenuineMessages
    BY HeadOfWire
<1>2. \A n \in Ids : SnapshotEvent(n).kind = "snapshot"
    BY DEF SnapshotEvent
<1>3. Head(wire) \in GenuineDiffs
    BY <1>1, <1>2 DEF GenuineMessages, GenuineSnapshots, Trade
<1>4. Head(wire) \in Event /\ Head(wire).update_id \in Ids
    BY <1>3 DEF GenuineDiffs, Event
<1> QED
    BY <1>3, <1>4 DEF IInv, TypeOK, SyncTypeOK, RowsTypeOK, MessagesAreGenuine

\* The in-band snapshot that _on_event is handed is one the venue sent.
LEMMA HeadSnapshot ==
    ASSUME IInv, wire # <<>>, Head(wire).kind = "snapshot"
    PROVE  /\ Head(wire) \in Event /\ Head(wire).update_id \in Ids
           /\ Head(wire).levels = SnapshotLevels(Head(wire).update_id)
           /\ Append(received, Head(wire).update_id) \in Seq(Ids)
<1>1. Head(wire) \in GenuineMessages
    BY HeadOfWire
<1>2. Head(wire) \in GenuineSnapshots
    BY <1>1 DEF GenuineMessages, GenuineDiffs, Trade
<1>3. PICK n \in Ids : Head(wire) = SnapshotEvent(n)
    BY <1>2 DEF GenuineSnapshots
<1>4. /\ Head(wire) \in Event /\ Head(wire).update_id = n
      /\ Head(wire).levels = SnapshotLevels(n)
    BY <1>3, SnapshotIsGenuine
<1> QED
    BY <1>4 DEF IInv, TypeOK, RowsTypeOK

\* What is written of a message without the book it leaves.
LEMMA RowOfAMessage ==
    ASSUME NEW ev \in Event
    PROVE  NotApplied(ev) \in BookEvent /\ NotApplied(ev) \in TrueEvents
<1>1. ev.update_id \in Ids /\ ev.first_update_id \in OptId /\ ev.prev_update_id \in OptId
      /\ ev.levels \in Levels
    BY DEF Event
<1>2. NotApplied(ev) \in BookEvent
    BY <1>1 DEF NotApplied, EventRow, BookEvent, OptId
<1>3. ~NotApplied(ev).applied
    BY DEF NotApplied, EventRow
<1> QED
    BY <1>2, <1>3 DEF TrueEvents

\* What is written of a message with it: a true top, if the book tells the venue's.
LEMMA RowOfABook ==
    ASSUME NEW ev \in Event, NEW book \in Ladders, NEW a \in OptId,
           Tells(book, a, ev.update_id, 0), NEW kind \in {"diff", "snapshot"}
    PROVE  /\ EventRow(ev, kind, TRUE, Top(book), a) \in BookEvent
           /\ EventRow(ev, kind, TRUE, Top(book), a) \in TrueEvents
<1> DEFINE top == Top(book)
<1>1. top \in SUBSET (Prices \X Nat \X Prices \X Nat)
    BY LaddersType
<1>2. ev.update_id \in Ids /\ ev.first_update_id \in OptId /\ ev.prev_update_id \in OptId
      /\ ev.levels \in Levels
    BY DEF Event
<1>3. TopTells(top, a, ev.update_id)
    BY <1>2, TopOfTold
<1> HIDE DEF top
<1>4. EventRow(ev, kind, TRUE, top, a) \in BookEvent
    BY <1>1, <1>2 DEF EventRow, BookEvent
<1>5. EventRow(ev, kind, TRUE, top, a) \in TrueEvents
    BY <1>3, <1>4 DEF EventRow, TrueEvents
<1> QED
    BY <1>4, <1>5 DEF top

\* Handing such a row over keeps the rows true.
LEMMA RecordedRows ==
    ASSUME IInv, NEW ev \in Event
    PROVE  /\ book_events \in Seq(BookEvent) /\ book_events \in Seq(TrueEvents)
           /\ Append(book_events, NotApplied(ev)) \in Seq(BookEvent)
           /\ Append(book_events, NotApplied(ev)) \in Seq(TrueEvents)
BY RowOfAMessage DEF IInv, TypeOK, RowsTypeOK, RowsAreTrue

\* A diff applied to a book that tells the venue's leaves such a book, and a true row.
LEMMA AppliedKeepsTelling ==
    ASSUME IInv, synced, NEW ev \in GenuineDiffs,
           FirstEventOk(ev, update_id) \/ NextEventOk(ev, update_id)
    PROVE  LET book == Apply(ladders, ev) IN
           /\ book \in Ladders /\ Tells(book, anchor, ev.update_id, 0)
           /\ Append(book_events, Applied(ev, book)) \in Seq(BookEvent)
           /\ Append(book_events, Applied(ev, book)) \in Seq(TrueEvents)
<1> DEFINE book == Apply(ladders, ev)
<1>1. /\ Tells(ladders, anchor, update_id, 0)
      /\ ladders \in Ladders /\ update_id \in Ids /\ anchor \in OptId
    BY DEF IInv, TypeOK, SyncTypeOK, BookIsTheVenues
<1>2. ev \in Event
    BY DEF GenuineDiffs
<1>3. book \in Ladders /\ Tells(book, anchor, ev.update_id, 0)
    BY <1>1, <1>2, AcceptedTells, LaddersType
<1>4. Applied(ev, book) \in BookEvent /\ Applied(ev, book) \in TrueEvents
    BY <1>1, <1>2, <1>3, RowOfABook DEF Applied
<1>5. book_events \in Seq(BookEvent) /\ book_events \in Seq(TrueEvents)
    BY DEF IInv, TypeOK, RowsTypeOK, RowsAreTrue
<1> HIDE DEF book
<1>6. /\ Append(book_events, Applied(ev, book)) \in Seq(BookEvent)
      /\ Append(book_events, Applied(ev, book)) \in Seq(TrueEvents)
    BY <1>4, <1>5
<1> QED
    BY <1>3, <1>6 DEF book

\* Adopting a snapshot leaves a book that tells the venue's, and two true rows.
LEMMA AdoptedTells ==
    ASSUME IInv, NEW ev \in Event, NEW why \in {"sync", "resync", "periodic"},
           ev.levels = SnapshotLevels(ev.update_id)
    PROVE  LET id == ev.update_id
               book == Reset(ev.levels)
           IN  /\ book \in Ladders /\ Tells(book, id, id, 0)
               /\ Append(book_events, Anchor(ev, book)) \in Seq(BookEvent)
               /\ Append(book_events, Anchor(ev, book)) \in Seq(TrueEvents)
               /\ Append(book_snapshots, SnapshotRow(id, book, why, id)) \in Seq(BookSnapshot)
               /\ Append(book_snapshots, SnapshotRow(id, book, why, id)) \in Seq(TrueSnapshots)
<1> DEFINE id == ev.update_id
           book == Reset(ev.levels)
<1>1. id \in Ids /\ id \in OptId
    BY DEF Event, OptId
<1>2. book \in Ladders /\ Tells(book, id, id, 0)
    BY <1>1, SnapshotTells
<1> HIDE DEF book
<1>3. Anchor(ev, book) \in BookEvent /\ Anchor(ev, book) \in TrueEvents
    BY <1>1, <1>2, RowOfABook DEF Anchor
<1>4. book_events \in Seq(BookEvent) /\ book_events \in Seq(TrueEvents)
    BY DEF IInv, TypeOK, RowsTypeOK, RowsAreTrue
<1>5. /\ Append(book_events, Anchor(ev, book)) \in Seq(BookEvent)
      /\ Append(book_events, Anchor(ev, book)) \in Seq(TrueEvents)
    BY <1>3, <1>4
<1>6. /\ Append(book_snapshots, SnapshotRow(id, book, why, id)) \in Seq(BookSnapshot)
      /\ Append(book_snapshots, SnapshotRow(id, book, why, id)) \in Seq(TrueSnapshots)
    BY <1>1, <1>2, RecordedSnapshot
<1> QED
    BY <1>2, <1>5, <1>6 DEF book

\* The next message of the replay.
LEMMA HeadOfReplay ==
    ASSUME IInv, replaying # <<>>
    PROVE  /\ Head(replaying) \in GenuineDiffs /\ Head(replaying) \in Event
           /\ Head(replaying).update_id \in Ids
           /\ Tail(replaying) \in Seq(GenuineDiffs) /\ Tail(replaying) \in Seq(Event)
           /\ Append(buffer, Head(replaying)) \in Seq(GenuineDiffs)
           /\ Append(buffer, Head(replaying)) \in Seq(Event)
<1>1. /\ Head(replaying) \in GenuineDiffs
      /\ Tail(replaying) \in Seq(GenuineDiffs) /\ Tail(replaying) \in Seq(Event)
    BY DEF IInv, TypeOK, SyncTypeOK, MessagesAreGenuine
<1>2. Head(replaying) \in Event /\ Head(replaying).update_id \in Ids
    BY <1>1 DEF GenuineDiffs, Event
<1> QED
    BY <1>1, <1>2 DEF IInv, TypeOK, SyncTypeOK, MessagesAreGenuine

\* A message that joins on during the replay passed a rule at the book's own id,
\* whether it is held against the snapshot or against the message before it.
LEMMA ReplayedIsAccepted ==
    ASSUME IInv, ReplayJoins
    PROVE  LET ev == Head(replaying)
           IN  ev \in GenuineDiffs /\ synced
               /\ (FirstEventOk(ev, update_id) \/ NextEventOk(ev, update_id))
<1> DEFINE ev == Head(replaying)
<1>1. ev \in GenuineDiffs /\ pc = "replay" /\ synced /\ ReplayOk(ev)
    BY HeadOfReplay DEF ReplayJoins, ReplayNext
<1>2. FirstEventOk(ev, update_id) \/ NextEventOk(ev, update_id)
    BY <1>1 DEF IInv, ReplayStartsAtAnchor, ReplayOk
<1> QED
    BY <1>1, <1>2

-----------------------------------------------------------------------------
(* The invariant is preserved, step by step *)

\* A process not yet started satisfies it.
LEMMA InitIInv == Init => IInv
<1> SUFFICES ASSUME Init PROVE IInv
    OBVIOUS
<1> USE BoundAssumption
<1>1. EmptyLadders \in Ladders
    BY DEF EmptyLadders, Ladders
<1>2. FlagsTypeOK
    BY Zenon DEF Init, FlagsTypeOK
<1>3. VenueTypeOK
    BY DEF Init, VenueTypeOK, Ids
<1>4. ControlTypeOK
    BY DEF Init, ControlTypeOK, PCs, Reasons
<1>5. SyncTypeOK
    BY <1>1 DEF Init, SyncTypeOK, Ids, OptId, NoTask, TaskStatus
<1>6. RowsTypeOK
    BY DEF Init, RowsTypeOK
<1>7. RunsTypeOK
    BY DEF Init, RunsTypeOK
<1>8. MessagesAreGenuine /\ ReplayStartsAtAnchor /\ BookIsTheVenues /\ RowsAreTrue
    BY DEF Init, MessagesAreGenuine, ReplayStartsAtAnchor, BookIsTheVenues, RowsAreTrue
<1> QED
    BY <1>2, <1>3, <1>4, <1>5, <1>6, <1>7, <1>8 DEF IInv, TypeOK

\* The flags are Boolean, apart: the steps below then take them as given.
LEMMA FlagsAreKept == FlagsTypeOK /\ [Next]_vars => FlagsTypeOK'
<1> SUFFICES ASSUME FlagsTypeOK, [Next]_vars PROVE FlagsTypeOK'
    OBVIOUS
<1> USE DEF FlagsTypeOK, venue, socket, control, ob, task, replay, counts, run
<1>1. CASE VenueStep
    <2>1. CASE VenueUpdate
        BY <2>1 DEF VenueUpdate
    <2>2. CASE VenuePush
        BY <2>2 DEF VenuePush
    <2>3. CASE VenueTrade
        BY <2>3 DEF VenueTrade
    <2> QED
        BY <1>1, <2>1, <2>2, <2>3 DEF VenueStep
<1>2. CASE FetchStep
    <2>1. CASE FetchServed
        BY <2>1 DEF FetchServed
    <2>2. CASE FetchFailed
        BY <2>2 DEF FetchFailed
    <2>3. CASE Unsubscribe
        BY <2>3 DEF Unsubscribe
    <2>4. CASE Resubscribe
        BY <2>4 DEF Resubscribe
    <2>5. CASE ResubscribeFailed
        BY <2>5 DEF ResubscribeFailed
    <2>6. CASE FetchAnswered
        BY <2>6 DEF FetchAnswered
    <2> QED
        BY <1>2, <2>1, <2>2, <2>3, <2>4, <2>5, <2>6 DEF FetchStep
<1>3. CASE OpenStep
    <2>1. CASE Start
        BY <2>1 DEF Start, OpenSession
    <2>2. CASE Connected
        BY <2>2 DEF Connected
    <2>3. CASE RunStarted
        BY <2>3 DEF RunStarted, StartSnapshotFetch
    <2>4. CASE OpenFailed
        BY <2>4 DEF OpenFailed, CloseSession
    <2>5. CASE Reconnect
        BY <2>5 DEF Reconnect, OpenSession
    <2> QED
        BY <1>3, <2>1, <2>2, <2>3, <2>4, <2>5 DEF OpenStep
<1>4. CASE CloseStep
    <2>1. CASE Disconnected
        BY <2>1 DEF Disconnected, CloseSession
    <2>2. CASE SourceClosed
        BY <2>2 DEF SourceClosed, AfterClose
    <2>3. CASE FinishRun
        BY <2>3 DEF FinishRun, AfterClose
    <2> QED
        BY <1>4, <2>1, <2>2, <2>3 DEF CloseStep
<1>5. CASE RecvStep
    <2>1. CASE RecvTrade
        BY <2>1 DEF RecvTrade, Receive
    <2>2. CASE RecvSnapshot
        BY <2>2 DEF RecvSnapshot, ReceiveDepth, Receive, Adopt
    <2>3. CASE RecvUnsynced
        BY <2>3 DEF RecvUnsynced, ReceiveDepth, Receive
    <2>4. CASE RecvFetchFailed
        BY <2>4 DEF RecvFetchFailed, ReceiveDepth, Receive
    <2>5. CASE RecvResyncSent
        BY <2>5 DEF RecvResyncSent, ReceiveDepth, Receive
    <2>6. CASE RecvFetchDone
        BY <2>6 DEF RecvFetchDone, ReceiveDepth, Receive, Adopt
    <2>7. CASE RecvApplied
        BY <2>7 DEF RecvApplied, ReceiveDepth, Receive, ApplyDiff
    <2>8. CASE RecvCrossed
        BY <2>8 DEF RecvCrossed, ReceiveDepth, Receive, ApplyDiff, Gap, StartSnapshotFetch
    <2>9. CASE RecvGap
        BY <2>9 DEF RecvGap, ReceiveDepth, Receive, Gap, StartSnapshotFetch
    <2> QED
        BY <1>5, <2>1, <2>2, <2>3, <2>4, <2>5, <2>6, <2>7, <2>8, <2>9 DEF RecvStep
<1>6. CASE ReplayStep
    <2>1. CASE ReplayDrop
        BY <2>1 DEF ReplayDrop, ReplayNext
    <2>2. CASE ReplayKeep
        BY <2>2 DEF ReplayKeep, ReplayNext
    <2>3. CASE ReplayApplied
        BY <2>3 DEF ReplayApplied, ReplayNext, ReplayJoins, ApplyDiff
    <2>4. CASE ReplayCrossed
        BY <2>4 DEF ReplayCrossed, ReplayNext, ReplayJoins, ApplyDiff, Gap, StartSnapshotFetch
    <2>5. CASE ReplayGap
        BY <2>5 DEF ReplayGap, ReplayNext, Gap, StartSnapshotFetch
    <2>6. CASE ReplayEnd
        BY <2>6 DEF ReplayEnd
    <2> QED
        BY <1>6, <2>1, <2>2, <2>3, <2>4, <2>5, <2>6 DEF ReplayStep
<1>7. CASE LoopStep
    <2>1. CASE EndOfMessage
        BY <2>1 DEF EndOfMessage
    <2>2. CASE RunUpdated
        BY <2>2 DEF RunUpdated
    <2> QED
        BY <1>7, <2>1, <2>2 DEF LoopStep
<1>8. CASE Stop
    BY <1>8 DEF Stop, CloseSession, vars
<1>9. CASE Crash
    BY <1>9 DEF Crash, vars
<1>10. CASE Ended
    BY <1>10 DEF Ended, vars
<1>11. CASE UNCHANGED vars
    BY <1>11 DEF vars
<1> QED
    BY <1>1, <1>2, <1>3, <1>4, <1>5, <1>6, <1>7, <1>8, <1>9, <1>10, <1>11 DEF Next

\* What the venue does keeps the invariant: what it sends is genuine.
LEMMA VenueKeeps == IInv /\ VenueStep /\ FlagsTypeOK' => IInv'
<1> SUFFICES ASSUME IInv, VenueStep, FlagsTypeOK' PROVE IInv'
    OBVIOUS
<1> USE BoundAssumption
    DEF IInv, TypeOK, VenueTypeOK, ControlTypeOK, SyncTypeOK, RowsTypeOK, RunsTypeOK,
        MessagesAreGenuine, ReplayStartsAtAnchor, BookIsTheVenues, RowsAreTrue,
        venue, socket, control, ob, task, replay, counts, run, Ids, OptId, NoId, PCs, Reasons,
        TaskStatus, NoTask, Started, Unsubscribed, Failed, Served, Done
<1>1. CASE VenueUpdate
    BY <1>1 DEF VenueUpdate
<1>2. CASE VenuePush
    <2>1. wire' \in Seq(GenuineMessages) /\ wire' \in Seq(Event \cup Trade)
        BY <1>2, BatchType DEF VenuePush
    <2> QED
        BY <1>2, <2>1 DEF VenuePush
<1>3. CASE VenueTrade
    BY <1>3 DEF VenueTrade, GenuineMessages, Trade
<1> QED
    BY <1>1, <1>2, <1>3 DEF VenueStep

\* The snapshot task, served, failed or resubscribed, keeps the invariant: a fetch
\* that is done holds the venue's update id, a subscription brings its book.
LEMMA FetchKeeps == IInv /\ FetchStep /\ FlagsTypeOK' => IInv'
<1> SUFFICES ASSUME IInv, FetchStep, FlagsTypeOK' PROVE IInv'
    OBVIOUS
<1> USE BoundAssumption
    DEF IInv, TypeOK, VenueTypeOK, ControlTypeOK, SyncTypeOK, RowsTypeOK, RunsTypeOK,
        MessagesAreGenuine, ReplayStartsAtAnchor, BookIsTheVenues, RowsAreTrue,
        venue, socket, control, ob, task, replay, counts, run, Ids, OptId, NoId, PCs, Reasons,
        TaskStatus, NoTask, Started, Unsubscribed, Failed, Served, Done
<1>1. CASE FetchServed
    BY <1>1 DEF FetchServed
<1>2. CASE FetchFailed
    BY <1>2 DEF FetchFailed
<1>3. CASE Unsubscribe
    BY <1>3 DEF Unsubscribe
<1>4. CASE Resubscribe
    <2>1. wire' \in Seq(GenuineMessages) /\ wire' \in Seq(Event \cup Trade)
        BY <1>4, SubscriptionType DEF Resubscribe
    <2> QED
        BY <1>4, <2>1 DEF Resubscribe
<1>5. CASE ResubscribeFailed
    BY <1>5 DEF ResubscribeFailed
<1>6. CASE FetchAnswered
    BY <1>6 DEF FetchAnswered
<1> QED
    BY <1>1, <1>2, <1>3, <1>4, <1>5, <1>6 DEF FetchStep

\* Starting, connecting and reconnecting keep it: no book is called synced.
LEMMA OpenKeeps == IInv /\ OpenStep /\ FlagsTypeOK' => IInv'
<1> SUFFICES ASSUME IInv, OpenStep, FlagsTypeOK' PROVE IInv'
    OBVIOUS
<1> USE BoundAssumption
    DEF IInv, TypeOK, VenueTypeOK, ControlTypeOK, SyncTypeOK, RowsTypeOK, RunsTypeOK,
        MessagesAreGenuine, ReplayStartsAtAnchor, BookIsTheVenues, RowsAreTrue,
        venue, socket, control, ob, task, replay, counts, run, Ids, OptId, NoId, PCs, Reasons,
        TaskStatus, NoTask, Started, Unsubscribed, Failed, Served, Done
<1>1. CASE Start
    <2>1. runs' \in Seq(RunRow)
        BY <1>1, RunsType DEF Start
    <2>2. EmptyLadders \in Ladders
        BY DEF EmptyLadders, Ladders
    <2>3. synced' = FALSE
        BY <1>1 DEF Start
    <2>4. VenueTypeOK' /\ ControlTypeOK' /\ SyncTypeOK'
        BY <1>1, <2>2 DEF Start, OpenSession
    <2>5. RowsTypeOK' /\ RunsTypeOK' /\ MessagesAreGenuine' /\ ReplayStartsAtAnchor' /\ RowsAreTrue'
        BY <1>1, <2>1 DEF Start, OpenSession
    <2> QED
        BY <2>3, <2>4, <2>5
<1>2. CASE Connected
    <2>1. wire' \in Seq(GenuineMessages) /\ wire' \in Seq(Event \cup Trade)
        BY <1>2, SubscriptionType DEF Connected
    <2> QED
        BY <1>2, <2>1 DEF Connected
<1>3. CASE RunStarted
    <2>1. runs' \in Seq(RunRow) /\ run_id' \in DOMAIN runs'
        BY <1>3, RunsType DEF RunStarted
    <2> QED
        BY <1>3, <2>1 DEF RunStarted, StartSnapshotFetch
<1>4. CASE OpenFailed
    <2>1. runs' = runs \/ runs' = Append(runs, NewRun)
        BY <1>4 DEF OpenFailed
    <2>2. runs' \in Seq(RunRow) /\ DOMAIN runs \subseteq DOMAIN runs'
        BY <2>1, RunsType
    <2> QED
        BY <1>4, <2>2 DEF OpenFailed, CloseSession
<1>5. CASE Reconnect
    <2>1. synced' = FALSE
        BY <1>5 DEF Reconnect
    <2>2. VenueTypeOK' /\ ControlTypeOK'
        BY <1>5 DEF Reconnect, OpenSession
    <2>3. SyncTypeOK' /\ RowsTypeOK' /\ RunsTypeOK'
        BY <1>5 DEF Reconnect, OpenSession
    <2>4. MessagesAreGenuine' /\ ReplayStartsAtAnchor' /\ RowsAreTrue'
        BY <1>5 DEF Reconnect, OpenSession
    <2> QED
        BY <2>1, <2>2, <2>3, <2>4
<1> QED
    BY <1>1, <1>2, <1>3, <1>4, <1>5 DEF OpenStep

\* So does the end of a session.
LEMMA CloseKeeps == IInv /\ CloseStep /\ FlagsTypeOK' => IInv'
<1> SUFFICES ASSUME IInv, CloseStep, FlagsTypeOK' PROVE IInv'
    OBVIOUS
<1> USE BoundAssumption
    DEF IInv, TypeOK, VenueTypeOK, ControlTypeOK, SyncTypeOK, RowsTypeOK, RunsTypeOK,
        MessagesAreGenuine, ReplayStartsAtAnchor, BookIsTheVenues, RowsAreTrue,
        venue, socket, control, ob, task, replay, counts, run, Ids, OptId, NoId, PCs, Reasons,
        TaskStatus, NoTask, Started, Unsubscribed, Failed, Served, Done
<1>1. CASE Disconnected
    <2>1. TypeOK'
        BY <1>1 DEF Disconnected, CloseSession
    <2>2. MessagesAreGenuine' /\ ReplayStartsAtAnchor' /\ BookIsTheVenues' /\ RowsAreTrue'
        BY <1>1 DEF Disconnected, CloseSession
    <2> QED
        BY <2>1, <2>2
<1>2. CASE SourceClosed
    BY <1>2 DEF SourceClosed, AfterClose
<1>3. CASE FinishRun
    <2>1. runs' \in Seq(RunRow) /\ DOMAIN runs' = DOMAIN runs
        BY <1>3, RunsType DEF FinishRun
    <2>2. reason' = reason /\ boots' = boots
        BY <1>3 DEF FinishRun
    <2>3. pc' \in {"done", "sleep"} /\ reconnects' \in {reconnects, reconnects + 1}
        BY <1>3 DEF FinishRun, AfterClose
    <2>4. RunsTypeOK' /\ ControlTypeOK'
        <3>1. run_id' = NoId
            BY <1>3 DEF FinishRun
        <3>2. RunsTypeOK'
            BY <2>1, <3>1
        <3>3. ControlTypeOK'
            BY <2>2, <2>3
        <3> QED
            BY <3>2, <3>3
    <2>5. VenueTypeOK' /\ SyncTypeOK' /\ RowsTypeOK'
        BY <1>3 DEF FinishRun
    <2>6. MessagesAreGenuine' /\ ReplayStartsAtAnchor' /\ BookIsTheVenues' /\ RowsAreTrue'
        BY <1>3, <2>3 DEF FinishRun
    <2> QED
        BY <2>4, <2>5, <2>6
<1> QED
    BY <1>1, <1>2, <1>3 DEF CloseStep

\* So does every message handled, the snapshot adopted with it included.
LEMMA RecvKeeps == IInv /\ RecvStep /\ FlagsTypeOK' => IInv'
<1> SUFFICES ASSUME IInv, RecvStep, FlagsTypeOK' PROVE IInv'
    OBVIOUS
<1> USE BoundAssumption
    DEF IInv, TypeOK, VenueTypeOK, ControlTypeOK, SyncTypeOK, RowsTypeOK, RunsTypeOK,
        MessagesAreGenuine, ReplayStartsAtAnchor, BookIsTheVenues, RowsAreTrue,
        venue, socket, control, ob, task, replay, counts, run, Ids, OptId, NoId, PCs, Reasons,
        TaskStatus, NoTask, Started, Unsubscribed, Failed, Served, Done
<1>1. CASE RecvTrade
    <2>1. Head(wire).update_id \in Nat
        BY <1>1, HeadOfWire DEF RecvTrade, Receive, Event, Trade
    <2>2. trades' \in Seq(Nat) /\ traded' \in Nat
        BY <1>1, <2>1 DEF RecvTrade
    <2>3. wire' \in Seq(GenuineMessages) /\ wire' \in Seq(Event \cup Trade)
        BY <1>1, HeadOfWire DEF RecvTrade, Receive
    <2> QED
        BY <1>1, <2>2, <2>3 DEF RecvTrade, Receive
<1>2. CASE RecvSnapshot
    <2> DEFINE id == Head(wire).update_id
               why == IF first_update_id = NoId THEN "sync" ELSE "resync"
           book == Reset(Head(wire).levels)
    <2>1. /\ id \in Ids /\ Head(wire) \in Event /\ Head(wire).levels = SnapshotLevels(id)
          /\ received' \in Seq(Ids)
        BY <1>2, HeadSnapshot DEF RecvSnapshot, ReceiveDepth, Receive
    <2>2. wire' \in Seq(GenuineMessages) /\ wire' \in Seq(Event \cup Trade)
        BY <1>2, HeadOfWire DEF RecvSnapshot, ReceiveDepth, Receive
    <2>3. /\ book \in Ladders /\ Tells(book, id, id, 0)
          /\ Append(book_events, Anchor(Head(wire), book)) \in Seq(BookEvent)
          /\ Append(book_events, Anchor(Head(wire), book)) \in Seq(TrueEvents)
          /\ Append(book_snapshots, SnapshotRow(id, book, why, id)) \in Seq(BookSnapshot)
          /\ Append(book_snapshots, SnapshotRow(id, book, why, id)) \in Seq(TrueSnapshots)
        BY <2>1, AdoptedTells
    <2> HIDE DEF book
    <2>4. /\ ladders' = book /\ update_id' = id /\ anchor' = id
          /\ book_events' = Append(book_events, Anchor(Head(wire), book))
          /\ book_snapshots' = Append(book_snapshots, SnapshotRow(id, book, why, id))
        BY <1>2 DEF RecvSnapshot, Adopt, book
    <2>5. Tells(ladders', anchor', update_id', 0) /\ RowsAreTrue'
        BY <2>3, <2>4
    <2> QED
        BY <1>2, <2>1, <2>2, <2>3, <2>4, <2>5 DEF RecvSnapshot, ReceiveDepth, Receive, Adopt
<1>3. CASE RecvUnsynced
    <2>1. /\ wire' \in Seq(GenuineMessages) /\ wire' \in Seq(Event \cup Trade)
          /\ received' \in Seq(Ids)
          /\ buffer' \in Seq(GenuineDiffs) /\ buffer' \in Seq(Event)
        BY <1>3, HeadOfWire, HeadDiff DEF RecvUnsynced, ReceiveDepth, Receive
    <2> QED
        BY <1>3, <2>1 DEF RecvUnsynced, ReceiveDepth, Receive
<1>4. CASE RecvFetchFailed
    <2>1. /\ wire' \in Seq(GenuineMessages) /\ wire' \in Seq(Event \cup Trade)
          /\ received' \in Seq(Ids)
          /\ buffer' \in Seq(GenuineDiffs) /\ buffer' \in Seq(Event)
        BY <1>4, HeadOfWire, HeadDiff DEF RecvFetchFailed, ReceiveDepth, Receive
    <2> QED
        BY <1>4, <2>1 DEF RecvFetchFailed, ReceiveDepth, Receive
<1>5. CASE RecvResyncSent
    <2>1. /\ wire' \in Seq(GenuineMessages) /\ wire' \in Seq(Event \cup Trade)
          /\ received' \in Seq(Ids)
          /\ buffer' \in Seq(GenuineDiffs) /\ buffer' \in Seq(Event)
        BY <1>5, HeadOfWire, HeadDiff DEF RecvResyncSent, ReceiveDepth, Receive
    <2> QED
        BY <1>5, <2>1 DEF RecvResyncSent, ReceiveDepth, Receive
<1>6. CASE RecvFetchDone
    <2> DEFINE id == snapshot_task.snapshot
               why == IF resync_reason = "none" THEN "sync" ELSE resync_reason
               book == Reset(SnapshotLevels(id))
    <2>1. id \in Ids
        BY <1>6 DEF RecvFetchDone
    <2>2. /\ wire' \in Seq(GenuineMessages) /\ wire' \in Seq(Event \cup Trade)
          /\ received' \in Seq(Ids)
          /\ replaying' \in Seq(GenuineDiffs) /\ replaying' \in Seq(Event)
        BY <1>6, HeadOfWire, HeadDiff DEF RecvFetchDone, ReceiveDepth, Receive
    <2>3. /\ SnapshotEvent(id) \in Event /\ SnapshotEvent(id).update_id = id
          /\ SnapshotEvent(id).levels = SnapshotLevels(id)
        BY <2>1, SnapshotIsGenuine
    <2>4. /\ book \in Ladders /\ Tells(book, id, id, 0)
          /\ Append(book_events, Anchor(SnapshotEvent(id), book)) \in Seq(BookEvent)
          /\ Append(book_events, Anchor(SnapshotEvent(id), book)) \in Seq(TrueEvents)
          /\ Append(book_snapshots, SnapshotRow(id, book, why, id)) \in Seq(BookSnapshot)
          /\ Append(book_snapshots, SnapshotRow(id, book, why, id)) \in Seq(TrueSnapshots)
        BY <2>3, AdoptedTells
    <2> HIDE DEF book
    <2>5. /\ ladders' = book /\ update_id' = id /\ anchor' = id
          /\ book_events' = Append(book_events, Anchor(SnapshotEvent(id), book))
          /\ book_snapshots' = Append(book_snapshots, SnapshotRow(id, book, why, id))
        BY <1>6 DEF RecvFetchDone, Adopt, book
    <2>6. Tells(ladders', anchor', update_id', 0) /\ RowsAreTrue'
        BY <2>4, <2>5
    <2> QED
        BY <1>6, <2>1, <2>2, <2>4, <2>5, <2>6 DEF RecvFetchDone, ReceiveDepth, Receive, Adopt
<1>7. CASE RecvApplied
    <2> DEFINE ev == Head(wire)
    <2>1. /\ ev \in GenuineDiffs /\ ev \in Event /\ ev.update_id \in Ids
          /\ wire' \in Seq(GenuineMessages) /\ wire' \in Seq(Event \cup Trade)
          /\ received' \in Seq(Ids)
        BY <1>7, HeadOfWire, HeadDiff DEF RecvApplied, ReceiveDepth, Receive
    <2>2. /\ Apply(ladders, ev) \in Ladders /\ Tells(Apply(ladders, ev), anchor, ev.update_id, 0)
          /\ Append(book_events, Applied(ev, Apply(ladders, ev))) \in Seq(BookEvent)
          /\ Append(book_events, Applied(ev, Apply(ladders, ev))) \in Seq(TrueEvents)
        BY <1>7, <2>1, AppliedKeepsTelling DEF RecvApplied, LiveOk
    <2>3. /\ ladders' = Apply(ladders, ev) /\ update_id' = ev.update_id /\ anchor' = anchor
          /\ book_events' = Append(book_events, Applied(ev, Apply(ladders, ev)))
        BY <1>7 DEF RecvApplied, ApplyDiff
    <2>4. Tells(ladders', anchor', update_id', 0)
        BY <2>2, <2>3
    <2> QED
        BY <1>7, <2>1, <2>2, <2>3, <2>4 DEF RecvApplied, ReceiveDepth, Receive, ApplyDiff
<1>8. CASE RecvCrossed
    <2> DEFINE ev == Head(wire)
    <2>1. /\ ev \in Event /\ ev.update_id \in Ids
          /\ wire' \in Seq(GenuineMessages) /\ wire' \in Seq(Event \cup Trade)
          /\ received' \in Seq(Ids)
        BY <1>8, HeadOfWire, HeadDiff DEF RecvCrossed, ReceiveDepth, Receive
    <2>2. buffer' \in Seq(GenuineDiffs) /\ buffer' \in Seq(Event)
        BY <1>8, HeadDiff DEF RecvCrossed, ReceiveDepth, Receive, Gap
    <2>3. book_events' \in Seq(BookEvent) /\ book_events' \in Seq(TrueEvents)
        BY <1>8, <2>1, RecordedRows DEF RecvCrossed, Gap
    <2>4. ladders' \in Ladders /\ update_id' \in Ids /\ synced' = FALSE
        BY <1>8, <2>1, LaddersType DEF RecvCrossed, Gap, ApplyDiff
    <2>5. snapshot_task' \in [status : TaskStatus, snapshot : OptId]
          /\ resync_reason' \in {"none", "sync", "resync"}
        BY <1>8 DEF RecvCrossed, Gap, StartSnapshotFetch
    <2> QED
        BY <1>8, <2>1, <2>2, <2>3, <2>4, <2>5 DEF RecvCrossed, ReceiveDepth, Receive
<1>9. CASE RecvGap
    <2> DEFINE ev == Head(wire)
    <2>1. /\ ev \in Event /\ ev.update_id \in Ids
          /\ wire' \in Seq(GenuineMessages) /\ wire' \in Seq(Event \cup Trade)
          /\ received' \in Seq(Ids)
        BY <1>9, HeadOfWire, HeadDiff DEF RecvGap, ReceiveDepth, Receive
    <2>2. buffer' \in Seq(GenuineDiffs) /\ buffer' \in Seq(Event)
        BY <1>9, HeadDiff DEF RecvGap, ReceiveDepth, Receive, Gap
    <2>3. book_events' \in Seq(BookEvent) /\ book_events' \in Seq(TrueEvents)
        BY <1>9, <2>1, RecordedRows DEF RecvGap, Gap
    <2>4. ladders' \in Ladders /\ update_id' \in Ids /\ synced' = FALSE
        BY <1>9, <2>1, LaddersType DEF RecvGap, Gap
    <2>5. snapshot_task' \in [status : TaskStatus, snapshot : OptId]
          /\ resync_reason' \in {"none", "sync", "resync"}
        BY <1>9 DEF RecvGap, Gap, StartSnapshotFetch
    <2> QED
        BY <1>9, <2>1, <2>2, <2>3, <2>4, <2>5 DEF RecvGap, ReceiveDepth, Receive
<1> QED
    BY <1>1, <1>2, <1>3, <1>4, <1>5, <1>6, <1>7, <1>8, <1>9 DEF RecvStep

\* So does every message replayed.
LEMMA ReplayKeeps == IInv /\ ReplayStep /\ FlagsTypeOK' => IInv'
<1> SUFFICES ASSUME IInv, ReplayStep, FlagsTypeOK' PROVE IInv'
    OBVIOUS
<1> USE BoundAssumption
    DEF IInv, TypeOK, VenueTypeOK, ControlTypeOK, SyncTypeOK, RowsTypeOK, RunsTypeOK,
        MessagesAreGenuine, ReplayStartsAtAnchor, BookIsTheVenues, RowsAreTrue,
        venue, socket, control, ob, task, replay, counts, run, Ids, OptId, NoId, PCs, Reasons,
        TaskStatus, NoTask, Started, Unsubscribed, Failed, Served, Done
<1>1. CASE ReplayDrop
    <2>1. replaying' \in Seq(GenuineDiffs) /\ replaying' \in Seq(Event)
        BY <1>1, HeadOfReplay DEF ReplayDrop, ReplayNext
    <2>2. book_events' \in Seq(BookEvent) /\ book_events' \in Seq(TrueEvents)
        BY <1>1, HeadOfReplay, RecordedRows DEF ReplayDrop, ReplayNext
    <2> QED
        BY <1>1, <2>1, <2>2 DEF ReplayDrop, ReplayNext
<1>2. CASE ReplayKeep
    <2>1. /\ replaying' \in Seq(GenuineDiffs) /\ replaying' \in Seq(Event)
          /\ buffer' \in Seq(GenuineDiffs) /\ buffer' \in Seq(Event)
        BY <1>2, HeadOfReplay DEF ReplayKeep, ReplayNext
    <2> QED
        BY <1>2, <2>1 DEF ReplayKeep, ReplayNext
<1>3. CASE ReplayApplied
    <2> DEFINE ev == Head(replaying)
    <2>1. /\ ev \in Event /\ ev.update_id \in Ids
          /\ replaying' \in Seq(GenuineDiffs) /\ replaying' \in Seq(Event)
        BY <1>3, HeadOfReplay DEF ReplayApplied, ReplayJoins, ReplayNext
    <2>2. /\ Apply(ladders, ev) \in Ladders /\ Tells(Apply(ladders, ev), anchor, ev.update_id, 0)
          /\ Append(book_events, Applied(ev, Apply(ladders, ev))) \in Seq(BookEvent)
          /\ Append(book_events, Applied(ev, Apply(ladders, ev))) \in Seq(TrueEvents)
        BY <1>3, ReplayedIsAccepted, AppliedKeepsTelling DEF ReplayApplied
    <2>3. /\ ladders' = Apply(ladders, ev) /\ update_id' = ev.update_id /\ anchor' = anchor
          /\ book_events' = Append(book_events, Applied(ev, Apply(ladders, ev)))
        BY <1>3 DEF ReplayApplied, ReplayJoins, ReplayNext, ApplyDiff
    <2>4. Tells(ladders', anchor', update_id', 0)
        BY <2>2, <2>3
    <2> QED
        BY <1>3, <2>1, <2>2, <2>3, <2>4 DEF ReplayApplied, ReplayJoins, ReplayNext, ApplyDiff
<1>4. CASE ReplayCrossed
    <2> DEFINE ev == Head(replaying)
    <2>1. /\ ev \in Event /\ ev.update_id \in Ids
          /\ replaying' \in Seq(GenuineDiffs) /\ replaying' \in Seq(Event)
        BY <1>4, HeadOfReplay DEF ReplayCrossed, ReplayNext, ReplayJoins
    <2>2. buffer' \in Seq(GenuineDiffs) /\ buffer' \in Seq(Event)
        BY <1>4, HeadOfReplay DEF ReplayCrossed, ReplayNext, Gap, ReplayJoins
    <2>3. book_events' \in Seq(BookEvent) /\ book_events' \in Seq(TrueEvents)
        BY <1>4, <2>1, RecordedRows DEF ReplayCrossed, Gap
    <2>4. ladders' \in Ladders /\ update_id' \in Ids /\ synced' = FALSE
        BY <1>4, <2>1, LaddersType DEF ReplayCrossed, Gap, ReplayJoins, ApplyDiff
    <2>5. snapshot_task' \in [status : TaskStatus, snapshot : OptId]
          /\ resync_reason' \in {"none", "sync", "resync"}
        BY <1>4 DEF ReplayCrossed, Gap, StartSnapshotFetch
    <2> QED
        BY <1>4, <2>1, <2>2, <2>3, <2>4, <2>5 DEF ReplayCrossed, ReplayNext, ReplayJoins
<1>5. CASE ReplayGap
    <2> DEFINE ev == Head(replaying)
    <2>1. /\ ev \in Event /\ ev.update_id \in Ids
          /\ replaying' \in Seq(GenuineDiffs) /\ replaying' \in Seq(Event)
        BY <1>5, HeadOfReplay DEF ReplayGap, ReplayNext
    <2>2. buffer' \in Seq(GenuineDiffs) /\ buffer' \in Seq(Event)
        BY <1>5, HeadOfReplay DEF ReplayGap, ReplayNext, Gap
    <2>3. book_events' \in Seq(BookEvent) /\ book_events' \in Seq(TrueEvents)
        BY <1>5, <2>1, RecordedRows DEF ReplayGap, Gap
    <2>4. ladders' \in Ladders /\ update_id' \in Ids /\ synced' = FALSE
        BY <1>5, <2>1, LaddersType DEF ReplayGap, Gap
    <2>5. snapshot_task' \in [status : TaskStatus, snapshot : OptId]
          /\ resync_reason' \in {"none", "sync", "resync"}
        BY <1>5 DEF ReplayGap, Gap, StartSnapshotFetch
    <2> QED
        BY <1>5, <2>1, <2>2, <2>3, <2>4, <2>5 DEF ReplayGap, ReplayNext
<1>6. CASE ReplayEnd
    BY <1>6 DEF ReplayEnd
<1> QED
    BY <1>1, <1>2, <1>3, <1>4, <1>5, <1>6 DEF ReplayStep

\* So does the end of a handler.
LEMMA LoopKeeps == IInv /\ LoopStep /\ FlagsTypeOK' => IInv'
<1> SUFFICES ASSUME IInv, LoopStep, FlagsTypeOK' PROVE IInv'
    OBVIOUS
<1> USE BoundAssumption
    DEF IInv, TypeOK, VenueTypeOK, ControlTypeOK, SyncTypeOK, RowsTypeOK, RunsTypeOK,
        MessagesAreGenuine, ReplayStartsAtAnchor, BookIsTheVenues, RowsAreTrue,
        venue, socket, control, ob, task, replay, counts, run, Ids, OptId, NoId, PCs, Reasons,
        TaskStatus, NoTask, Started, Unsubscribed, Failed, Served, Done
<1>1. CASE EndOfMessage
    <2>1. book_snapshots' \in Seq(TrueSnapshots) /\ book_snapshots' \in Seq(BookSnapshot)
        BY <1>1, PeriodicIsTrue DEF EndOfMessage
    <2> QED
        BY <1>1, <2>1 DEF EndOfMessage
<1>2. CASE RunUpdated
    <2>1. runs' \in Seq(RunRow) /\ DOMAIN runs' = DOMAIN runs
        BY <1>2, RunsType DEF RunUpdated
    <2> QED
        BY <1>2, <2>1 DEF RunUpdated
<1> QED
    BY <1>1, <1>2 DEF LoopStep

\* So does a cancellation, wherever it lands.
LEMMA StopKeeps == IInv /\ Stop /\ FlagsTypeOK' => IInv'
<1> SUFFICES ASSUME IInv, Stop, FlagsTypeOK' PROVE IInv'
    OBVIOUS
<1> USE BoundAssumption
    DEF IInv, TypeOK, VenueTypeOK, ControlTypeOK, SyncTypeOK, RowsTypeOK, RunsTypeOK,
        MessagesAreGenuine, ReplayStartsAtAnchor, BookIsTheVenues, RowsAreTrue,
        venue, socket, control, ob, task, replay, counts, run, Ids, OptId, NoId, PCs, Reasons,
        TaskStatus, NoTask, Started, Unsubscribed, Failed, Served, Done
<1>1. CASE InSession /\ CloseSession("shutdown")
    <2>1. \/ runs' = runs \/ runs' = Append(runs, NewRun)
          \/ runs' = [runs EXCEPT ![run_id] = UpdatedRow(@)]
        BY <1>1 DEF Stop, CloseSession
    <2>2. runs' \in Seq(RunRow) /\ DOMAIN runs \subseteq DOMAIN runs'
        BY <2>1, RunsType
    <2> QED
        BY <1>1, <2>2 DEF Stop, CloseSession
<1>2. CASE pc' = "done" /\ UNCHANGED <<reason, snapshot_task, socket>>
    <2>1. runs' = runs \/ runs' = [runs EXCEPT ![run_id] = FinishedRow(@)]
        BY <1>2 DEF Stop, CloseSession
    <2>2. runs' \in Seq(RunRow) /\ DOMAIN runs' = DOMAIN runs
        BY <2>1, RunsType
    <2> QED
        BY <1>2, <2>2 DEF Stop
<1> QED
    BY <1>1, <1>2 DEF Stop

\* So does the death of the process.
LEMMA CrashKeeps == IInv /\ Crash /\ FlagsTypeOK' => IInv'
<1> SUFFICES ASSUME IInv, Crash, FlagsTypeOK' PROVE IInv'
    OBVIOUS
<1> USE BoundAssumption
    DEF IInv, TypeOK, VenueTypeOK, ControlTypeOK, SyncTypeOK, RowsTypeOK, RunsTypeOK,
        MessagesAreGenuine, ReplayStartsAtAnchor, BookIsTheVenues, RowsAreTrue,
        venue, socket, control, ob, task, replay, counts, run, Ids, OptId, NoId, PCs, Reasons,
        TaskStatus, NoTask, Started, Unsubscribed, Failed, Served, Done
<1> QED
    BY DEF Crash

\* A step that changes nothing keeps it.
LEMMA StutterKeeps == IInv /\ UNCHANGED vars => IInv'
BY DEF vars, venue, socket, control, ob, task, replay, counts, run, IInv, TypeOK, FlagsTypeOK,
       VenueTypeOK, ControlTypeOK, SyncTypeOK, RowsTypeOK, RunsTypeOK, MessagesAreGenuine,
       ReplayStartsAtAnchor, BookIsTheVenues, RowsAreTrue

-----------------------------------------------------------------------------
(* The theorems *)

\* IInv is an invariant of the collector.
THEOREM Inductive == Spec => []IInv
<1>1. IInv /\ [Next]_vars => IInv'
    <2> SUFFICES ASSUME IInv, [Next]_vars PROVE IInv'
        OBVIOUS
    <2>1. FlagsTypeOK'
        BY FlagsAreKept DEF IInv, TypeOK
    <2>2. CASE Next
        BY <2>1, <2>2, VenueKeeps, FetchKeeps, OpenKeeps, CloseKeeps, RecvKeeps, ReplayKeeps,
           LoopKeeps, StopKeeps, CrashKeeps, StutterKeeps DEF Next, Ended
    <2>3. CASE UNCHANGED vars
        BY <2>3, StutterKeeps
    <2> QED
        BY <2>2, <2>3
<1> QED
    BY <1>1, InitIInv, PTL DEF Spec

\* Every variable keeps its type, in every interleaving of the venue, the
\* snapshot task, the collector and its shutdown.
THEOREM TypeCorrect == Spec => []TypeOK
<1>1. IInv => TypeOK
    BY DEF IInv
<1> QED
    BY <1>1, Inductive, PTL

\* The book that stream.py calls synced is the venue's at the update id it shows, but
\* for missing levels beyond the reach of its snapshot that no message touched since:
\* for every venue, limit, history and length of the stream, with any faults.
THEOREM BookFaithful == Spec => []BookIsTheVenues
<1>1. IInv => BookIsTheVenues
    BY DEF IInv
<1> QED
    BY <1>1, Inductive, PTL

\* Under the invariant, the top of every row marked applied tells the venue's.
LEMMA TopsFollow == IInv => RecordedTopIsTheVenues
<1> SUFFICES ASSUME IInv, NEW i \in DOMAIN book_events
             PROVE  book_events[i].applied =>
                        TopTells(book_events[i].top, book_events[i].since,
                                 book_events[i].update_id)
    BY DEF RecordedTopIsTheVenues
<1>1. book_events[i] \in TrueEvents
    BY DEF IInv, RowsAreTrue
<1> QED
    BY <1>1 DEF TrueEvents

\* Under the invariant, every row of book_snapshots tells the best of the venue's book.
LEMMA AnchorsFollow == IInv => AnchorsAreTheVenues
<1> SUFFICES ASSUME IInv, NEW i \in DOMAIN book_snapshots
             PROVE  Tells(book_snapshots[i].ladders, book_snapshots[i].since,
                          book_snapshots[i].update_id, KeptLevels)
    BY DEF AnchorsAreTheVenues
<1>1. book_snapshots[i] \in TrueSnapshots
    BY DEF IInv, RowsAreTrue
<1> QED
    BY <1>1 DEF TrueSnapshots

\* All that is recorded of the book is the venue's, as far as the snapshot it was begun
\* from let it be known: the top of book in every row of book_events marked applied,
\* and the best snapshot_levels of each side in every book_snapshots row.
THEOREM RecordFaithful == Spec => []RecordIsTheVenues
<1>1. IInv => RecordIsTheVenues
    BY TopsFollow, AnchorsFollow DEF RecordIsTheVenues
<1> QED
    BY <1>1, Inductive, PTL


-----------------------------------------------------------------------------
(***************************************************************************)
(* StreamCollector implements LiveBook, for every venue, history and fault. *)
(*                                                                         *)
(* That each book is the venue's is BookIsTheVenues.  What is left is that  *)
(* no step takes the book back: a fetch is served no earlier than the book  *)
(* it replaces and the book stands still until its answer is taken, and the *)
(* stream of an in-band venue, its snapshots included, is in order from the *)
(* book's position on.                                                      *)
(***************************************************************************)

\* The book messages of a sequence; a trade's id is of another sequence.
IsBook(ev) == ev.kind # "trade"

AtMost(s, n)  == \A i \in DOMAIN s : IsBook(s[i]) => s[i].update_id <= n
AtLeast(s, n) == \A i \in DOMAIN s : IsBook(s[i]) => n <= s[i].update_id
InOrder(s) ==
    \A i, j \in DOMAIN s :
        (i < j /\ IsBook(s[i]) /\ IsBook(s[j])) => s[i].update_id <= s[j].update_id
NoSnapshot(s) == \A i \in DOMAIN s : s[i].kind # "snapshot"

\* Nothing the collector holds or is sent is of the future.
IdsArePast ==
    /\ update_id <= venue_id /\ AtMost(wire, pushed)
    /\ AtMost(buffer, venue_id) /\ AtMost(replaying, venue_id)

\* A REST book stands still while a snapshot is fetched, and the answer is not behind it.
TaskIsAhead ==
    /\ snapshot_task.status # "unsubscribed"
    /\ snapshot_task.status # "none" => ~synced
    /\ snapshot_task.status \in {"served", "done"} =>
          update_id <= snapshot_task.snapshot /\ snapshot_task.snapshot <= venue_id

AnswerIsAhead == ~InBand => NoSnapshot(wire) /\ TaskIsAhead

\* An in-band book is behind all that is on the wire, which is in order.
StreamIsAhead ==
    InBand =>
        /\ update_id <= pushed /\ AtLeast(wire, update_id) /\ InOrder(wire)
        /\ replaying = <<>> /\ snapshot_task.snapshot = NoId

\* A session opens with a book that is not trusted.
OpensUnsynced == pc \in {"connect", "start_run"} => ~synced

\* The inductive invariant, on top of IInv.
RInv == IdsArePast /\ AnswerIsAhead /\ StreamIsAhead /\ OpensUnsynced

\* The values a state of IInv holds.
Typed ==
    /\ venue_id \in Nat /\ pushed \in Nat /\ pushed <= venue_id /\ update_id \in Nat
    /\ wire \in Seq(Event \cup Trade) /\ buffer \in Seq(Event) /\ replaying \in Seq(Event)
    /\ synced \in BOOLEAN

LEMMA TypedFollows == IInv => Typed
BY BoundAssumption DEF IInv, TypeOK, FlagsTypeOK, VenueTypeOK, SyncTypeOK, Ids, Typed

-----------------------------------------------------------------------------
(* Sequences of messages *)

\* The id of a message is a number.
LEMMA MessageId == \A ev \in Event \cup Trade : ev.update_id \in Nat
BY BoundAssumption DEF Event, Trade, Ids

\* The head and the rest of a sequence.
LEMMA TailIds ==
    ASSUME NEW s \in Seq(Event \cup Trade), s # <<>>
    PROVE  /\ Tail(s) \in Seq(Event \cup Trade) /\ Head(s) \in Event \cup Trade
           /\ \A n \in Nat : AtMost(s, n) =>
                AtMost(Tail(s), n) /\ (IsBook(Head(s)) => Head(s).update_id <= n)
           /\ \A n \in Nat : AtLeast(s, n) =>
                AtLeast(Tail(s), n) /\ (IsBook(Head(s)) => n <= Head(s).update_id)
           /\ InOrder(s) =>
                InOrder(Tail(s)) /\ (IsBook(Head(s)) => AtLeast(Tail(s), Head(s).update_id))
           /\ NoSnapshot(s) => NoSnapshot(Tail(s)) /\ Head(s).kind # "snapshot"
<1>1. /\ Tail(s) \in Seq(Event \cup Trade) /\ Head(s) = s[1]
      /\ 1 \in DOMAIN s /\ Head(s) \in Event \cup Trade
  OBVIOUS
<1>2. \A i \in DOMAIN Tail(s) :
         i \in Nat /\ 1 <= i /\ i + 1 \in DOMAIN s /\ Tail(s)[i] = s[i + 1]
  OBVIOUS
<1>3. ASSUME NEW n \in Nat, AtMost(s, n)
      PROVE  AtMost(Tail(s), n) /\ (IsBook(Head(s)) => Head(s).update_id <= n)
  BY <1>1, <1>2, <1>3 DEF AtMost
<1>4. ASSUME NEW n \in Nat, AtLeast(s, n)
      PROVE  AtLeast(Tail(s), n) /\ (IsBook(Head(s)) => n <= Head(s).update_id)
  BY <1>1, <1>2, <1>4 DEF AtLeast
<1>5. ASSUME InOrder(s)
      PROVE  InOrder(Tail(s)) /\ (IsBook(Head(s)) => AtLeast(Tail(s), Head(s).update_id))
  <2>1. InOrder(Tail(s))
    BY <1>2, <1>5 DEF InOrder
  <2>2. ASSUME IsBook(Head(s)), NEW i \in DOMAIN Tail(s), IsBook(Tail(s)[i])
        PROVE  Head(s).update_id <= Tail(s)[i].update_id
    <3>1. 1 < i + 1 /\ i + 1 \in DOMAIN s /\ Tail(s)[i] = s[i + 1]
      BY <1>2
    <3> QED BY <1>1, <1>5, <2>2, <3>1 DEF InOrder
  <2> QED BY <2>1, <2>2 DEF AtLeast
<1>6. NoSnapshot(s) => NoSnapshot(Tail(s)) /\ Head(s).kind # "snapshot"
  BY <1>1, <1>2 DEF NoSnapshot
<1> QED BY <1>1, <1>3, <1>4, <1>5, <1>6

\* A message put behind the others.
LEMMA AppendIds ==
    ASSUME NEW s \in Seq(Event \cup Trade), NEW ev \in Event \cup Trade
    PROVE  /\ \A n \in Nat : (AtMost(s, n) /\ (IsBook(ev) => ev.update_id <= n))
                                => AtMost(Append(s, ev), n)
           /\ \A n \in Nat : (AtLeast(s, n) /\ (IsBook(ev) => n <= ev.update_id))
                                => AtLeast(Append(s, ev), n)
           /\ (InOrder(s) /\ (IsBook(ev) => AtMost(s, ev.update_id)))
                                => InOrder(Append(s, ev))
           /\ (NoSnapshot(s) /\ ev.kind # "snapshot") => NoSnapshot(Append(s, ev))
<1> DEFINE t == Append(s, ev)
<1>1. /\ Len(s) \in Nat /\ DOMAIN s = 1..Len(s) /\ DOMAIN t = 1..Len(s) + 1
      /\ t[Len(s) + 1] = ev /\ \A i \in DOMAIN s : t[i] = s[i]
  OBVIOUS
<1>2. \A i \in DOMAIN t : i \in DOMAIN s \/ i = Len(s) + 1
  BY <1>1
<1>3. \A i, j \in DOMAIN t : i < j => i \in DOMAIN s
  BY <1>1
<1> HIDE DEF t
<1>4. ASSUME NEW n \in Nat, AtMost(s, n), IsBook(ev) => ev.update_id <= n
      PROVE  AtMost(t, n)
  BY <1>1, <1>2, <1>4 DEF AtMost
<1>5. ASSUME NEW n \in Nat, AtLeast(s, n), IsBook(ev) => n <= ev.update_id
      PROVE  AtLeast(t, n)
  BY <1>1, <1>2, <1>5 DEF AtLeast
<1>6. ASSUME InOrder(s), IsBook(ev) => AtMost(s, ev.update_id)
      PROVE  InOrder(t)
  <2> SUFFICES ASSUME NEW i \in DOMAIN t, NEW j \in DOMAIN t, i < j, IsBook(t[i]), IsBook(t[j])
               PROVE  t[i].update_id <= t[j].update_id
    BY DEF InOrder
  <2>1. i \in DOMAIN s /\ t[i] = s[i]
    BY <1>1, <1>3
  <2>2. CASE j \in DOMAIN s
    BY <1>1, <1>6, <2>1, <2>2 DEF InOrder
  <2>3. CASE j = Len(s) + 1
    BY <1>1, <1>6, <2>1, <2>3 DEF AtMost
  <2> QED BY <1>2, <2>2, <2>3
<1>7. NoSnapshot(s) /\ ev.kind # "snapshot" => NoSnapshot(t)
  BY <1>1, <1>2 DEF NoSnapshot
<1> QED BY <1>4, <1>5, <1>6, <1>7 DEF t

\* A later bound is a bound too.
LEMMA AtMostGrows ==
    ASSUME NEW s \in Seq(Event \cup Trade), NEW n \in Nat, NEW m \in Nat, n <= m, AtMost(s, n)
    PROVE  AtMost(s, m)
<1>1. \A i \in DOMAIN s : s[i].update_id \in Nat
  BY MessageId
<1> QED BY <1>1 DEF AtMost

\* What is said of the wire in the next state is said of the next wire.
LEMMA NextWire ==
    /\ AtMost(wire, pushed)' <=> AtMost(wire', pushed')
    /\ AtLeast(wire, update_id)' <=> AtLeast(wire', update_id')
    /\ InOrder(wire)' <=> InOrder(wire')
    /\ NoSnapshot(wire)' <=> NoSnapshot(wire')
BY DEF AtMost, AtLeast, InOrder, NoSnapshot

-----------------------------------------------------------------------------
(* What the steps have in common *)

\* A step that moves neither messages nor the book, though it may distrust it.
LEMMA QuietKeeps ==
    ASSUME RInv,
           UNCHANGED <<venue_id, pushed, wire, buffer, replaying, snapshot_task, update_id>>,
           synced' => synced,
           pc' \in {"connect", "start_run"} => (~synced' \/ pc \in {"connect", "start_run"})
    PROVE  RInv'
<1>1. IdsArePast' /\ OpensUnsynced'
  BY DEF RInv, IdsArePast, OpensUnsynced, AtMost
<1>2. AnswerIsAhead'
  BY DEF RInv, AnswerIsAhead, TaskIsAhead, NoSnapshot, InBand
<1>3. StreamIsAhead'
  BY DEF RInv, StreamIsAhead, AtLeast, InOrder, InBand
<1> QED BY <1>1, <1>2, <1>3 DEF RInv

\* The end of a session drops its socket and its snapshot task.
LEMMA EndKeeps ==
    ASSUME Typed, RInv, UNCHANGED <<venue_id, pushed, buffer, replaying, update_id, synced>>,
           wire' = <<>>, snapshot_task' = NoTask, pc' \notin {"connect", "start_run"}
    PROVE  RInv'
<1>1. DOMAIN wire' = {} /\ snapshot_task'.status = "none" /\ snapshot_task'.snapshot = NoId
  BY DEF NoTask
<1>2. IdsArePast' /\ OpensUnsynced'
  BY <1>1 DEF RInv, IdsArePast, OpensUnsynced, AtMost
<1>3. AnswerIsAhead' /\ StreamIsAhead'
  BY <1>1 DEF RInv, AnswerIsAhead, TaskIsAhead, StreamIsAhead, NoSnapshot, AtLeast, InOrder, InBand
<1> QED BY <1>2, <1>3 DEF RInv

\* What the collector knows of the message it takes, and of those behind it.
LEMMA TakenIds ==
    ASSUME Typed, RInv, wire # <<>>, wire' = Tail(wire), UNCHANGED <<venue_id, pushed>>
    PROVE  /\ AtMost(wire, pushed)' /\ AtMost(buffer, venue_id) /\ AtMost(replaying, venue_id)
           /\ Head(wire) \in Event \cup Trade /\ Head(wire).update_id \in Nat
           /\ IsBook(Head(wire)) => Head(wire).update_id <= pushed
           /\ ~InBand => NoSnapshot(wire)' /\ Head(wire).kind # "snapshot"
           /\ InBand => /\ AtLeast(wire', update_id) /\ InOrder(wire)'
                        /\ IsBook(Head(wire)) => /\ update_id <= Head(wire).update_id
                                                /\ AtLeast(wire', Head(wire).update_id)
<1>1. wire \in Seq(Event \cup Trade) /\ pushed \in Nat /\ update_id \in Nat
  BY DEF Typed
<1>2. AtMost(wire, pushed) /\ (~InBand => NoSnapshot(wire))
      /\ (InBand => AtLeast(wire, update_id) /\ InOrder(wire))
  BY DEF RInv, IdsArePast, AnswerIsAhead, TaskIsAhead, StreamIsAhead
<1>3. /\ AtMost(Tail(wire), pushed) /\ Head(wire) \in Event \cup Trade
      /\ IsBook(Head(wire)) => Head(wire).update_id <= pushed
      /\ ~InBand => NoSnapshot(Tail(wire)) /\ Head(wire).kind # "snapshot"
      /\ InBand => /\ AtLeast(Tail(wire), update_id) /\ InOrder(Tail(wire))
                   /\ IsBook(Head(wire)) => /\ update_id <= Head(wire).update_id
                                           /\ AtLeast(Tail(wire), Head(wire).update_id)
  BY <1>1, <1>2, TailIds
<1>4. AtMost(wire, pushed)' /\ (~InBand => NoSnapshot(wire)') /\ (InBand => InOrder(wire)')
  BY <1>3 DEF AtMost, NoSnapshot, InOrder, InBand
<1> QED BY <1>3, <1>4, MessageId DEF RInv, IdsArePast

\* A message that waits with the others for a snapshot.
LEMMA BufferedIds ==
    ASSUME Typed, RInv, NEW ev \in Event, ev.update_id <= venue_id
    PROVE  AtMost(Append(buffer, ev), venue_id)
<1>1. buffer \in Seq(Event \cup Trade) /\ venue_id \in Nat
  BY DEF Typed
<1> QED BY <1>1, AppendIds DEF RInv, IdsArePast

\* A gap distrusts the book and starts a fetch, where none is under way yet.
LEMMA GapIds ==
    ASSUME Typed, RInv, synced, NEW ev \in Event, ev.update_id <= venue_id, Gap(ev),
           UNCHANGED venue_id
    PROVE  /\ synced' = FALSE /\ snapshot_task' = Started
           /\ AtMost(buffer, venue_id)'
<1>1. synced' = FALSE /\ (buffer' = buffer \/ buffer' = Append(buffer, ev))
  BY DEF Gap
<1>2. snapshot_task' = Started
  BY DEF Gap, StartSnapshotFetch, RInv, AnswerIsAhead, TaskIsAhead
<1>3. AtMost(buffer, venue_id) /\ AtMost(Append(buffer, ev), venue_id)
  BY BufferedIds DEF RInv, IdsArePast
<1> QED BY <1>1, <1>2, <1>3 DEF AtMost

\* What a rule accepts is not behind the book.
LEMMA AcceptedIsAhead ==
    ASSUME NEW ev \in GenuineDiffs, NEW id \in Ids, FirstEventOk(ev, id) \/ NextEventOk(ev, id)
    PROVE  id <= ev.update_id
<1>1. PICK prev \in Ids : prev < ev.update_id /\ ev \in DiffEvents(prev, ev.update_id)
  BY DEF GenuineDiffs
<1> QED BY <1>1, AcceptedCovers DEF GenuineDiffs

-----------------------------------------------------------------------------
(* The invariant is preserved, step by step *)

LEMMA InitRInv == Init => RInv
<1> SUFFICES ASSUME Init PROVE RInv
  OBVIOUS
<1>1. DOMAIN wire = {} /\ DOMAIN buffer = {} /\ DOMAIN replaying = {}
  BY DEF Init
<1>2. snapshot_task.status = "none" /\ snapshot_task.snapshot = NoId
  BY DEF Init, NoTask
<1>3. IdsArePast /\ OpensUnsynced
  BY <1>1 DEF Init, IdsArePast, OpensUnsynced, AtMost
<1>4. AnswerIsAhead /\ StreamIsAhead
  BY <1>1, <1>2 DEF Init, AnswerIsAhead, TaskIsAhead, StreamIsAhead, NoSnapshot, AtLeast, InOrder
<1> QED BY <1>3, <1>4 DEF RInv

\* The venue moves on, closes a batch of what is new, or prints a trade.
LEMMA VenueStaysAhead == IInv /\ RInv /\ VenueStep => RInv'
<1> SUFFICES ASSUME IInv, RInv, VenueStep PROVE RInv'
  OBVIOUS
<1>a. Typed
  BY TypedFollows
<1>b. IdsArePast /\ AnswerIsAhead /\ StreamIsAhead /\ OpensUnsynced
  BY DEF RInv
<1>c. /\ wire \in Seq(Event \cup Trade) /\ buffer \in Seq(Event \cup Trade)
      /\ replaying \in Seq(Event \cup Trade)
      /\ venue_id \in Nat /\ pushed \in Nat /\ pushed <= venue_id /\ update_id \in Nat
  BY <1>a DEF Typed
<1>1. CASE VenueUpdate
  <2>1. /\ UNCHANGED <<pushed, wire, buffer, replaying, snapshot_task, update_id, synced, pc>>
        /\ venue_id' = venue_id + 1
    BY <1>1 DEF VenueUpdate, socket, control, ob, task, replay
  <2>2. AtMost(buffer, venue_id + 1) /\ AtMost(replaying, venue_id + 1)
    <3>1. venue_id + 1 \in Nat /\ venue_id <= venue_id + 1
      BY <1>c
    <3> QED BY <1>b, <1>c, <3>1, AtMostGrows DEF IdsArePast
  <2>3. IdsArePast' /\ OpensUnsynced'
    BY <1>b, <1>c, <2>1, <2>2 DEF IdsArePast, OpensUnsynced, AtMost
  <2>4. /\ NoSnapshot(wire) => NoSnapshot(wire)'
        /\ AtLeast(wire, update_id) => AtLeast(wire, update_id)'
        /\ InOrder(wire) => InOrder(wire)'
    BY <2>1 DEF NoSnapshot, AtLeast, InOrder
  <2>5. AnswerIsAhead'
    <3>1. snapshot_task.snapshot <= venue_id => snapshot_task.snapshot <= venue_id'
      BY <1>c, <2>1 DEF IInv, TypeOK, SyncTypeOK, OptId, Ids, NoId
    <3> QED BY <1>b, <2>1, <2>4, <3>1 DEF AnswerIsAhead, TaskIsAhead, InBand
  <2>6. StreamIsAhead'
    BY <1>b, <2>1, <2>4 DEF StreamIsAhead, InBand
  <2> QED BY <2>3, <2>5, <2>6 DEF RInv
<1>2. CASE VenuePush
  <2>1. /\ UNCHANGED <<venue_id, buffer, replaying, snapshot_task, update_id, synced, pc>>
        /\ pushed' = venue_id /\ pushed < venue_id
    BY <1>2 DEF VenuePush, control, ob, task, replay
  <2>2. AtMost(wire, venue_id)
    BY <1>b, <1>c, AtMostGrows DEF IdsArePast
  <2>3. /\ AtMost(wire', venue_id)
        /\ NoSnapshot(wire) => NoSnapshot(wire')
        /\ AtLeast(wire, update_id) => AtLeast(wire', update_id)
        /\ InOrder(wire) => InOrder(wire')
    <3>1. CASE wire' = wire
      BY <2>2, <3>1
    <3>2. ASSUME NEW ev \in DiffEvents(pushed, venue_id), wire' = Append(wire, ev)
          PROVE  /\ AtMost(wire', venue_id)
                 /\ NoSnapshot(wire) => NoSnapshot(wire')
                 /\ AtLeast(wire, update_id) => AtLeast(wire', update_id)
                 /\ InOrder(wire) => InOrder(wire')
      <4>1. pushed \in Ids /\ venue_id \in Ids
        BY <1>c, <2>1, BoundAssumption DEF IInv, TypeOK, VenueTypeOK, Ids
      <4>2. ev \in Event \cup Trade /\ ev.kind = "diff" /\ ev.update_id = venue_id
        BY <2>1, <4>1, DiffIsGenuine DEF GenuineDiffs, DiffEvents
      <4>3. AtMost(Append(wire, ev), venue_id)
        BY <1>c, <2>2, <4>2, AppendIds
      <4>4. NoSnapshot(wire) => NoSnapshot(Append(wire, ev))
        BY <1>c, <4>2, AppendIds
      <4>5. AtLeast(wire, update_id) => AtLeast(Append(wire, ev), update_id)
        BY <1>b, <1>c, <4>2, AppendIds DEF IdsArePast
      <4>6. InOrder(wire) => InOrder(Append(wire, ev))
        BY <1>c, <2>2, <4>2, AppendIds
      <4> QED BY <3>2, <4>3, <4>4, <4>5, <4>6
    <3> QED BY <1>2, <3>1, <3>2 DEF VenuePush
  <2>4. AtMost(wire, pushed)' /\ (NoSnapshot(wire) => NoSnapshot(wire)')
        /\ (AtLeast(wire, update_id) => AtLeast(wire, update_id)')
        /\ (InOrder(wire) => InOrder(wire)')
    BY <2>1, <2>3, NextWire
  <2>5. IdsArePast' /\ OpensUnsynced'
    <3>1. AtMost(buffer, venue_id)' /\ AtMost(replaying, venue_id)'
      BY <1>b, <2>1 DEF IdsArePast, AtMost
    <3> QED BY <1>b, <2>1, <2>4, <3>1 DEF IdsArePast, OpensUnsynced
  <2>6. AnswerIsAhead'
    BY <1>b, <2>1, <2>4 DEF AnswerIsAhead, TaskIsAhead, InBand
  <2>7. StreamIsAhead'
    BY <1>b, <1>c, <2>1, <2>4 DEF StreamIsAhead, InBand
  <2> QED BY <2>5, <2>6, <2>7 DEF RInv
<1>3. CASE VenueTrade
  <2>1. UNCHANGED <<venue_id, pushed, buffer, replaying, snapshot_task, update_id, synced, pc>>
    BY <1>3 DEF VenueTrade, control, ob, task, replay
  <2>2. PICK ev \in Trade : wire' = Append(wire, ev) /\ ev.kind = "trade"
    <3>1. [kind |-> "trade", update_id |-> printed + 1] \in Trade
      BY DEF IInv, TypeOK, VenueTypeOK, Trade
    <3> QED BY <1>3, <3>1 DEF VenueTrade
  <2>3. /\ AtMost(wire', pushed)
        /\ NoSnapshot(wire) => NoSnapshot(wire')
        /\ AtLeast(wire, update_id) => AtLeast(wire', update_id)
        /\ InOrder(wire) => InOrder(wire')
    BY <1>b, <1>c, <2>2, AppendIds DEF IdsArePast, IsBook
  <2>4. AtMost(wire, pushed)' /\ (NoSnapshot(wire) => NoSnapshot(wire)')
        /\ (AtLeast(wire, update_id) => AtLeast(wire, update_id)')
        /\ (InOrder(wire) => InOrder(wire)')
    BY <2>1, <2>3, NextWire
  <2>5. IdsArePast' /\ OpensUnsynced'
    <3>1. AtMost(buffer, venue_id)' /\ AtMost(replaying, venue_id)'
      BY <1>b, <2>1 DEF IdsArePast, AtMost
    <3> QED BY <1>b, <2>1, <2>4, <3>1 DEF IdsArePast, OpensUnsynced
  <2>6. AnswerIsAhead' /\ StreamIsAhead'
    BY <1>b, <2>1, <2>4 DEF AnswerIsAhead, TaskIsAhead, StreamIsAhead, InBand
  <2> QED BY <2>5, <2>6 DEF RInv
<1> QED BY <1>1, <1>2, <1>3 DEF VenueStep

\* The snapshot task: an answer is the venue's book when it is served, and an
\* in-band one comes behind all that was sent before it.
LEMMA FetchStaysAhead == IInv /\ RInv /\ FetchStep => RInv'
<1> SUFFICES ASSUME IInv, RInv, FetchStep PROVE RInv'
  OBVIOUS
<1>a. Typed
  BY TypedFollows
<1>b. IdsArePast /\ AnswerIsAhead /\ StreamIsAhead /\ OpensUnsynced
  BY DEF RInv
<1>1. CASE Resubscribe
  <2>1. /\ UNCHANGED <<venue_id, pushed, buffer, replaying, update_id, synced, pc>>
        /\ wire' = Append(wire, SnapshotEvent(pushed)) /\ snapshot_task' = Done(NoId)
        /\ InBand
    BY <1>1, <1>b DEF Resubscribe, AnswerIsAhead, TaskIsAhead, venue, control, ob, replay
  <2>2. /\ SnapshotEvent(pushed) \in Event \cup Trade
        /\ SnapshotEvent(pushed).update_id = pushed
    BY SubscriptionType DEF SnapshotEvent
  <2>3. /\ wire \in Seq(Event \cup Trade) /\ pushed \in Nat /\ update_id \in Nat
        /\ AtMost(wire, pushed) /\ AtLeast(wire, update_id) /\ InOrder(wire)
        /\ update_id <= pushed
    BY <1>a, <1>b, <2>1 DEF Typed, IdsArePast, StreamIsAhead
  <2>4. AtMost(wire', pushed) /\ AtLeast(wire', update_id) /\ InOrder(wire')
    BY <2>1, <2>2, <2>3, AppendIds
  <2>5. AtMost(wire, pushed)' /\ AtLeast(wire, update_id)' /\ InOrder(wire)'
    BY <2>1, <2>4, NextWire
  <2>6. IdsArePast' /\ OpensUnsynced'
    <3>1. AtMost(buffer, venue_id)' /\ AtMost(replaying, venue_id)'
      BY <1>b, <2>1 DEF IdsArePast, AtMost
    <3> QED BY <1>b, <2>1, <2>5, <3>1 DEF IdsArePast, OpensUnsynced
  <2>7. AnswerIsAhead' /\ StreamIsAhead'
    BY <1>b, <2>1, <2>3, <2>5 DEF AnswerIsAhead, TaskIsAhead, StreamIsAhead, InBand, Done
  <2> QED BY <2>6, <2>7 DEF RInv
<1>2. CASE ~Resubscribe
  <2>1. /\ UNCHANGED <<venue_id, pushed, wire, buffer, replaying, update_id, synced, pc>>
        /\ snapshot_task.status # "none"
    BY <1>2 DEF FetchStep, FetchServed, FetchAnswered, FetchFailed, Unsubscribe,
                ResubscribeFailed, venue, socket, control, ob, replay
  <2>2. IdsArePast' /\ OpensUnsynced'
    BY <1>b, <2>1 DEF IdsArePast, OpensUnsynced, AtMost
  <2>3. ASSUME ~InBand PROVE AnswerIsAhead'
    <3>1. NoSnapshot(wire)' /\ ~synced'
      BY <1>b, <2>1, <2>3 DEF AnswerIsAhead, TaskIsAhead, NoSnapshot
    <3>2. \/ snapshot_task' = Served(venue_id)
          \/ snapshot_task' = Failed
          \/ snapshot_task.status = "served" /\ snapshot_task' = Done(snapshot_task.snapshot)
      BY <1>2, <2>3 DEF FetchStep, FetchServed, FetchAnswered, FetchFailed, Unsubscribe,
                        ResubscribeFailed
    <3>3. CASE snapshot_task' = Served(venue_id) \/ snapshot_task' = Failed
      BY <1>a, <1>b, <2>1, <3>1, <3>3
         DEF AnswerIsAhead, TaskIsAhead, IdsArePast, Typed, Served, Failed
    <3>4. CASE snapshot_task.status = "served" /\ snapshot_task' = Done(snapshot_task.snapshot)
      BY <1>b, <2>1, <2>3, <3>1, <3>4 DEF AnswerIsAhead, TaskIsAhead, Done
    <3> QED BY <3>2, <3>3, <3>4
  <2>4. ASSUME InBand PROVE StreamIsAhead'
    <3>1. AtLeast(wire, update_id)' /\ InOrder(wire)'
      BY <1>b, <2>1, <2>4 DEF StreamIsAhead, AtLeast, InOrder
    <3>2. snapshot_task'.snapshot = NoId
      BY <1>2, <1>b, <2>4
         DEF StreamIsAhead, FetchStep, FetchServed, FetchAnswered, FetchFailed, Unsubscribe,
             ResubscribeFailed, Done, Failed, Unsubscribed
    <3> QED BY <1>b, <2>1, <2>4, <3>1, <3>2 DEF StreamIsAhead, InBand
  <2> QED BY <2>2, <2>3, <2>4 DEF RInv, AnswerIsAhead, TaskIsAhead, StreamIsAhead, InBand
<1> QED BY <1>1, <1>2

\* A process starts with an empty book; a session with an empty wire, or with the
\* in-band snapshot that is the last thing the venue sent.
LEMMA OpenStaysAhead == IInv /\ RInv /\ OpenStep => RInv'
<1> SUFFICES ASSUME IInv, RInv, OpenStep PROVE RInv'
  OBVIOUS
<1>a. Typed
  BY TypedFollows
<1>b. IdsArePast /\ AnswerIsAhead /\ StreamIsAhead /\ OpensUnsynced
  BY DEF RInv
<1>1. CASE Start
  <2>1. /\ UNCHANGED <<venue_id, pushed>> /\ update_id' = 0 /\ synced' = FALSE
        /\ wire' = <<>> /\ buffer' = <<>> /\ replaying' = <<>> /\ snapshot_task' = NoTask
    BY <1>1 DEF Start, OpenSession, venue
  <2>2. DOMAIN wire' = {} /\ DOMAIN buffer' = {} /\ DOMAIN replaying' = {}
    BY <2>1
  <2>3. IdsArePast' /\ OpensUnsynced'
    BY <1>a, <2>1, <2>2 DEF IdsArePast, OpensUnsynced, AtMost, Typed
  <2>4. AnswerIsAhead' /\ StreamIsAhead'
    BY <1>a, <2>1, <2>2
       DEF AnswerIsAhead, TaskIsAhead, StreamIsAhead, NoSnapshot, AtLeast, InOrder, NoTask, Typed
  <2> QED BY <2>3, <2>4 DEF RInv
<1>2. CASE Connected
  <2>1. /\ UNCHANGED <<venue_id, pushed, buffer, replaying, update_id, synced, snapshot_task>>
        /\ wire' = IF InBand THEN <<SnapshotEvent(pushed)>> ELSE <<>>
        /\ ~synced
    BY <1>2, <1>b DEF Connected, OpensUnsynced, venue, ob, task, replay
  <2>2. \A i \in DOMAIN wire' : i = 1 /\ InBand /\ wire'[i].update_id = pushed
    BY <2>1 DEF SnapshotEvent
  <2>3. IdsArePast' /\ OpensUnsynced'
    <3>1. AtMost(wire, pushed)'
      BY <1>a, <2>1, <2>2 DEF AtMost, Typed
    <3>2. AtMost(buffer, venue_id)' /\ AtMost(replaying, venue_id)'
      BY <1>b, <2>1 DEF IdsArePast, AtMost
    <3> QED BY <1>b, <2>1, <3>1, <3>2 DEF IdsArePast, OpensUnsynced
  <2>4. AnswerIsAhead'
    <3>1. ~InBand => NoSnapshot(wire)'
      BY <2>2 DEF NoSnapshot
    <3> QED BY <1>b, <2>1, <3>1 DEF AnswerIsAhead, TaskIsAhead, InBand
  <2>5. StreamIsAhead'
    <3>1. InBand => AtLeast(wire, update_id)'
      BY <1>a, <1>b, <2>1, <2>2 DEF StreamIsAhead, AtLeast, Typed
    <3>2. InOrder(wire)'
      BY <2>2 DEF InOrder
    <3> QED BY <1>b, <2>1, <3>1, <3>2 DEF StreamIsAhead, InBand
  <2> QED BY <2>3, <2>4, <2>5 DEF RInv
<1>3. CASE RunStarted
  <2>1. /\ UNCHANGED <<venue_id, pushed, wire, buffer, replaying, update_id, synced>>
        /\ ~synced /\ pc' = "recv"
    BY <1>3, <1>b DEF RunStarted, OpensUnsynced, venue, socket, ob, replay
  <2>2. snapshot_task' \in {snapshot_task, Started}
    BY <1>3 DEF RunStarted, StartSnapshotFetch
  <2>3. IdsArePast' /\ OpensUnsynced'
    BY <1>b, <2>1 DEF IdsArePast, OpensUnsynced, AtMost
  <2>4. AnswerIsAhead'
    BY <1>b, <2>1, <2>2 DEF AnswerIsAhead, TaskIsAhead, NoSnapshot, Started, InBand
  <2>5. StreamIsAhead'
    BY <1>b, <2>1, <2>2 DEF StreamIsAhead, AtLeast, InOrder, Started, InBand
  <2> QED BY <2>3, <2>4, <2>5 DEF RInv
<1>4. CASE OpenFailed
  BY <1>4, <1>a, EndKeeps DEF OpenFailed, CloseSession, venue, ob, replay
<1>5. CASE Reconnect
  <2>1. /\ UNCHANGED <<venue_id, pushed, wire, replaying, update_id, snapshot_task>>
        /\ buffer' = <<>> /\ synced' = FALSE
    BY <1>5 DEF Reconnect, OpenSession, venue, socket, task, replay
  <2>2. IdsArePast' /\ OpensUnsynced'
    <3>1. AtMost(buffer, venue_id)' /\ AtMost(replaying, venue_id)' /\ AtMost(wire, pushed)'
      BY <1>b, <2>1 DEF IdsArePast, AtMost
    <3> QED BY <1>b, <2>1, <3>1 DEF IdsArePast, OpensUnsynced
  <2>3. AnswerIsAhead'
    BY <1>b, <2>1 DEF AnswerIsAhead, TaskIsAhead, NoSnapshot, InBand
  <2>4. StreamIsAhead'
    BY <1>b, <2>1 DEF StreamIsAhead, AtLeast, InOrder, InBand
  <2> QED BY <2>2, <2>3, <2>4 DEF RInv
<1> QED BY <1>1, <1>2, <1>3, <1>4, <1>5 DEF OpenStep

\* The ends of a session, of a message, of a process.
LEMMA EndsStayAhead ==
    IInv /\ RInv /\ (CloseStep \/ LoopStep \/ Stop \/ Crash \/ UNCHANGED vars) => RInv'
<1> SUFFICES ASSUME IInv, RInv, CloseStep \/ LoopStep \/ Stop \/ Crash \/ UNCHANGED vars
             PROVE  RInv'
  OBVIOUS
<1>a. Typed
  BY TypedFollows
<1>1. CASE Disconnected
  BY <1>1, <1>a, EndKeeps DEF Disconnected, CloseSession, venue, ob, replay
<1>2. CASE SourceClosed \/ FinishRun
  <2>1. /\ UNCHANGED <<venue_id, pushed, wire, buffer, replaying, snapshot_task, update_id>>
        /\ synced' => synced
        /\ pc' \in {"done", "sleep", "finish_run"}
    BY <1>2 DEF SourceClosed, FinishRun, AfterClose, venue, socket, ob, task, replay
  <2> QED BY <2>1, QuietKeeps
<1>3. CASE LoopStep
  <2>1. /\ UNCHANGED <<venue_id, pushed, wire, buffer, replaying, snapshot_task, update_id, synced>>
        /\ pc' \in {"recv", "update_run"}
    BY <1>3 DEF LoopStep, EndOfMessage, RunUpdated, venue, socket, ob, task, replay
  <2> QED BY <2>1, QuietKeeps
<1>4. CASE Stop
  <2>1. CASE CloseSession("shutdown")
    BY <1>4, <1>a, <2>1, EndKeeps DEF Stop, CloseSession, venue, ob, replay
  <2>2. CASE ~CloseSession("shutdown")
    <3>1. /\ UNCHANGED <<venue_id, pushed, wire, buffer, replaying>>
          /\ UNCHANGED <<snapshot_task, update_id, synced>> /\ pc' = "done"
      BY <1>4, <2>2 DEF Stop, venue, socket, ob, task, replay
    <3> QED BY <3>1, QuietKeeps
  <2> QED BY <2>1, <2>2
<1>5. CASE Crash \/ UNCHANGED vars
  <2>1. /\ UNCHANGED <<venue_id, pushed, wire, buffer, replaying, snapshot_task, update_id, synced>>
        /\ pc' \in {pc, "off"}
    BY <1>5 DEF Crash, vars, venue, socket, control, ob, task, replay
  <2> QED BY <2>1, QuietKeeps
<1> QED BY <1>1, <1>2, <1>3, <1>4, <1>5 DEF CloseStep

\* A message is taken from the wire, the book stays or moves to it.
LEMMA TakenStaysAhead ==
    ASSUME Typed, RInv, wire # <<>>, wire' = Tail(wire),
           UNCHANGED <<venue_id, pushed, replaying>>, pc' = "tail", AtMost(buffer, venue_id)',
           update_id' = update_id \/ (IsBook(Head(wire)) /\ update_id' = Head(wire).update_id),
           ~InBand => TaskIsAhead', InBand => snapshot_task'.snapshot = NoId
    PROVE  RInv'
<1>1. /\ AtMost(wire, pushed)' /\ AtMost(replaying, venue_id)
      /\ Head(wire).update_id \in Nat
      /\ IsBook(Head(wire)) => Head(wire).update_id <= pushed
      /\ ~InBand => NoSnapshot(wire)'
      /\ InBand => /\ AtLeast(wire', update_id) /\ InOrder(wire)'
                   /\ IsBook(Head(wire)) => AtLeast(wire', Head(wire).update_id)
  BY TakenIds
<1>2. /\ update_id \in Nat /\ pushed \in Nat /\ venue_id \in Nat
      /\ pushed <= venue_id /\ update_id <= venue_id
  BY DEF Typed, RInv, IdsArePast
<1>3. IdsArePast' /\ OpensUnsynced'
  <2>1. AtMost(replaying, venue_id)'
    BY <1>1 DEF AtMost
  <2>2. update_id' <= venue_id'
    BY <1>1, <1>2
  <2> QED BY <1>1, <2>1, <2>2 DEF IdsArePast, OpensUnsynced
<1>4. AnswerIsAhead'
  BY <1>1 DEF AnswerIsAhead, TaskIsAhead, InBand
<1>5. StreamIsAhead'
  <2> SUFFICES ASSUME InBand
               PROVE  /\ (update_id <= pushed)' /\ AtLeast(wire, update_id)' /\ InOrder(wire)'
                      /\ (replaying = <<>>)' /\ (snapshot_task.snapshot = NoId)'
    BY DEF StreamIsAhead, InBand
  <2>1. update_id <= pushed /\ replaying = <<>>
    BY DEF RInv, StreamIsAhead
  <2>2. AtLeast(wire', update_id')
    BY <1>1
  <2> QED BY <1>1, <1>2, <2>1, <2>2, NextWire
<1> QED BY <1>3, <1>4, <1>5 DEF RInv

\* A diff or a snapshot is taken by one of the handlers.
LEMMA RecvStaysAhead == IInv /\ RInv /\ RecvStep => RInv'
<1> SUFFICES ASSUME IInv, RInv, RecvStep PROVE RInv'
  OBVIOUS
<1>a. Typed
  BY TypedFollows
<1>b. IdsArePast /\ AnswerIsAhead /\ StreamIsAhead
  BY DEF RInv
<1>c. /\ wire # <<>> /\ wire' = Tail(wire) /\ UNCHANGED <<venue_id, pushed>>
  BY DEF RecvStep, RecvTrade, RecvSnapshot, RecvUnsynced, RecvFetchFailed, RecvResyncSent,
         RecvFetchDone, RecvApplied, RecvCrossed, RecvGap, ReceiveDepth, Receive, venue
<1>d. /\ AtMost(buffer, venue_id)
      /\ IsBook(Head(wire)) => Head(wire).update_id <= venue_id
      /\ ~InBand => Head(wire).kind # "snapshot"
  BY <1>a, <1>c, TakenIds, BoundAssumption DEF Typed
<1>e. /\ ~InBand => TaskIsAhead
      /\ InBand => snapshot_task.snapshot = NoId
  BY <1>b DEF AnswerIsAhead, StreamIsAhead, TaskIsAhead
<1>1. CASE RecvTrade
  <2>1. UNCHANGED <<buffer, replaying, snapshot_task, update_id, synced>> /\ pc' = "tail"
    BY <1>1 DEF RecvTrade, ob, task, replay
  <2>2. AtMost(buffer, venue_id)' /\ (~InBand => TaskIsAhead')
    BY <1>c, <1>d, <1>e, <2>1 DEF AtMost, TaskIsAhead
  <2> QED BY <1>a, <1>c, <1>e, <2>1, <2>2, TakenStaysAhead
<1>2. CASE RecvSnapshot
  <2>1. /\ UNCHANGED <<replaying, snapshot_task>> /\ pc' = "tail" /\ buffer' = <<>>
        /\ Head(wire).kind = "snapshot" /\ update_id' = Head(wire).update_id
    BY <1>2 DEF RecvSnapshot, ReceiveDepth, Receive, Adopt, task, replay
  <2>2. InBand /\ IsBook(Head(wire)) /\ AtMost(buffer, venue_id)'
    BY <1>d, <2>1 DEF IsBook, AtMost
  <2> QED BY <1>a, <1>c, <1>e, <2>1, <2>2, TakenStaysAhead
<1>3. CASE RecvUnsynced \/ RecvFetchFailed \/ RecvResyncSent
  <2>1. /\ UNCHANGED <<replaying, update_id, synced>> /\ pc' = "tail"
        /\ buffer' = Append(buffer, Head(wire)) /\ Head(wire).kind = "diff" /\ ~synced
        /\ snapshot_task' = snapshot_task \/ snapshot_task' = Started \/ snapshot_task' = NoTask
    BY <1>3 DEF RecvUnsynced, RecvFetchFailed, RecvResyncSent, ReceiveDepth, Receive, ob, task,
                replay
  <2>2. Head(wire) \in Event /\ IsBook(Head(wire))
    BY <1>c, <2>1, HeadDiff DEF IsBook
  <2>3. AtMost(buffer, venue_id)'
    <3>1. AtMost(buffer', venue_id)
      BY <1>a, <1>d, <2>1, <2>2, BufferedIds
    <3> QED BY <1>c, <3>1 DEF AtMost
  <2>4. ~InBand => TaskIsAhead'
    BY <1>c, <1>e, <2>1 DEF TaskIsAhead, Started, NoTask
  <2>5. InBand => snapshot_task'.snapshot = NoId
    BY <1>e, <2>1 DEF Started, NoTask
  <2> QED BY <1>a, <1>c, <2>1, <2>3, <2>4, <2>5, TakenStaysAhead
<1>4. CASE RecvFetchDone
  <2>1. /\ snapshot_task.status = "done" /\ snapshot_task.snapshot # NoId
        /\ update_id' = snapshot_task.snapshot /\ snapshot_task' = NoTask
        /\ replaying' = Append(buffer, Head(wire)) /\ buffer' = <<>> /\ pc' = "replay"
        /\ Head(wire).kind = "diff"
    BY <1>4 DEF RecvFetchDone, ReceiveDepth, Receive, Adopt
  <2>2. ~InBand /\ update_id' <= venue_id
    BY <1>e, <2>1 DEF TaskIsAhead
  <2>3. Head(wire) \in Event /\ IsBook(Head(wire))
    BY <1>c, <2>1, HeadDiff DEF IsBook
  <2>4. AtMost(replaying', venue_id)
    BY <1>a, <1>d, <2>1, <2>3, BufferedIds
  <2>5. AtMost(replaying, venue_id)' /\ AtMost(buffer, venue_id)'
    BY <1>c, <2>1, <2>4 DEF AtMost
  <2>6. AtMost(wire, pushed)' /\ NoSnapshot(wire)'
    BY <1>a, <1>c, <2>2, TakenIds
  <2> QED BY <1>c, <2>1, <2>2, <2>5, <2>6
          DEF RInv, IdsArePast, AnswerIsAhead, TaskIsAhead, StreamIsAhead, OpensUnsynced,
              NoTask, InBand
<1>5. CASE RecvApplied
  <2>1. /\ UNCHANGED <<buffer, replaying, snapshot_task, synced>> /\ pc' = "tail" /\ synced
        /\ Head(wire).kind = "diff" /\ update_id' = Head(wire).update_id
    BY <1>5 DEF RecvApplied, ReceiveDepth, Receive, ApplyDiff, task, replay
  <2>2. AtMost(buffer, venue_id)' /\ IsBook(Head(wire))
    BY <1>c, <1>d, <2>1 DEF AtMost, IsBook
  <2>3. ~InBand => TaskIsAhead'
    BY <1>e, <2>1 DEF TaskIsAhead
  <2> QED BY <1>a, <1>c, <1>e, <2>1, <2>2, <2>3, TakenStaysAhead
<1>6. CASE RecvCrossed \/ RecvGap
  <2>1. /\ replaying' = replaying /\ pc' = "tail" /\ synced /\ Gap(Head(wire))
        /\ Head(wire).kind = "diff"
        /\ update_id' = update_id \/ update_id' = Head(wire).update_id
    BY <1>6 DEF RecvCrossed, RecvGap, ReceiveDepth, Receive, ApplyDiff, replay
  <2>2. Head(wire) \in Event /\ IsBook(Head(wire))
    BY <1>c, <2>1, HeadDiff DEF IsBook
  <2>3. synced' = FALSE /\ snapshot_task' = Started /\ AtMost(buffer, venue_id)'
    BY <1>a, <1>c, <1>d, <2>1, <2>2, GapIds
  <2>4. TaskIsAhead' /\ snapshot_task'.snapshot = NoId
    BY <2>3 DEF TaskIsAhead, Started
  <2> QED BY <1>a, <1>c, <2>1, <2>2, <2>3, <2>4, TakenStaysAhead
<1> QED BY <1>1, <1>2, <1>3, <1>4, <1>5, <1>6 DEF RecvStep

\* The replay of a buffer, which only a REST venue has.
LEMMA ReplayStaysAhead == IInv /\ RInv /\ ReplayStep => RInv'
<1> SUFFICES ASSUME IInv, RInv, ReplayStep PROVE RInv'
  OBVIOUS
<1>a. Typed
  BY TypedFollows
<1>b. IdsArePast /\ AnswerIsAhead /\ StreamIsAhead
  BY DEF RInv
<1>1. CASE ReplayEnd
  <2>1. /\ UNCHANGED <<venue_id, pushed, wire, buffer, replaying, snapshot_task, update_id, synced>>
        /\ pc' = "tail"
    BY <1>1 DEF ReplayEnd, venue, socket, ob, task, replay
  <2> QED BY <2>1, QuietKeeps
<1>2. CASE ~ReplayEnd
  <2>1. /\ replaying # <<>> /\ replaying' = Tail(replaying) /\ pc = "replay" /\ pc' = pc
        /\ UNCHANGED <<venue_id, pushed, wire>>
    BY <1>2 DEF ReplayStep, ReplayDrop, ReplayKeep, ReplayApplied, ReplayCrossed, ReplayGap,
                ReplayJoins, ReplayNext, venue, socket, control
  <2>2. ~InBand /\ TaskIsAhead
    BY <1>b, <2>1 DEF StreamIsAhead, AnswerIsAhead, TaskIsAhead
  <2>3. /\ Head(replaying) \in Event /\ Head(replaying).update_id <= venue_id
        /\ AtMost(Tail(replaying), venue_id)
    <3>1. Head(replaying) \in Event /\ Head(replaying) \in GenuineDiffs
      BY <2>1, HeadOfReplay
    <3>2. IsBook(Head(replaying))
      BY <3>1 DEF GenuineDiffs, IsBook
    <3>3. replaying \in Seq(Event \cup Trade) /\ venue_id \in Nat
      BY <1>a DEF Typed
    <3> QED BY <1>b, <2>1, <3>1, <3>2, <3>3, TailIds DEF IdsArePast
  <2>4. update_id' = update_id \/ update_id' = Head(replaying).update_id
    BY <1>2 DEF ReplayStep, ReplayDrop, ReplayKeep, ReplayApplied, ReplayCrossed, ReplayGap,
                ReplayJoins, ApplyDiff, ob
  <2>5. AtMost(buffer, venue_id)' /\ TaskIsAhead'
    <3>1. CASE ReplayDrop \/ ReplayKeep
      <4>1. /\ UNCHANGED <<snapshot_task, update_id, synced>>
            /\ buffer' = buffer \/ buffer' = Append(buffer, Head(replaying))
        BY <3>1 DEF ReplayDrop, ReplayKeep, ob, task
      <4>2. AtMost(buffer', venue_id)
        BY <1>a, <1>b, <2>3, <4>1, BufferedIds DEF IdsArePast
      <4> QED BY <2>1, <2>2, <4>1, <4>2 DEF AtMost, TaskIsAhead
    <3>2. CASE ReplayApplied
      <4>1. UNCHANGED <<buffer, snapshot_task, synced>> /\ synced
        BY <3>2 DEF ReplayApplied, ReplayJoins, task
      <4> QED BY <1>b, <2>1, <2>2, <4>1 DEF IdsArePast, AtMost, TaskIsAhead
    <3>3. CASE ReplayCrossed \/ ReplayGap
      <4>1. synced /\ Gap(Head(replaying))
        BY <3>3 DEF ReplayCrossed, ReplayGap, ReplayJoins
      <4>2. synced' = FALSE /\ snapshot_task' = Started /\ AtMost(buffer, venue_id)'
        BY <1>a, <2>1, <2>3, <4>1, GapIds
      <4> QED BY <4>2 DEF TaskIsAhead, Started
    <3> QED BY <1>2, <3>1, <3>2, <3>3 DEF ReplayStep
  <2>6. IdsArePast' /\ OpensUnsynced'
    <3>1. AtMost(replaying, venue_id)' /\ AtMost(wire, pushed)'
      BY <1>b, <2>1, <2>3 DEF IdsArePast, AtMost
    <3> QED BY <1>b, <2>1, <2>3, <2>4, <2>5, <3>1 DEF IdsArePast, OpensUnsynced
  <2>7. AnswerIsAhead' /\ StreamIsAhead'
    BY <1>b, <2>1, <2>2, <2>5
       DEF AnswerIsAhead, StreamIsAhead, TaskIsAhead, NoSnapshot, InBand
  <2> QED BY <2>6, <2>7 DEF RInv
<1> QED BY <1>1, <1>2

\* RInv is preserved by every step of the collector.
LEMMA RInvKept == IInv /\ RInv /\ [Next]_vars => RInv'
BY VenueStaysAhead, FetchStaysAhead, OpenStaysAhead, EndsStayAhead, RecvStaysAhead,
   ReplayStaysAhead DEF Next, Ended

-----------------------------------------------------------------------------
(* The refinement, step by step *)

Up == pc \notin {"off", "done"}

\* A step that neither moves the book nor starts or ends the process is none of LiveBook's.
LEMMA Stutters ==
    ASSUME UNCHANGED <<venue_id, ladders, update_id, synced, anchor>>, Up' <=> Up
    PROVE  UNCHANGED Live!vars
<1>1. (pc \notin {"off", "done"})' = (pc \notin {"off", "done"})
  BY DEF Up
<1> QED BY <1>1 DEF Live!vars, Live!book

\* The end of a process, with or without the book's sync.
LEMMA Halts ==
    ASSUME UNCHANGED <<venue_id, ladders, update_id, anchor>>, synced' = synced \/ synced' = FALSE,
           Up, ~Up'
    PROVE  Live!Next
<1>1. Live!Halt
  BY DEF Live!Halt, Up
<1> QED BY <1>1 DEF Live!Next, Live!BookStep

\* A book that is distrusted, or was before, while the process lives.
LEMMA Distrusts ==
    ASSUME Typed, UNCHANGED <<venue_id, ladders, update_id, anchor>>, synced' = FALSE, Up, Up'
    PROVE  Live!Next \/ UNCHANGED Live!vars
<1>1. CASE synced
  <2>1. Live!Lose
    BY <1>1 DEF Live!Lose, Up
  <2> QED BY <2>1 DEF Live!Next, Live!BookStep
<1>2. CASE ~synced
  <2>1. synced' = synced
    BY <1>2 DEF Typed
  <2> QED BY <2>1, Stutters
<1> QED BY <1>1, <1>2

\* The abstract book's ladders are cut, and its levels change, as the collector's.
LEMMA LiveLadders ==
    /\ \A bk, n : Live!Ladder(bk, n) = Ladder(bk, n)
    /\ \A a, u : Live!Changed(a, u) = Changed(a, u)
    /\ \A bk : Live!IsCrossed(bk) <=> IsCrossed(bk)
    /\ Live!SnapshotDepth = SnapshotDepth /\ Live!Level = Level /\ Live!Ids = Ids
<1>1. Live!Level = Level /\ Live!Ids = Ids
  BY DEF Live!Level, Level, Live!Ids, Ids
<1>2. \A l, m : Live!Better(l, m) <=> Better(l, m)
  BY DEF Live!Better, Better
<1>3. \A bk, l, n : Live!Within(bk, l, n) <=> Within(bk, l, n)
  <2> TAKE bk, l, n
  <2>1. {m \in Live!Level : Live!Better(m, l) /\ bk[m] > 0}
            = {m \in Level : Better(m, l) /\ bk[m] > 0}
    BY <1>1, <1>2
  <2> QED BY <2>1 DEF Live!Within, Within, Live!Cardinality, Cardinality
<1>4. \A bk, n : Live!Ladder(bk, n) = Ladder(bk, n)
  BY <1>1, <1>3 DEF Live!Ladder, Ladder
<1>5. \A a, u : Live!Changed(a, u) = Changed(a, u)
  BY <1>1 DEF Live!Changed, Changed
<1>6. \A bk : Live!IsCrossed(bk) <=> IsCrossed(bk)
  BY DEF Live!IsCrossed, Live!Bids, Live!Asks, IsCrossed, Bids, Asks
<1>7. Live!SnapshotDepth = SnapshotDepth
  BY DEF Live!SnapshotDepth, Live!InBand, SnapshotDepth, InBand
<1> QED BY <1>1, <1>4, <1>5, <1>6, <1>7

\* A snapshot that is adopted.
LEMMA Adopts ==
    ASSUME Typed, NEW n \in Ids, update_id <= n, n <= venue_id, UNCHANGED venue_id,
           ladders' = Ladder(VenueBook[n], SnapshotDepth), update_id' = n, synced' = TRUE,
           anchor' = n, Up, Up'
    PROVE  Live!Next
<1>1. n \in update_id..venue_id
  BY BoundAssumption DEF Typed, Ids
<1>2. ladders' = Live!Ladder(VenueBook[n], Live!SnapshotDepth)
  BY LiveLadders
<1>3. Live!Adopt(n)
  BY <1>1, <1>2 DEF Live!Adopt, Live!MoveTo, Up
<1> QED BY <1>3, LiveLadders DEF Live!Next, Live!BookStep

\* What a book is after a diff: a level that is not the venue's is as it was, and the
\* updates in between did not touch it.
Moves(was, is, id, n) ==
    \A l \in Level : is[l] # VenueBook[n][l] => is[l] = was[l] /\ l \notin Changed(id, n)

\* A diff that is applied, and crosses the book or not.
LEMMA Follows ==
    ASSUME Typed, NEW n \in Ids, synced, update_id <= n, n <= venue_id,
           UNCHANGED <<venue_id, anchor>>, ladders' \in Ladders, update_id' = n,
           Moves(ladders, ladders', update_id, n),
           synced' = ~IsCrossed(ladders'), Up, Up'
    PROVE  Live!Next
<1> DEFINE rest == {l \in Level : ladders'[l] # VenueBook[n][l]}
<1>1. n \in update_id..venue_id
  BY BoundAssumption DEF Typed, Ids
<1>2. rest \subseteq {l \in Level : ladders[l] # VenueBook[n][l]} \ Changed(update_id, n)
  BY DEF Moves
<1>3. rest \in SUBSET Live!Missing(n)
  BY <1>2, LiveLadders DEF Live!Missing
<1>4. ladders' = [l \in Level |-> IF l \in rest THEN ladders[l] ELSE VenueBook[n][l]]
  <2>1. ladders' = [l \in Level |-> ladders'[l]]
    BY DEF Ladders
  <2>2. \A l \in Level : ladders'[l] = IF l \in rest THEN ladders[l] ELSE VenueBook[n][l]
    BY DEF Moves
  <2> HIDE DEF rest
  <2> QED BY <2>1, <2>2
<1> HIDE DEF rest
<1>5. ladders' = [l \in Live!Level |-> IF l \in rest THEN ladders[l] ELSE VenueBook[n][l]]
  BY <1>4, LiveLadders
<1>6. synced' = ~Live!IsCrossed(ladders')
  BY LiveLadders
<1>7. Live!Follow(n)
  BY <1>1, <1>3, <1>5, <1>6 DEF Live!Follow, Live!MoveTo, Up
<1> QED BY <1>7, LiveLadders DEF Live!Next, Live!BookStep

\* Applying a diff that a rule accepts moves a book so.
LEMMA AppliedMoves ==
    ASSUME NEW ev \in GenuineDiffs, NEW id \in Ids, NEW bk \in Ladders,
           FirstEventOk(ev, id) \/ NextEventOk(ev, id)
    PROVE  Moves(bk, Apply(bk, ev), id, ev.update_id)
<1> DEFINE u == ev.update_id
<1>1. PICK prev \in Ids : prev < u /\ ev \in DiffEvents(prev, u)
  BY DEF GenuineDiffs
<1>2. ev \in Event /\ ev.kind = "diff" /\ u \in Ids
  BY DEF GenuineDiffs, Event
<1>3. prev <= id /\ id <= u
  BY <1>1, <1>2, AcceptedCovers
<1>4. ev.levels = [l \in Level |-> IF l \in Changed(prev, u) THEN VenueBook[u][l] ELSE Unsaid]
  BY <1>1 DEF DiffEvents
<1>5. id..u \subseteq prev..u
  BY <1>1, <1>2, <1>3, BoundAssumption DEF Ids
<1>6. ASSUME NEW l \in Level, Apply(bk, ev)[l] # VenueBook[u][l]
      PROVE  Apply(bk, ev)[l] = bk[l] /\ l \notin Changed(id, u)
  <2>1. VenueBook[u][l] # Unsaid
    BY <1>2, <1>6, HistoryAssumption DEF Ids, Ladders, Unsaid
  <2>2. l \notin Changed(prev, u)
    BY <1>4, <1>6, <2>1 DEF Apply
  <2>3. Apply(bk, ev)[l] = bk[l]
    BY <1>4, <1>6, <2>2 DEF Apply
  <2>4. l \notin Changed(id, u)
    BY <1>5, <2>2 DEF Changed
  <2> QED BY <2>3, <2>4
<1> QED BY <1>6 DEF Moves

\* A message that a rule accepts moves a synced book on to the message's id.
LEMMA AppliesAsFollow ==
    ASSUME IInv, RInv, synced, NEW ev \in GenuineDiffs, ev.update_id <= venue_id,
           FirstEventOk(ev, update_id) \/ NextEventOk(ev, update_id),
           ladders' = Apply(ladders, ev), update_id' = ev.update_id,
           UNCHANGED <<venue_id, anchor>>,
           synced' = ~IsCrossed(Apply(ladders, ev)), Up, Up'
    PROVE  Live!Next
<1>1. ladders \in Ladders /\ update_id \in Ids
  BY DEF IInv, TypeOK, SyncTypeOK
<1>2. ev \in Event /\ ev.update_id \in Ids
  BY DEF GenuineDiffs, Event
<1>3. ladders' \in Ladders
  BY <1>1, <1>2, LaddersType
<1>4. update_id <= ev.update_id
  BY <1>1, AcceptedIsAhead
<1>5. Moves(ladders, ladders', update_id, ev.update_id)
  BY <1>1, AppliedMoves
<1> QED BY <1>2, <1>3, <1>4, <1>5, TypedFollows, Follows

\* Of the venue's steps only its updates are seen in the abstract book, of the
\* snapshot task's and the handlers' ends none.
LEMMA QuietSteps ==
    IInv /\ (VenueStep \/ FetchStep \/ LoopStep \/ UNCHANGED vars)
        => (Live!Next \/ UNCHANGED Live!vars)
<1> SUFFICES ASSUME IInv, VenueStep \/ FetchStep \/ LoopStep \/ UNCHANGED vars
             PROVE  Live!Next \/ UNCHANGED Live!vars
  OBVIOUS
<1>1. CASE VenueUpdate
  <2>1. Live!VenueMoves
    BY <1>1 DEF VenueUpdate, control, ob, replay, Live!VenueMoves, Live!book
  <2> QED BY <2>1 DEF Live!Next
<1>2. CASE VenuePush \/ VenueTrade \/ FetchStep \/ UNCHANGED vars
  <2>1. UNCHANGED <<venue_id, ladders, update_id, synced, anchor, pc>>
    BY <1>2 DEF VenuePush, VenueTrade, FetchStep, FetchServed, FetchAnswered, FetchFailed,
                Unsubscribe, Resubscribe, ResubscribeFailed, vars, venue, control, ob, replay
  <2> QED BY <2>1, Stutters DEF Up
<1>3. CASE LoopStep
  <2>1. /\ UNCHANGED <<venue_id, ladders, update_id, synced, anchor>>
        /\ pc \in {"tail", "update_run"} /\ pc' \in {"recv", "update_run"}
    BY <1>3 DEF LoopStep, EndOfMessage, RunUpdated, venue, ob, replay
  <2> QED BY <2>1, Stutters DEF Up
<1> QED BY <1>1, <1>2, <1>3 DEF VenueStep

\* The life of sessions and of the process.
LEMMA SessionSteps ==
    IInv /\ (OpenStep \/ CloseStep \/ Stop \/ Crash) => (Live!Next \/ UNCHANGED Live!vars)
<1> SUFFICES ASSUME IInv, OpenStep \/ CloseStep \/ Stop \/ Crash
             PROVE  Live!Next \/ UNCHANGED Live!vars
  OBVIOUS
<1>a. Typed
  BY TypedFollows
<1>1. CASE Start
  <2>1. Live!Boot
    BY <1>1 DEF Start, OpenSession, venue, Live!Boot, Live!EmptyLadders, EmptyLadders,
                Live!Level, Level, Live!NoId, NoId
  <2> QED BY <2>1 DEF Live!Next, Live!BookStep
<1>2. CASE Connected \/ RunStarted \/ OpenFailed \/ Disconnected
  <2>1. /\ UNCHANGED <<venue_id, ladders, update_id, synced, anchor>>
        /\ pc \in {"connect", "start_run", "recv"} /\ pc' \in {"start_run", "recv", "closing"}
    BY <1>2 DEF Connected, RunStarted, OpenFailed, Disconnected, CloseSession, venue, ob, replay
  <2> QED BY <2>1, Stutters DEF Up
<1>3. CASE Reconnect
  <2>1. /\ UNCHANGED <<venue_id, ladders, update_id, anchor>> /\ synced' = FALSE
        /\ pc = "sleep" /\ pc' = "connect"
    BY <1>3 DEF Reconnect, OpenSession, venue, replay
  <2> QED BY <1>a, <2>1, Distrusts DEF Up
<1>4. CASE SourceClosed
  <2>1. /\ UNCHANGED <<venue_id, ladders, update_id, anchor>> /\ synced' = FALSE
        /\ pc = "closing" /\ pc' \in {"finish_run", "sleep", "done"}
    BY <1>4 DEF SourceClosed, AfterClose, venue, replay
  <2> QED BY <1>a, <2>1, Distrusts, Halts DEF Up
<1>5. CASE FinishRun
  <2>1. /\ UNCHANGED <<venue_id, ladders, update_id, synced, anchor>>
        /\ pc = "finish_run" /\ pc' \in {"sleep", "done"}
    BY <1>5 DEF FinishRun, AfterClose, venue, ob, replay
  <2> QED BY <2>1, Stutters, Halts DEF Up
<1>6. CASE Stop
  <2>1. /\ UNCHANGED <<venue_id, ladders, update_id, synced, anchor>>
        /\ pc \in {"connect", "start_run", "recv", "update_run", "closing", "finish_run", "sleep"}
        /\ pc' \in {"closing", "done"}
    BY <1>6 DEF Stop, InSession, CloseSession, venue, ob, replay
  <2> QED BY <2>1, Stutters, Halts DEF Up
<1>7. CASE Crash
  <2>1. /\ UNCHANGED <<venue_id, ladders, update_id, synced, anchor>>
        /\ pc \notin {"off", "done"} /\ pc' = "off"
    BY <1>7 DEF Crash, venue, ob, replay
  <2> QED BY <2>1, Halts DEF Up
<1> QED BY <1>1, <1>2, <1>3, <1>4, <1>5, <1>6, <1>7 DEF OpenStep, CloseStep

\* A message that is handled is an adoption, a diff followed, a gap, or nothing.
LEMMA RecvSteps == IInv /\ RInv /\ RecvStep => (Live!Next \/ UNCHANGED Live!vars)
<1> SUFFICES ASSUME IInv, RInv, RecvStep PROVE Live!Next \/ UNCHANGED Live!vars
  OBVIOUS
<1>a. Typed
  BY TypedFollows
<1>b. AnswerIsAhead /\ StreamIsAhead
  BY DEF RInv
<1>c. /\ wire # <<>> /\ wire' = Tail(wire) /\ UNCHANGED <<venue_id, pushed>> /\ pc = "recv"
  BY DEF RecvStep, RecvTrade, RecvSnapshot, RecvUnsynced, RecvFetchFailed, RecvResyncSent,
         RecvFetchDone, RecvApplied, RecvCrossed, RecvGap, ReceiveDepth, Receive, venue
<1>d. /\ IsBook(Head(wire)) => Head(wire).update_id <= venue_id
      /\ ~InBand => Head(wire).kind # "snapshot"
      /\ InBand /\ IsBook(Head(wire)) => update_id <= Head(wire).update_id
  BY <1>a, <1>c, TakenIds DEF Typed
<1>1. CASE RecvTrade \/ RecvUnsynced \/ RecvFetchFailed \/ RecvResyncSent
  <2>1. UNCHANGED <<ladders, update_id, synced, anchor>> /\ pc' = "tail"
    BY <1>1 DEF RecvTrade, RecvUnsynced, RecvFetchFailed, RecvResyncSent, ob, replay
  <2> QED BY <1>c, <2>1, Stutters DEF Up
<1>2. CASE RecvSnapshot
  <2>1. /\ Head(wire).kind = "snapshot" /\ update_id' = Head(wire).update_id /\ synced' = TRUE
        /\ ladders' = Reset(Head(wire).levels) /\ anchor' = update_id' /\ pc' = "tail"
    BY <1>2 DEF RecvSnapshot, ReceiveDepth, Receive, Adopt
  <2>2. /\ update_id' \in Ids /\ ladders' = Ladder(VenueBook[update_id'], SnapshotDepth)
    BY <1>c, <2>1, HeadSnapshot, ResetIsTheSnapshot
  <2>3. update_id <= update_id' /\ update_id' <= venue_id
    BY <1>d, <2>1 DEF IsBook
  <2> QED BY <1>a, <1>c, <2>1, <2>2, <2>3, Adopts DEF Up
<1>3. CASE RecvFetchDone
  <2>1. /\ snapshot_task.status = "done" /\ snapshot_task.snapshot # NoId
        /\ update_id' = snapshot_task.snapshot /\ synced' = TRUE
        /\ ladders' = Reset(SnapshotLevels(snapshot_task.snapshot))
        /\ anchor' = update_id' /\ pc' = "replay"
    BY <1>3 DEF RecvFetchDone, Adopt
  <2>2. update_id' \in Ids /\ ladders' = Ladder(VenueBook[update_id'], SnapshotDepth)
    BY <2>1, ResetIsTheSnapshot DEF IInv, TypeOK, SyncTypeOK, OptId
  <2>3. update_id <= update_id' /\ update_id' <= venue_id
    BY <1>b, <2>1 DEF AnswerIsAhead, TaskIsAhead, StreamIsAhead
  <2> QED BY <1>a, <1>c, <2>1, <2>2, <2>3, Adopts DEF Up
<1>4. CASE RecvApplied \/ RecvCrossed
  <2>1. /\ synced /\ LiveOk(Head(wire)) /\ Head(wire).kind = "diff" /\ pc' = "tail"
        /\ ladders' = Apply(ladders, Head(wire)) /\ update_id' = Head(wire).update_id
        /\ UNCHANGED anchor
    BY <1>4 DEF RecvApplied, RecvCrossed, ReceiveDepth, Receive, ApplyDiff, replay
  <2>2. synced' = ~IsCrossed(Apply(ladders, Head(wire)))
    <3>1. CASE RecvApplied
      BY <2>1, <3>1 DEF RecvApplied
    <3>2. CASE RecvCrossed
      BY <3>2 DEF RecvCrossed, Gap
    <3> QED BY <1>4, <3>1, <3>2
  <2>3. Head(wire) \in GenuineDiffs /\ Head(wire).update_id <= venue_id
    BY <1>c, <1>d, <2>1, HeadDiff DEF IsBook
  <2>4. FirstEventOk(Head(wire), update_id) \/ NextEventOk(Head(wire), update_id)
    BY <2>1 DEF LiveOk
  <2> QED BY <1>c, <2>1, <2>2, <2>3, <2>4, AppliesAsFollow DEF Up
<1>5. CASE RecvGap
  <2>1. UNCHANGED <<ladders, update_id, anchor>> /\ synced' = FALSE /\ pc' = "tail"
    BY <1>5 DEF RecvGap, Gap, replay
  <2> QED BY <1>a, <1>c, <2>1, Distrusts DEF Up
<1> QED BY <1>1, <1>2, <1>3, <1>4, <1>5 DEF RecvStep

\* So is a message that is replayed.
LEMMA ReplaySteps == IInv /\ RInv /\ ReplayStep => (Live!Next \/ UNCHANGED Live!vars)
<1> SUFFICES ASSUME IInv, RInv, ReplayStep PROVE Live!Next \/ UNCHANGED Live!vars
  OBVIOUS
<1>a. Typed
  BY TypedFollows
<1>b. UNCHANGED <<venue_id, anchor>> /\ pc = "replay" /\ pc' \in {"replay", "tail"}
  BY DEF ReplayStep, ReplayDrop, ReplayKeep, ReplayApplied, ReplayCrossed, ReplayGap,
         ReplayEnd, ReplayJoins, ReplayNext, venue, control, replay
<1>1. CASE ReplayDrop \/ ReplayKeep \/ ReplayEnd
  <2>1. UNCHANGED <<ladders, update_id, synced, anchor>>
    BY <1>b, <1>1 DEF ReplayDrop, ReplayKeep, ReplayEnd, ob
  <2> QED BY <1>b, <2>1, Stutters DEF Up
<1>2. CASE ReplayApplied \/ ReplayCrossed
  <2>1. /\ synced /\ replaying # <<>> /\ ReplayOk(Head(replaying))
        /\ ladders' = Apply(ladders, Head(replaying)) /\ update_id' = Head(replaying).update_id
    BY <1>2 DEF ReplayApplied, ReplayCrossed, ReplayJoins, ReplayNext, ApplyDiff
  <2>2. synced' = ~IsCrossed(Apply(ladders, Head(replaying)))
    <3>1. CASE ReplayApplied
      BY <2>1, <3>1 DEF ReplayApplied
    <3>2. CASE ReplayCrossed
      BY <3>2 DEF ReplayCrossed, Gap
    <3> QED BY <1>2, <3>1, <3>2
  <2>3. Head(replaying) \in GenuineDiffs /\ Head(replaying).update_id <= venue_id
    <3>1. Head(replaying) \in GenuineDiffs /\ IsBook(Head(replaying))
      BY <2>1, HeadOfReplay DEF GenuineDiffs, IsBook
    <3>2. replaying \in Seq(Event \cup Trade) /\ venue_id \in Nat /\ AtMost(replaying, venue_id)
      BY <1>a DEF Typed, RInv, IdsArePast
    <3> QED BY <2>1, <3>1, <3>2, TailIds
  <2>4. FirstEventOk(Head(replaying), update_id) \/ NextEventOk(Head(replaying), update_id)
    BY <1>b, <2>1 DEF ReplayOk, IInv, ReplayStartsAtAnchor
  <2> QED BY <1>b, <2>1, <2>2, <2>3, <2>4, AppliesAsFollow DEF Up
<1>3. CASE ReplayGap
  <2>1. UNCHANGED <<ladders, update_id, anchor>> /\ synced' = FALSE
    BY <1>b, <1>3 DEF ReplayGap, Gap
  <2> QED BY <1>a, <1>b, <2>1, Distrusts DEF Up
<1> QED BY <1>1, <1>2, <1>3 DEF ReplayStep

-----------------------------------------------------------------------------
(* The theorems *)

\* RInv is an invariant of the collector: no answer and no message on its way is
\* behind the book it would replace.
THEOREM NothingIsBehind == Spec => []RInv
BY InitRInv, RInvKept, Inductive, PTL DEF Spec

\* The collector implements the abstract book: whatever is lost, late or replayed, the
\* book is begun from the venue's, cut at the limit, and only ever moved forward, to
\* some update with every level that changed on the way.
THEOREM Refinement == Spec => LiveSpec
<1>1. Init => Live!Init
  BY DEF Init, Live!Init, Live!EmptyLadders, EmptyLadders, Live!Level, Level,
         Live!NoId, NoId
<1>2. IInv /\ RInv /\ [Next]_vars => [Live!Next]_Live!vars
  BY QuietSteps, SessionSteps, RecvSteps, ReplaySteps DEF Next, Ended
<1> QED BY <1>1, <1>2, Inductive, NothingIsBehind, PTL DEF Spec, LiveSpec, Live!Spec

=============================================================================
