---------------------------- MODULE OutletsProofs ----------------------------
(***************************************************************************)
(* Proofs about Outlets, for any history of any venue, any limit of the       *)
(* snapshots and any depth of view: what a reader was shown, and the order in  *)
(* which applied rows are read.                                               *)
(***************************************************************************)
EXTENDS Outlets, FiniteSetTheorems, TLAPS

-----------------------------------------------------------------------------
(* What a book can be held to.  These lemmas about BookSync are those of            *)
(* StreamCollectorProofs, whose variables keep it from being extended here.         *)

\* There are finitely many levels, so those ahead of one can be counted.
LEMMA LevelFinite == IsFiniteSet(Level)
<1>1. IsFiniteSet({"bid", "ask"})
    <2>1. IsFiniteSet({"bid"})
        BY FS_Singleton
    <2>2. IsFiniteSet({"bid"} \cup {"ask"})
        BY <2>1, FS_AddElement
    <2>3. {"bid"} \cup {"ask"} = {"bid", "ask"}
        OBVIOUS
    <2> QED
        BY <2>2, <2>3
<1> QED
    BY <1>1, FS_Product, BoundAssumption DEF Level

\* A book that understates another has no more levels ahead of any.
LEMMA FewerAhead ==
    ASSUME NEW bk, NEW u \in Ids, Understates(bk, u), NEW l \in Level, NEW n \in Nat,
           Within(VenueBook[u], l, n)
    PROVE  Within(bk, l, n)
<1> DEFINE ahead(b) == {m \in Level : Better(m, l) /\ b[m] > 0}
<1>1. ahead(bk) \subseteq ahead(VenueBook[u])
    BY DEF Understates
<1>2. ahead(VenueBook[u]) \subseteq Level
    OBVIOUS
<1>3. IsFiniteSet(ahead(VenueBook[u]))
    BY <1>2, LevelFinite, FS_Subset
<1>4. IsFiniteSet(ahead(bk)) /\ Cardinality(ahead(bk)) <= Cardinality(ahead(VenueBook[u]))
    BY <1>1, <1>3, FS_Subset
<1>5. Cardinality(ahead(bk)) \in Nat /\ Cardinality(ahead(VenueBook[u])) \in Nat
    BY <1>3, <1>4, FS_CardinalityType
<1>6. n = 0 \/ Cardinality(ahead(VenueBook[u])) < n
    BY DEF Within
<1>7. n = 0 \/ Cardinality(ahead(bk)) < n
    <2> HIDE DEF ahead
    <2> QED
        BY <1>4, <1>5, <1>6
<1> QED
    BY <1>7 DEF Within

\* Cutting a book that tells the venue's leaves one that tells its n best.
LEMMA LadderTells ==
    ASSUME NEW bk, NEW a, NEW u \in Ids, NEW n \in Nat, Tells(bk, a, u, 0)
    PROVE  Tells(Ladder(bk, n), a, u, n)
<1>1. Understates(bk, u) /\ \A l \in KnownLevels(a, u) : bk[l] = VenueBook[u][l]
    BY DEF Tells, Within
<1>2. Understates(Ladder(bk, n), u)
    BY <1>1 DEF Understates, Ladder
<1>3. ASSUME NEW l \in KnownLevels(a, u), Within(VenueBook[u], l, n)
      PROVE  Ladder(bk, n)[l] = VenueBook[u][l]
    <2>1. l \in Level
        BY DEF KnownLevels, Changed
    <2>2. Within(bk, l, n)
        BY <1>1, <1>3, <2>1, FewerAhead
    <2> QED
        BY <1>1, <2>1, <2>2 DEF Ladder
<1> QED
    BY <1>2, <1>3 DEF Tells

\* The part of a book near its touch is a book.
LEMMA LadderType == \A bk \in Ladders, n \in Nat : Ladder(bk, n) \in Ladders
BY DEF Ladder, Ladders

\* The best bid and ask are one pair.
LEMMA OneBest ==
    ASSUME NEW bk, NEW p \in Best(bk), NEW q \in Best(bk)
    PROVE  p[1] = q[1] /\ p[2] = q[2]
<1>1. /\ p[1] \in Bids(bk) /\ p[2] \in Asks(bk) /\ q[1] \in Bids(bk) /\ q[2] \in Asks(bk)
      /\ p[1] <= q[1] /\ q[1] <= p[1] /\ p[2] <= q[2] /\ q[2] <= p[2]
    BY DEF Best
<1>2. p[1] \in Prices /\ q[1] \in Prices /\ p[2] \in Prices /\ q[2] \in Prices
    BY <1>1 DEF Bids, Asks
<1>3. Prices \subseteq Nat
    BY BoundAssumption
<1>4. \A x, y \in Prices : x <= y /\ y <= x => x = y
    BY <1>3
<1> QED
    BY <1>1, <1>2, <1>4

\* The top of a book that tells the venue's is the venue's, where that is known.
LEMMA TopOfTold ==
    ASSUME NEW bk \in Ladders, NEW a, NEW u \in Ids, Tells(bk, a, u, 0)
    PROVE  TopTells(Top(bk), a, u)
<1> DEFINE v == VenueBook[u]
<1>1. /\ \A l \in Level : bk[l] \in {0, v[l]}
      /\ \A l \in KnownLevels(a, u) : bk[l] = v[l]
    BY DEF Tells, Understates, Within
<1>2. v \in [Level -> Nat] /\ bk \in [Level -> Nat]
    BY HistoryAssumption DEF Ids, Ladders
<1> HIDE DEF v
<1>3. \A p \in Prices : <<"bid", p>> \in Level /\ <<"ask", p>> \in Level
    BY DEF Level
<1>a. ASSUME NEW l \in Level, bk[l] > 0 PROVE v[l] = bk[l]
    BY <1>1, <1>2, <1>a
<1>b. \A p \in Prices : /\ bk[<<"bid", p>>] > 0 => v[<<"bid", p>>] = bk[<<"bid", p>>]
                        /\ bk[<<"ask", p>>] > 0 => v[<<"ask", p>>] = bk[<<"ask", p>>]
    BY <1>3, <1>a
<1>4. Bids(bk) \subseteq Bids(v) /\ Asks(bk) \subseteq Asks(v)
    BY <1>b DEF Bids, Asks
<1>5. ASSUME NEW t \in Top(bk)
      PROVE  t[2] = v[<<"bid", t[1]>>] /\ t[4] = v[<<"ask", t[3]>>]
    <2>1. PICK p \in Best(bk) :
              t = <<p[1], bk[<<"bid", p[1]>>], p[2], bk[<<"ask", p[2]>>]>>
        BY DEF Top
    <2>2. p[1] \in Bids(bk) /\ p[2] \in Asks(bk)
        BY DEF Best
    <2>3. /\ p[1] \in Prices /\ bk[<<"bid", p[1]>>] > 0
          /\ p[2] \in Prices /\ bk[<<"ask", p[2]>>] > 0
        BY <2>2 DEF Bids, Asks
    <2>4. t[1] = p[1] /\ t[2] = bk[<<"bid", p[1]>>] /\ t[3] = p[2] /\ t[4] = bk[<<"ask", p[2]>>]
        BY <2>1
    <2> QED
        BY <1>b, <2>3, <2>4
<1>6. ASSUME NEW p \in Best(v), <<"bid", p[1]>> \in KnownLevels(a, u),
             <<"ask", p[2]>> \in KnownLevels(a, u)
      PROVE  Top(bk) = Top(v)
    <2>1. /\ p = <<p[1], p[2]>> /\ p[1] \in Bids(v) /\ p[2] \in Asks(v)
          /\ \A b \in Bids(v) : b <= p[1]
          /\ \A x \in Asks(v) : p[2] <= x
        BY DEF Best
    <2>2. /\ p[1] \in Prices /\ v[<<"bid", p[1]>>] > 0
          /\ p[2] \in Prices /\ v[<<"ask", p[2]>>] > 0
        BY <2>1 DEF Bids, Asks
    <2>3. bk[<<"bid", p[1]>>] = v[<<"bid", p[1]>>] /\ bk[<<"ask", p[2]>>] = v[<<"ask", p[2]>>]
        BY <1>1, <1>6
    <2>4. p[1] \in Bids(bk) /\ p[2] \in Asks(bk)
        BY <2>2, <2>3 DEF Bids, Asks
    <2>5. p \in Best(bk)
        BY <1>4, <2>1, <2>4 DEF Best
    <2> DEFINE quote(b) == <<p[1], b[<<"bid", p[1]>>], p[2], b[<<"ask", p[2]>>]>>
    <2>6. Top(bk) = {quote(bk)}
        BY <2>5, OneBest DEF Top
    <2>7. Top(v) = {quote(v)}
        BY <1>6, OneBest DEF Top
    <2> QED
        BY <2>3, <2>6, <2>7
<1> QED
    BY <1>5, <1>6 DEF TopTells, v

\* A snapshot that is adopted tells the venue's book as far as it reaches.
LEMMA CutTells ==
    ASSUME NEW id \in Ids
    PROVE  LET cut == Ladder(VenueBook[id], SnapshotDepth)
           IN  cut \in Ladders /\ Tells(cut, id, id, 0)
<1> DEFINE cut == Ladder(VenueBook[id], SnapshotDepth)
<1>1. VenueBook[id] \in Ladders /\ SnapshotDepth \in Nat
  BY HistoryAssumption, LimitsAssumption DEF Ids, SnapshotDepth
<1>2. id..id = {id}
  BY BoundAssumption DEF Ids
<1>3. Changed(id, id) = {}
  BY <1>2 DEF Changed
<1>4. \A l \in KnownLevels(id, id) : cut[l] = VenueBook[id][l]
  BY <1>3 DEF KnownLevels, Ladder
<1>5. Understates(cut, id)
  BY DEF Understates, Ladder
<1> QED BY <1>1, <1>4, <1>5, LadderType DEF Tells

\* A book that follows the venue to update n: a level that is not the venue's is as it
\* was, and the updates in between did not touch it.
Moves(was, is, id, n) ==
    \A l \in Level : is[l] # VenueBook[n][l] => is[l] = was[l] /\ l \notin Changed(id, n)

\* Such a move leaves a book that tells the venue's.
LEMMA MovedTells ==
    ASSUME NEW id \in Ids, NEW n \in Ids, id <= n, NEW a \in OptId, NEW was, NEW is,
           Tells(was, a, id, 0), Moves(was, is, id, n)
    PROVE  Tells(is, a, n, 0)
<1>1. /\ \A l \in Level : was[l] \in {0, VenueBook[id][l]}
      /\ \A l \in KnownLevels(a, id) : was[l] = VenueBook[id][l]
  BY DEF Tells, Understates, Within
<1>2. /\ id \in id..n /\ a \in Int
      /\ \A b \in a..n : b \in id..n \/ b \in a..id
  BY BoundAssumption DEF Ids, OptId, NoId
<1>3. ASSUME NEW l \in Level, is[l] # VenueBook[n][l]
      PROVE  /\ is[l] = was[l] /\ VenueBook[id][l] = VenueBook[n][l]
             /\ \A b \in id..n : VenueBook[b][l] = VenueBook[n][l]
  <2>1. is[l] = was[l] /\ l \notin Changed(id, n)
    BY <1>3 DEF Moves
  <2>2. \A b \in id..n : VenueBook[b][l] = VenueBook[n][l]
    BY <2>1 DEF Changed
  <2> QED BY <1>2, <2>1, <2>2
<1>4. Understates(is, n)
  BY <1>1, <1>3 DEF Understates
<1>5. ASSUME NEW l \in KnownLevels(a, n) PROVE is[l] = VenueBook[n][l]
  <2> SUFFICES ASSUME is[l] # VenueBook[n][l] PROVE FALSE
    OBVIOUS
  <2>1. l \in Level
    BY DEF KnownLevels, Changed
  <2>2. l \in KnownLevels(a, id)
    <3>1. CASE l \in Changed(a, n)
      <4>1. PICK b \in a..n : VenueBook[b][l] # VenueBook[n][l]
        BY <3>1 DEF Changed
      <4>2. b \in a..id /\ VenueBook[b][l] # VenueBook[id][l]
        BY <1>2, <1>3, <2>1, <4>1
      <4> QED BY <2>1, <4>2 DEF KnownLevels, Changed
    <3>2. CASE l \notin Changed(a, n)
      BY <3>2 DEF KnownLevels
    <3> QED BY <3>1, <3>2
  <2> QED BY <1>1, <1>3, <2>1, <2>2
<1> QED BY <1>4, <1>5 DEF Tells

-----------------------------------------------------------------------------
(* The inductive invariant *)

Row == [kind : {"diff", "snapshot"}, update_id : Nat, ts : Nat]

IdsInOrder == venue_id \in Nat /\ update_id \in Ids /\ update_id <= venue_id

\* A book that is synced, or was, tells the venue's book at its id.
BookIsAMoment ==
    /\ ladders \in Ladders /\ anchor \in OptId
    /\ (synced \/ update_id # 0) => anchor # NoId
    /\ anchor # NoId => Tells(ladders, anchor, update_id, 0)

BookWasHeard ==
    last_event_at \in Nat /\ (update_id # 0 => 2 * update_id < last_event_at)

\* A row carries its update's own time, or, for a REST snapshot, a later one.
StampOk(r) ==
    /\ 2 * r.update_id <= r.ts
    /\ (r.kind = "diff" \/ InBand) => r.ts = 2 * r.update_id

RowsInOrder ==
    /\ rows \in Seq(Row)
    /\ \A i \in DOMAIN rows : StampOk(rows[i]) /\ rows[i].update_id <= update_id
    /\ \A i, j \in DOMAIN rows : i < j => rows[i].update_id <= rows[j].update_id

\* The inductive invariant.
OInv == IdsInOrder /\ BookIsAMoment /\ BookWasHeard /\ ViewIsOneMoment /\ RowsInOrder

-----------------------------------------------------------------------------
(* Rows *)

\* A row of the book's next position goes behind all the rows there are.
LEMMA AppendKeepsOrder ==
    ASSUME IdsInOrder, RowsInOrder, NEW r \in Row, StampOk(r),
           r.update_id = update_id', update_id <= update_id', update_id' \in Nat,
           rows' = Append(rows, r)
    PROVE  RowsInOrder'
<1>1. rows' \in Seq(Row) /\ Len(rows') = Len(rows) + 1 /\ Len(rows) \in Nat
  BY DEF RowsInOrder
<1>2. DOMAIN rows' = 1..Len(rows) + 1 /\ DOMAIN rows = 1..Len(rows)
  BY <1>1 DEF RowsInOrder
<1>3. \A i \in DOMAIN rows : rows'[i] = rows[i] /\ rows[i] \in Row
  BY <1>2 DEF RowsInOrder
<1>4. rows'[Len(rows) + 1] = r
  BY DEF RowsInOrder
<1>5. \A i \in DOMAIN rows' : StampOk(rows'[i]) /\ rows'[i].update_id <= update_id'
  <2> SUFFICES ASSUME NEW i \in DOMAIN rows'
               PROVE  StampOk(rows'[i]) /\ rows'[i].update_id <= update_id'
    OBVIOUS
  <2>1. CASE i \in DOMAIN rows
    BY <2>1, <1>3 DEF RowsInOrder, IdsInOrder, Ids, Row
  <2>2. CASE i = Len(rows) + 1
    BY <2>2, <1>4
  <2> QED BY <2>1, <2>2, <1>1, <1>2
<1>6. \A i, j \in DOMAIN rows' : i < j => rows'[i].update_id <= rows'[j].update_id
  <2> SUFFICES ASSUME NEW i \in DOMAIN rows', NEW j \in DOMAIN rows', i < j
               PROVE  rows'[i].update_id <= rows'[j].update_id
    OBVIOUS
  <2>1. i \in DOMAIN rows
    BY <1>1, <1>2
  <2>2. CASE j \in DOMAIN rows
    BY <2>1, <2>2, <1>3 DEF RowsInOrder
  <2>3. CASE j = Len(rows) + 1
    BY <2>1, <2>3, <1>3, <1>4 DEF RowsInOrder, IdsInOrder, Ids, Row
  <2> QED BY <2>2, <2>3, <1>1, <1>2
<1> QED BY <1>1, <1>5, <1>6 DEF RowsInOrder

\* While no row is added and the book does not go back, the order stands.
LEMMA SameRowsKeepOrder ==
    ASSUME IdsInOrder, RowsInOrder, UNCHANGED rows, update_id <= update_id',
           update_id' \in Nat
    PROVE  RowsInOrder'
<1>1. \A i \in DOMAIN rows : rows[i] \in Row
  BY DEF RowsInOrder
<1>2. \A i \in DOMAIN rows : rows[i].update_id <= update_id'
  BY <1>1 DEF RowsInOrder, IdsInOrder, Ids, Row
<1> QED BY <1>2 DEF RowsInOrder

\* What is recorded with a position of the book is stamped as its kind demands.
LEMMA DiffIsStamped ==
    ASSUME NEW n \in Nat PROVE Diff(n) \in Row /\ Diff(n).update_id = n /\ StampOk(Diff(n))
BY DEF Diff, Row, StampOk

LEMMA AnchorIsStamped ==
    ASSUME NEW n \in Nat, IdsInOrder, n <= venue_id, NEW ts \in AnchorTimes(n)
    PROVE  Anchor(n, ts) \in Row /\ Anchor(n, ts).update_id = n /\ StampOk(Anchor(n, ts))
<1>1. ts \in Nat /\ 2 * n <= ts /\ (InBand => ts = 2 * n)
  <2>1. CASE Venue = "binance_spot"
    BY <2>1 DEF AnchorTimes, Now, IdsInOrder, InBand
  <2>2. CASE Venue = "binance_futures"
    BY <2>2 DEF AnchorTimes, Now, IdsInOrder, InBand
  <2>3. CASE Venue = "deribit"
    BY <2>3 DEF AnchorTimes, IdsInOrder, InBand
  <2> QED BY <2>1, <2>2, <2>3, VenueAssumption DEF Venues
<1>2. Anchor(n, ts) = [kind |-> "snapshot", update_id |-> n, ts |-> ts]
  BY DEF Anchor
<1> QED BY <1>1, <1>2 DEF Row, StampOk

-----------------------------------------------------------------------------
(* Steps *)

\* An adopted snapshot is a moment of the venue's book.
LEMMA AdoptKeepsBook ==
    ASSUME NEW n \in Ids, IdsInOrder, Adopt(n)
    PROVE  /\ n \in Nat /\ n <= venue_id /\ update_id' = n /\ update_id <= n
           /\ IdsInOrder' /\ BookIsAMoment'
<1>1. /\ n \in Nat /\ n <= venue_id /\ update_id' = n /\ update_id <= n
      /\ IdsInOrder' /\ anchor' = n /\ ladders' = Ladder(VenueBook[n], SnapshotDepth)
  BY BoundAssumption DEF Adopt, MoveTo, IdsInOrder, Ids
<1>2. ladders' \in Ladders /\ Tells(ladders', anchor', update_id', 0)
  BY <1>1, CutTells
<1>3. anchor' \in OptId /\ anchor' # NoId
  BY <1>1 DEF OptId, NoId
<1> QED BY <1>1, <1>2, <1>3 DEF BookIsAMoment

\* A book that follows the venue goes on to its next moment.
LEMMA FollowKeepsBook ==
    ASSUME NEW n \in Ids, IdsInOrder, BookIsAMoment, Follow(n)
    PROVE  /\ n \in Nat /\ n <= venue_id /\ update_id' = n /\ update_id <= n
           /\ IdsInOrder' /\ BookIsAMoment'
<1>1. /\ n \in Nat /\ n <= venue_id /\ update_id' = n /\ update_id <= n
      /\ IdsInOrder' /\ anchor' = anchor /\ synced
  BY BoundAssumption DEF Follow, MoveTo, IdsInOrder, Ids
<1>2. PICK rest \in SUBSET Missing(n) :
          ladders' = [l \in Level |-> IF l \in rest THEN ladders[l] ELSE VenueBook[n][l]]
  BY DEF Follow
<1>3. ladders \in [Level -> Nat] /\ VenueBook[n] \in [Level -> Nat]
  BY HistoryAssumption DEF BookIsAMoment, Ladders, Ids
<1>4. ladders' \in Ladders
  BY <1>2, <1>3 DEF Ladders
<1>5. Moves(ladders, ladders', update_id, n)
  <2> SUFFICES ASSUME NEW l \in Level, ladders'[l] # VenueBook[n][l]
               PROVE  ladders'[l] = ladders[l] /\ l \notin Changed(update_id, n)
    BY DEF Moves
  <2>1. l \in rest /\ ladders'[l] = ladders[l]
    BY <1>2
  <2> QED BY <1>2, <2>1 DEF Missing
<1>6. anchor \in OptId /\ anchor # NoId /\ Tells(ladders, anchor, update_id, 0)
  BY <1>1 DEF BookIsAMoment
<1>7. Tells(ladders', anchor', update_id', 0)
  BY <1>1, <1>5, <1>6, MovedTells DEF IdsInOrder
<1> QED BY <1>1, <1>4, <1>6, <1>7 DEF BookIsAMoment

\* What is sent to a reader is that moment.
LEMMA ViewTells ==
    ASSUME IdsInOrder, BookIsAMoment, BookWasHeard, IdOrNone # NoId
    PROVE  /\ View.update_id = IdOrNone /\ Tells(View.levels, View.since, IdOrNone, Shown)
           /\ TopTells(View.top, View.since, IdOrNone) /\ 2 * IdOrNone < View.as_of
<1>1. IdOrNone = update_id /\ update_id # 0
  BY DEF IdOrNone
<1>2. Tells(ladders, anchor, update_id, 0) /\ ladders \in Ladders /\ update_id \in Ids
  BY <1>1 DEF BookIsAMoment, IdsInOrder
<1>3. Tells(Ladder(ladders, Shown), anchor, update_id, Shown)
  BY <1>2, LadderTells, OutletsAssumption
<1>4. TopTells(Top(ladders), anchor, update_id)
  BY <1>2, TopOfTold
<1>5. /\ View.update_id = IdOrNone /\ View.levels = Ladder(ladders, Shown)
      /\ View.since = anchor /\ View.top = Top(ladders) /\ View.as_of = last_event_at
  BY DEF View
<1> QED BY <1>1, <1>3, <1>4, <1>5 DEF BookWasHeard

\* Nothing has been shown yet.
LEMMA OInitHolds == OutletsInit => OInv
<1> SUFFICES ASSUME OutletsInit PROVE OInv
  OBVIOUS
<1>1. IdsInOrder
  BY BoundAssumption DEF OutletsInit, Init, IdsInOrder, Ids
<1>2. BookIsAMoment
  BY DEF OutletsInit, Init, BookIsAMoment, EmptyLadders, Ladders, OptId
<1>3. BookWasHeard /\ ViewIsOneMoment
  BY DEF OutletsInit, Init, ViewIsOneMoment, BookWasHeard, Never
<1>4. rows \in Seq(Row) /\ DOMAIN rows = {}
  BY DEF OutletsInit
<1> QED BY <1>1, <1>2, <1>3, <1>4 DEF OInv, RowsInOrder

\* A step that leaves the book where it is, or only distrusts it.
LEMMA StandingKeepsBook ==
    ASSUME IdsInOrder, BookIsAMoment, UNCHANGED <<ladders, update_id, anchor>>,
           synced' = synced \/ synced' = FALSE, venue_id' = venue_id \/ venue_id' = venue_id + 1
    PROVE  IdsInOrder' /\ BookIsAMoment'
BY DEF IdsInOrder, BookIsAMoment, Ids

\* A depth message that is heard, whatever comes of it.
LEMMA HeardKeeps == OInv /\ Heard => OInv'
<1> SUFFICES ASSUME OInv, Heard PROVE OInv'
  OBVIOUS
<1>a. IdsInOrder /\ BookIsAMoment /\ ViewIsOneMoment /\ RowsInOrder
  BY DEF OInv
<1>b. ViewIsOneMoment'
  BY <1>a DEF Heard, ViewIsOneMoment
<1>c. /\ \A n \in Nat : n <= venue_id => 2 * n < 2 * venue_id + 1
      /\ last_event_at' = 2 * venue_id + 1 /\ venue_id \in Nat
  BY <1>a DEF Heard, Now, IdsInOrder
<1>1. CASE (HearOnly \/ Lose) /\ UNCHANGED rows
  <2>1. UNCHANGED <<ladders, update_id, anchor, venue_id>> /\ (synced' = synced \/ synced' = FALSE)
    BY <1>1 DEF HearOnly, Lose, vars, book
  <2>2. IdsInOrder' /\ BookIsAMoment'
    BY <1>a, <2>1, StandingKeepsBook
  <2>3. RowsInOrder'
    BY <1>a, <1>1, <2>1, SameRowsKeepOrder DEF IdsInOrder, Ids
  <2>4. BookWasHeard'
    BY <1>a, <1>c, <2>1 DEF BookWasHeard, IdsInOrder, Ids
  <2> QED BY <1>b, <2>2, <2>3, <2>4 DEF OInv
<1>2. ASSUME NEW n \in Ids, AdoptAndRecord(n)
      PROVE  OInv'
  <2>1. PICK ts \in AnchorTimes(n) : rows' = Append(rows, Anchor(n, ts))
    BY <1>2 DEF AdoptAndRecord
  <2>2. /\ n \in Nat /\ n <= venue_id /\ update_id' = n /\ update_id <= n
        /\ IdsInOrder' /\ BookIsAMoment'
    BY <1>2, <1>a, AdoptKeepsBook DEF AdoptAndRecord
  <2>3. RowsInOrder'
    BY <2>1, <2>2, <1>a, AnchorIsStamped, AppendKeepsOrder
  <2>4. BookWasHeard'
    BY <1>c, <2>2 DEF BookWasHeard
  <2> QED BY <1>b, <2>2, <2>3, <2>4 DEF OInv
<1>3. ASSUME NEW n \in Ids, FollowAndRecord(n)
      PROVE  OInv'
  <2>1. rows' = rows \/ rows' = Append(rows, Diff(n))
    BY <1>3 DEF FollowAndRecord
  <2>2. /\ n \in Nat /\ n <= venue_id /\ update_id' = n /\ update_id <= n
        /\ IdsInOrder' /\ BookIsAMoment'
    BY <1>3, <1>a, FollowKeepsBook DEF FollowAndRecord
  <2>3. RowsInOrder'
    <3>1. CASE rows' = rows
      BY <2>2, <3>1, <1>a, SameRowsKeepOrder
    <3>2. CASE rows' = Append(rows, Diff(n))
      BY <2>2, <3>2, <1>a, DiffIsStamped, AppendKeepsOrder
    <3> QED BY <2>1, <3>1, <3>2
  <2>4. BookWasHeard'
    BY <1>c, <2>2 DEF BookWasHeard
  <2> QED BY <1>b, <2>2, <2>3, <2>4 DEF OInv
<1> QED BY <1>1, <1>2, <1>3 DEF Heard

\* One step per action of OutletsNext.
LEMMA OStep == OInv /\ [OutletsNext]_allvars => OInv'
<1> SUFFICES ASSUME OInv, [OutletsNext]_allvars PROVE OInv'
  OBVIOUS
<1>a. IdsInOrder /\ BookIsAMoment /\ BookWasHeard /\ ViewIsOneMoment /\ RowsInOrder
  BY DEF OInv
<1>1. CASE (VenueMoves \/ Lose) /\ UNCHANGED outlets
  <2>1. /\ UNCHANGED <<ladders, update_id, anchor, reading, last_id, view, last_event_at, rows>>
        /\ synced' = synced \/ synced' = FALSE
        /\ venue_id' = venue_id \/ venue_id' = venue_id + 1
    BY <1>1 DEF VenueMoves, Lose, book, outlets
  <2>2. IdsInOrder' /\ BookIsAMoment'
    BY <1>a, <2>1, StandingKeepsBook
  <2>3. RowsInOrder'
    BY <1>a, <2>1, SameRowsKeepOrder DEF IdsInOrder, Ids
  <2> QED BY <2>1, <2>2, <2>3, <1>a DEF OInv, ViewIsOneMoment, BookWasHeard
<1>2. CASE Heard
  BY <1>2, HeardKeeps
<1>3. CASE Boot /\ rows' = <<>> /\ last_event_at' = Never /\ UNCHANGED <<reading, last_id, view>>
  <2>1. IdsInOrder'
    BY <1>3, <1>a, BoundAssumption DEF Boot, IdsInOrder, Ids
  <2>2. BookIsAMoment' /\ BookWasHeard'
    BY <1>3 DEF Boot, BookIsAMoment, BookWasHeard, EmptyLadders, Ladders, OptId, Never
  <2>3. rows' \in Seq(Row) /\ DOMAIN rows' = {}
    BY <1>3
  <2> QED BY <2>1, <2>2, <2>3, <1>3, <1>a DEF OInv, ViewIsOneMoment, RowsInOrder
<1>4. CASE /\ Halt /\ reading' = FALSE /\ last_id' = NoId /\ view' = NoView
           /\ UNCHANGED <<last_event_at, rows>>
  <2>1. UNCHANGED <<ladders, update_id, anchor, venue_id>> /\ (synced' = synced \/ synced' = FALSE)
    BY <1>4 DEF Halt
  <2>2. IdsInOrder' /\ BookIsAMoment'
    BY <1>a, <2>1, StandingKeepsBook
  <2>3. RowsInOrder'
    BY <1>a, <1>4, <2>1, SameRowsKeepOrder DEF IdsInOrder, Ids
  <2> QED BY <2>1, <2>2, <2>3, <1>4, <1>a DEF OInv, ViewIsOneMoment, BookWasHeard
<1>5. CASE Poll
  <2>1. UNCHANGED <<venue_id, ladders, update_id, anchor, synced, last_event_at, rows>>
        /\ last_id' = IdOrNone /\ view' = View
    BY <1>5 DEF Poll, vars, book
  <2>2. IdsInOrder' /\ BookIsAMoment'
    BY <1>a, <2>1, StandingKeepsBook
  <2>3. RowsInOrder' /\ BookWasHeard'
    BY <1>a, <2>1, SameRowsKeepOrder DEF IdsInOrder, Ids, BookWasHeard
  <2>4. ViewIsOneMoment'
    BY <2>1, <1>a, ViewTells DEF ViewIsOneMoment
  <2> QED BY <2>2, <2>3, <2>4 DEF OInv
<1>6. CASE Connect \/ Leave
  <2>1. UNCHANGED <<venue_id, ladders, update_id, anchor, synced, last_event_at, rows>>
        /\ last_id' = NoId
    BY <1>6 DEF Connect, Leave, vars, book
  <2>2. IdsInOrder' /\ BookIsAMoment'
    BY <1>a, <2>1, StandingKeepsBook
  <2>3. RowsInOrder' /\ BookWasHeard'
    BY <1>a, <2>1, SameRowsKeepOrder DEF IdsInOrder, Ids, BookWasHeard
  <2> QED BY <2>1, <2>2, <2>3 DEF OInv, ViewIsOneMoment
<1>7. CASE UNCHANGED allvars
  <2>1. UNCHANGED <<venue_id, ladders, update_id, anchor, synced, last_event_at, rows,
                    reading, last_id, view>>
    BY <1>7 DEF allvars, vars, book, outlets
  <2>2. IdsInOrder' /\ BookIsAMoment'
    BY <1>a, <2>1, StandingKeepsBook
  <2>3. RowsInOrder' /\ BookWasHeard' /\ ViewIsOneMoment'
    BY <1>a, <2>1, SameRowsKeepOrder DEF IdsInOrder, Ids, BookWasHeard, ViewIsOneMoment
  <2> QED BY <2>2, <2>3 DEF OInv
<1> QED BY <1>1, <1>2, <1>3, <1>4, <1>5, <1>6, <1>7 DEF OutletsNext, BookMoves

-----------------------------------------------------------------------------
(* What they promise *)

\* The inductive invariant, for every history, venue, limit and number of levels shown.
THEOREM Inductive == OutletsSpec => []OInv
BY OInitHolds, OStep, PTL DEF OutletsSpec

\* A reader of the event stream is shown moments of the venue's book, whatever was lost
\* since: id, levels and top of one update, and an as_of that is later.
THEOREM ViewsAreMoments == OutletsSpec => []ViewIsOneMoment
<1>1. OInv => ViewIsOneMoment
  BY DEF OInv
<1> QED BY <1>1, Inductive, PTL

\* The derive reads applied rows in the order they were applied, but for a REST
\* snapshot, which it may read behind messages that were applied after it.
THEOREM RowsAreReadInOrder == OutletsSpec => []OnlyAnchorsAreMisplaced
<1>1. OInv => OnlyAnchorsAreMisplaced
  <2> SUFFICES ASSUME OInv, NEW i \in DOMAIN rows, NEW j \in DOMAIN rows, i < j,
                      Before(rows[j], rows[i])
               PROVE  /\ rows[i].kind = "snapshot" /\ ~InBand
                      /\ rows[i].update_id <= rows[j].update_id
    BY DEF OnlyAnchorsAreMisplaced
  <2>1. rows[i] \in Row /\ rows[j] \in Row
    BY DEF OInv, RowsInOrder
  <2>2. StampOk(rows[i]) /\ StampOk(rows[j]) /\ rows[i].update_id <= rows[j].update_id
    BY DEF OInv, RowsInOrder
  <2> QED BY <2>1, <2>2 DEF Before, StampOk, Row
<1> QED BY <1>1, Inductive, PTL

=============================================================================
