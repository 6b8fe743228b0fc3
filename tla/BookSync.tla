------------------------------ MODULE BookSync ------------------------------
(***************************************************************************)
(* The pure part of api/src/domain/book.py: what a depth message carries,  *)
(* the two price ladders, and the per-venue rules that decide whether a    *)
(* diff may be applied to them.                                            *)
(*                                                                         *)
(* The venue is external.  It is described by VenueBook, the true book     *)
(* after each of its update ids; everything it says (diffs, snapshots) is  *)
(* derived from that history, so "our book is the venue's book" is an      *)
(* equation and not a judgement.                                           *)
(***************************************************************************)
EXTENDS Integers, Sequences, FiniteSets

CONSTANTS
    Venue,      \* which SyncRule is in force
    SnapshotLimit, \* binance_snapshot_limit: levels a side of a REST snapshot
    MaxId,      \* bound: the last update id the venue reaches
    Prices,     \* the price grid, a small set of naturals
    VenueBook   \* VenueBook[n]: the venue's book after update n

Venues == {"binance_spot", "binance_futures", "deribit"}
InBand == Venue = "deribit"        \* the snapshot is a message of the stream
Level  == {"bid", "ask"} \X Prices
Ladders == [Level -> Nat]          \* quantity at each level, 0 = no such level

ASSUME VenueAssumption   == Venue \in Venues
ASSUME BoundAssumption   == MaxId \in Nat /\ Prices \subseteq Nat /\ IsFiniteSet(Prices)
ASSUME LimitsAssumption  == SnapshotLimit \in Nat \ {0}
ASSUME HistoryAssumption == VenueBook \in [0..MaxId -> Ladders]

Unsaid == -1                       \* a level a message does not mention
Levels == [Level -> Nat \cup {Unsaid}]  \* the bids and asks of one message

NoId  == -1                        \* None, where the code has Optional[int]
Ids   == 0..MaxId
OptId == Ids \cup {NoId}

-----------------------------------------------------------------------------
(* A ladder, best level first, and its part near the touch *)

Better(l, m) == l[1] = m[1] /\ (IF l[1] = "bid" THEN l[2] > m[2] ELSE l[2] < m[2])

\* Where a level stands, or would stand, among the n best of its side; 0 is all.
Within(ladders, l, n) ==
    n = 0 \/ Cardinality({m \in Level : Better(m, l) /\ ladders[m] > 0}) < n

\* OrderBook.ladder(n).  Mutant: the far end of each side is kept.
FarLadder(ladders, n) == [l \in Level |-> IF n = 0 \/ ~Within(ladders, l, n) THEN ladders[l] ELSE 0]
Ladder(ladders, n) == [l \in Level |-> IF Within(ladders, l, n) THEN ladders[l] ELSE 0]

-----------------------------------------------------------------------------
(* What the venue says, as messages() and fetch_snapshot() of the adapters hand it *)
(* over: heartbeats, acknowledgements and errors of the protocol yield no message. *)

\* A depth message carries every level that changed since the message before
\* it, with its last quantity.
Changed(prev, u) ==
    {l \in Level : \E b \in prev..u : VenueBook[b][l] # VenueBook[u][l]}

\* The messages that may cover the updates prev+1..u.  A futures venue
\* numbers updates of other instruments too, so its first id may skip ids
\* that touched nothing here.
DiffFirstIds(prev, u) ==
    CASE Venue = "binance_spot"    -> {prev + 1}
      [] Venue = "binance_futures" ->
            {f \in prev + 1 .. u : \A b \in prev .. f - 1 : VenueBook[b] = VenueBook[prev]}
      [] Venue = "deribit"         -> {NoId}

DiffEvents(prev, u) ==
    {[kind   |-> "diff", update_id |-> u, first_update_id |-> f,
      prev_update_id |-> IF Venue = "binance_spot" THEN NoId ELSE prev,
      levels |-> [l \in Level |-> IF l \in Changed(prev, u) THEN VenueBook[u][l] ELSE Unsaid]] :
        f \in DiffFirstIds(prev, u)}

\* The REST snapshot is cut at its limit, Deribit's is the whole book.
SnapshotDepth == IF InBand THEN 0 ELSE SnapshotLimit

\* A snapshot lists the levels that have a quantity, as far as it reaches.
SnapshotLevels(n) ==
    LET listed == Ladder(VenueBook[n], SnapshotDepth)
    IN  [l \in Level |-> IF listed[l] > 0 THEN listed[l] ELSE Unsaid]

SnapshotEvent(n) ==
    [kind |-> "snapshot", update_id |-> n, first_update_id |-> NoId,
     prev_update_id |-> NoId, levels |-> SnapshotLevels(n)]

-----------------------------------------------------------------------------
(* SyncRule: the join between a snapshot and the diff stream *)

DropBeforeSnapshot(ev, id) ==
    CASE Venue = "binance_spot"    -> ev.update_id <= id
      [] Venue = "binance_futures" -> ev.update_id < id
      [] Venue = "deribit"         -> FALSE

\* Mutant: the first event is not held against the lower bound.
FirstEventOkMayBeOld(ev, id) == ev.first_update_id <= id + 1

FirstEventOk(ev, id) ==
    CASE Venue = "binance_spot"    -> ev.first_update_id <= id + 1 /\ id + 1 <= ev.update_id
      [] Venue = "binance_futures" -> ev.first_update_id <= id /\ id <= ev.update_id
      [] Venue = "deribit"         -> ev.kind = "snapshot"

\* Mutant: any newer event is taken for the next one.
NextEventOkMaySkip(ev, id) == ev.update_id > id

NextEventOk(ev, id) ==
    IF Venue = "binance_spot"
    THEN ev.first_update_id = id + 1
    ELSE ev.prev_update_id = id

-----------------------------------------------------------------------------
(* OrderBook *)

EmptyLadders == [l \in Level |-> 0]

Reset(levels) == [l \in Level |-> IF levels[l] = Unsaid THEN 0 ELSE levels[l]]

\* Mutant: a level whose quantity is zero is not removed.
ApplyKeepsEmpty(ladders, ev) ==
    [l \in Level |-> IF ev.levels[l] \in {Unsaid, 0} THEN ladders[l] ELSE ev.levels[l]]

Apply(ladders, ev) ==
    [l \in Level |-> IF ev.levels[l] = Unsaid THEN ladders[l] ELSE ev.levels[l]]

Bids(ladders) == {p \in Prices : ladders[<<"bid", p>>] > 0}
Asks(ladders) == {p \in Prices : ladders[<<"ask", p>>] > 0}

IsCrossed(ladders) == \E b \in Bids(ladders), a \in Asks(ladders) : b >= a

\* The best bid and ask with their quantities: one element, or none when a
\* side is empty.
Best(ladders) ==
    {pair \in Bids(ladders) \X Asks(ladders) :
        (\A b \in Bids(ladders) : b <= pair[1]) /\ (\A a \in Asks(ladders) : pair[2] <= a)}

Top(ladders) ==
    {<<pair[1], ladders[<<"bid", pair[1]>>], pair[2], ladders[<<"ask", pair[2]>>]>> :
        pair \in Best(ladders)}

-----------------------------------------------------------------------------
(* What a book can be held to.  A level beyond the reach of the snapshot is in the *)
(* book only once a message touches it ("a shallow snapshot understates depth for a *)
(* while after sync", core/config.py).                                              *)

\* The levels a book of update u tells, begun from the snapshot of update a.
KnownLevels(a, u) ==
    {l \in Level : Within(VenueBook[a], l, SnapshotDepth)} \cup Changed(a, u)

\* No quantity is other than the venue's, and a level is missing only if it is not
\* known, or not among the n best of its side.
Understates(ladders, u) == \A l \in Level : ladders[l] \in {0, VenueBook[u][l]}

Tells(ladders, a, u, n) ==
    /\ Understates(ladders, u)
    /\ \A l \in KnownLevels(a, u) :
          Within(VenueBook[u], l, n) => ladders[l] = VenueBook[u][l]

\* A top of book quotes the venue's quantities, and is the venue's top where that
\* is known.
TopTells(top, a, u) ==
    /\ \A t \in top : /\ t[2] = VenueBook[u][<<"bid", t[1]>>]
                       /\ t[4] = VenueBook[u][<<"ask", t[3]>>]
    /\ \A pair \in Best(VenueBook[u]) :
          {<<"bid", pair[1]>>, <<"ask", pair[2]>>} \subseteq KnownLevels(a, u)
              => top = Top(VenueBook[u])

=============================================================================
