-------------------------------- MODULE Depth --------------------------------
(***************************************************************************)
(* From an in-memory book to the depth columns: OrderBook of                 *)
(* api/src/domain/book.py, the snapshot row _write_snapshot keeps of it       *)
(* (collectors/stream.py), and what the derive makes of that row and of the   *)
(* tops beside it: snapshot_rows (derive/features.py), depth_within           *)
(* (derive/runner.py, domain/book.py) and OFI (bucket_book_stats of           *)
(* adapters/database/repositories/raw.py).                                   *)
(*                                                                         *)
(* Prices are whole ticks and quantities whole units, so that comparisons     *)
(* with the mid are exact: twice the mid is the sum of the best prices.       *)
(***************************************************************************)
EXTENDS Integers, FiniteSetsExt, SequencesExt

CONSTANTS
    Prices,          \* the price levels of the instrument
    MaxQty,          \* bound: quantity resting at a level
    MaxLevels,       \* bound: levels in a depth message or a snapshot
    Bands,           \* settings.depth_bands, in basis points
    SnapshotLevels   \* settings.snapshot_levels; 0 keeps the whole book

ASSUME DepthAssumption ==
    /\ Prices \subseteq Nat \ {0} /\ {MaxQty, MaxLevels} \subseteq Nat
    /\ Bands \subseteq Nat /\ SnapshotLevels \in Nat

VARIABLES bids, asks   \* price to quantity; no level has quantity 0 in the dicts
vars == <<bids, asks>>

On(side) == {p \in Prices : side[p] > 0}

-----------------------------------------------------------------------------
(* OrderBook *)

NoLevels == [p \in Prices |-> 0]

\* The levels of one side that a message or a snapshot may bring.
Levels == UNION {[changed -> 0..MaxQty] : changed \in {s \in SUBSET Prices : IsFiniteSet(s)}}

Size(ev_bids, ev_asks) == Cardinality(DOMAIN ev_bids) + Cardinality(DOMAIN ev_asks)

\* _apply_side: a quantity of zero removes the level.
ApplySide(side, levels) ==
    [p \in Prices |-> IF p \in DOMAIN levels THEN levels[p] ELSE side[p]]

\* apply(ev)
Apply(ev_bids, ev_asks) ==
    /\ bids' = ApplySide(bids, ev_bids)
    /\ asks' = ApplySide(asks, ev_asks)

\* reset(snapshot)
Reset(snapshot_bids, snapshot_asks) ==
    /\ bids' = ApplySide(NoLevels, snapshot_bids)
    /\ asks' = ApplySide(NoLevels, snapshot_asks)

\* OrderBook.top, of a book with two sides.
Top(b, a) == [bid |-> Max(On(b)), bid_qty |-> b[Max(On(b))],
              ask |-> Min(On(a)), ask_qty |-> a[Min(On(a))]]

Kept(seq, n) == IF n > 0 /\ n < Len(seq) THEN SubSeq(seq, 1, n) ELSE seq

\* The levels best first: the i-th has i - 1 better ones.
BestFirst(better) ==
    [i \in 1..Cardinality(DOMAIN better) |->
        CHOOSE p \in DOMAIN better : Cardinality(better[p]) = i - 1]

Above(levels) == [p \in levels |-> {r \in levels : r > p}]
Below(levels) == [p \in levels |-> {r \in levels : r < p}]

\* Mutant: bids in the order of the asks.
CheapestBids(n) == Kept(BestFirst(Below(On(bids))), n)

\* ladder(n): best first, at most n levels a side.
BidLadder(n) == Kept(BestFirst(Above(On(bids))), n)
AskLadder(n) == Kept(BestFirst(Below(On(asks))), n)

-----------------------------------------------------------------------------
(* The derive *)

Distance(p, twice_mid) == IF 2 * p >= twice_mid THEN 2 * p - twice_mid ELSE twice_mid - 2 * p
OutOfBand(p, twice_mid, band) == Distance(p, twice_mid) * 10000 > twice_mid * band

Value(p, q, notional) == IF notional THEN p * q ELSE q
SumOver(levels, side, notional) ==
    MapThenSumSet(LAMBDA p : Value(p, side[p], notional), levels)

\* Mutant: the level that leaves the band is counted.
DepthPastTheBand(ladder, side, twice_mid, band, notional) ==
    LET out == SelectInSubSeq(ladder, 1, Len(ladder), LAMBDA p : OutOfBand(p, twice_mid, band))
    IN  SumOver({ladder[i] : i \in 1..(IF out = 0 THEN Len(ladder) ELSE out)}, side, notional)

\* Stops at the first level out of the band.
DepthWithin(ladder, side, twice_mid, band, notional) ==
    LET out == SelectInSubSeq(ladder, 1, Len(ladder), LAMBDA p : OutOfBand(p, twice_mid, band))
    IN  SumOver({ladder[i] : i \in 1..(IF out = 0 THEN Len(ladder) ELSE out - 1)}, side, notional)

\* What snapshot_rows passes over.
CrossedOrEmpty(n) ==
    \/ BidLadder(n) = <<>> \/ AskLadder(n) = <<>>
    \/ BidLadder(n)[1] >= AskLadder(n)[1]

TwiceMid(n) == BidLadder(n)[1] + AskLadder(n)[1]

\* depth_bid_<band>bp and depth_ask_<band>bp of one snapshot of n levels a side.
SnapshotRows(n, notional) ==
    IF CrossedOrEmpty(n) THEN {}
    ELSE {[band |-> band,
           bid |-> DepthWithin(BidLadder(n), bids, TwiceMid(n), band, notional),
           ask |-> DepthWithin(AskLadder(n), asks, TwiceMid(n), band, notional)] : band \in Bands}

-----------------------------------------------------------------------------
(* Order-flow imbalance between two applied rows, pre the earlier one *)

When(condition, value) == IF condition THEN value ELSE 0

\* Mutant: a bid that stays where it is counts as one that left.
BidFlowStrict(pre, top, notional) ==
    When(top.bid > pre.bid, Value(top.bid, top.bid_qty, notional))
      - When(top.bid <= pre.bid, Value(pre.bid, pre.bid_qty, notional))

BidFlow(pre, top, notional) ==
    When(top.bid >= pre.bid, Value(top.bid, top.bid_qty, notional))
      - When(top.bid <= pre.bid, Value(pre.bid, pre.bid_qty, notional))

AskFlow(pre, top, notional) ==
    When(top.ask <= pre.ask, Value(top.ask, top.ask_qty, notional))
      - When(top.ask >= pre.ask, Value(pre.ask, pre.ask_qty, notional))

Ofi(pre, top, notional) == BidFlow(pre, top, notional) - AskFlow(pre, top, notional)

-----------------------------------------------------------------------------
(* The specification: whatever messages and snapshots the venue sends *)

Init == bids = NoLevels /\ asks = NoLevels

Next == \E b, a \in Levels : Size(b, a) <= MaxLevels /\ (Apply(b, a) \/ Reset(b, a))

Spec == Init /\ [][Next]_vars

-----------------------------------------------------------------------------
(* What the columns promise *)

InBand(side, band) == {p \in On(side) : ~OutOfBand(p, Max(On(bids)) + Min(On(asks)), band)}

\* "resting notional within the band": stopping at the first level out of the band
\* of a best-first ladder misses none that is in it.
DepthIsTheBand ==
    \A notional \in BOOLEAN : \A row \in SnapshotRows(0, notional) :
        /\ row.bid = SumOver(InBand(bids, row.band), bids, notional)
        /\ row.ask = SumOver(InBand(asks, row.band), asks, notional)

\* A snapshot cut to snapshot_levels never says more than the whole book, and says
\* the same once the levels it keeps reach past the band (core/config.py).
TruncationOnlyUnderstates ==
    \A whole \in SnapshotRows(0, TRUE), cut \in SnapshotRows(SnapshotLevels, TRUE) :
        (whole.band = cut.band) =>
            /\ cut.bid <= whole.bid /\ cut.ask <= whole.ask
            /\ Cardinality(InBand(bids, cut.band)) <= SnapshotLevels => cut.bid = whole.bid
            /\ Cardinality(InBand(asks, cut.band)) <= SnapshotLevels => cut.ask = whole.ask

TwoSided(b, a) == On(b) # {} /\ On(a) # {}

\* What a row does for resting demand or against it: a better or a bigger best bid and a
\* worse or a smaller best ask are for it.
For(pre, top) == \/ top.bid > pre.bid \/ (top.bid = pre.bid /\ top.bid_qty > pre.bid_qty)
                 \/ top.ask > pre.ask \/ (top.ask = pre.ask /\ top.ask_qty < pre.ask_qty)
Against(pre, top) == For(top, pre)

\* "Positive means resting demand grew faster than resting supply" (domain/metrics.py),
\* in either unit and however many levels of both sides lie between the two rows: a row
\* that does something for demand and nothing against it is positive, the other way
\* round negative, one that leaves the top as it was is nothing, whatever it did behind
\* the best, and a row and its reversal cancel.
OfiIsTheMoveOfTheBest ==
    [][(TwoSided(bids, asks) /\ TwoSided(bids', asks')) =>
         LET pre == Top(bids, asks)
             top == Top(bids', asks')
         IN  \A notional \in BOOLEAN :
                /\ For(pre, top) /\ ~Against(pre, top) => Ofi(pre, top, notional) > 0
                /\ Against(pre, top) /\ ~For(pre, top) => Ofi(pre, top, notional) < 0
                /\ top = pre => Ofi(pre, top, notional) = 0
                /\ Ofi(pre, top, notional) + Ofi(top, pre, notional) = 0]_vars

=============================================================================
