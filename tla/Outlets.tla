------------------------------- MODULE Outlets -------------------------------
(***************************************************************************)
(* What leaves a live book, over the LiveBook that StreamCollector           *)
(* implements: the views an operator is shown (_view and the event stream of  *)
(* api/src/api/routes/book.py), and the applied rows of book_events           *)
(* (_emit_event and _emit_snapshot_event of collectors/stream.py) in the       *)
(* order in which the derive reads them (bucket_book_stats of                  *)
(* adapters/database/repositories/raw.py).                                    *)
(*                                                                         *)
(* The venue's clock is its sequence: update n happens at time 2n, and the     *)
(* node's clock reads 2n + 1 until the next one.                              *)
(***************************************************************************)
EXTENDS LiveBook

CONSTANTS
    Shown,     \* levels a side of a view
    MaxRows    \* bound: applied messages of one process

ASSUME OutletsAssumption == Shown \in Nat \ {0} /\ MaxRows \in Nat

VARIABLES
    reading,   \* a reader is connected to the event stream
    last_id,   \* the generator's last_id, None before the first event
    view,      \* the last view the reader was sent
    last_event_at, \* the node's time at the last depth message, None before
    rows       \* applied rows of this process, in the order they were applied

outlets == <<reading, last_id, view, last_event_at, rows>>
allvars == <<vars, outlets>>

-----------------------------------------------------------------------------
(* Views; since is history, the snapshot the book shown began from *)

Now == 2 * venue_id + 1
Never == 0     \* None, for a time

IdOrNone == IF update_id = 0 THEN NoId ELSE update_id

View == [update_id |-> IdOrNone, levels |-> Ladder(ladders, Shown), top |-> Top(ladders),
         synced |-> synced, as_of |-> last_event_at, since |-> anchor]

NoView == [update_id |-> NoId, levels |-> EmptyLadders, top |-> {}, synced |-> FALSE,
           as_of |-> Never, since |-> NoId]

Connect ==
    /\ up /\ ~reading
    /\ reading' = TRUE /\ last_id' = NoId /\ view' = NoView
    /\ UNCHANGED <<vars, last_event_at, rows>>

\* Mutant: a book that is not synced is not worth an event.
PollWhenSynced ==
    /\ reading /\ synced /\ IdOrNone # last_id
    /\ last_id' = IdOrNone /\ view' = View
    /\ UNCHANGED <<vars, reading, last_event_at, rows>>

\* One turn of the generator: an event when the sequence moved.
Poll ==
    /\ reading /\ IdOrNone # last_id
    /\ last_id' = IdOrNone /\ view' = View
    /\ UNCHANGED <<vars, reading, last_event_at, rows>>

Leave ==
    /\ reading
    /\ reading' = FALSE /\ last_id' = NoId /\ view' = NoView
    /\ UNCHANGED <<vars, last_event_at, rows>>

-----------------------------------------------------------------------------
(* Rows *)

Diff(n) == [kind |-> "diff", update_id |-> n, ts |-> 2 * n]

\* A REST body of the spot venue has no time: the row is stamped with the node's
\* clock when the snapshot is adopted.  One of the futures venue says when it was
\* output, which is some time after its last update.
AnchorTimes(n) ==
    CASE Venue = "binance_spot"    -> {Now}
      [] Venue = "binance_futures" -> 2 * n .. Now
      [] Venue = "deribit"         -> {2 * n}
Anchor(n, ts) == [kind |-> "snapshot", update_id |-> n, ts |-> ts]

\* The snapshot is recorded as an applied row of its own.
AdoptAndRecord(n) ==
    /\ Adopt(n) /\ Len(rows) < MaxRows
    /\ \E ts \in AnchorTimes(n) : rows' = Append(rows, Anchor(n, ts))

\* A message that crossed the book is recorded as not applied, and a derive
\* never sees it.
FollowAndRecord(n) ==
    /\ Follow(n) /\ Len(rows) < MaxRows
    /\ rows' = IF synced' THEN Append(rows, Diff(n)) ELSE rows

\* WINDOW w AS (ORDER BY ts, update_id).
Before(r, s) == r.ts < s.ts \/ (r.ts = s.ts /\ r.update_id < s.update_id)

-----------------------------------------------------------------------------
(* The specification *)

OutletsInit == /\ Init
               /\ reading = FALSE /\ last_id = NoId /\ view = NoView
               /\ last_event_at = Never /\ rows = <<>>

\* A depth message that moves no book, buffered or refused, is heard all the same.
HearOnly == up /\ UNCHANGED vars

\* _on_depth takes the time of every depth message, before it looks at it.
Heard ==
    /\ \/ HearOnly /\ UNCHANGED rows
       \/ Lose /\ UNCHANGED rows
       \/ \E n \in Ids : AdoptAndRecord(n) \/ FollowAndRecord(n)
    /\ last_event_at' = Now
    /\ UNCHANGED <<reading, last_id, view>>

BookMoves ==
    \/ Heard
    \/ (VenueMoves \/ Lose) /\ UNCHANGED outlets
    \/ Boot /\ rows' = <<>> /\ last_event_at' = Never /\ UNCHANGED <<reading, last_id, view>>
    \/ /\ Halt
       /\ reading' = FALSE /\ last_id' = NoId /\ view' = NoView
       /\ UNCHANGED <<last_event_at, rows>>

OutletsNext == BookMoves \/ Connect \/ Poll \/ Leave

\* The generator is asked for its next turn as long as the reader stays.
OutletsSpec == OutletsInit /\ [][OutletsNext]_allvars /\ WF_allvars(Poll)

-----------------------------------------------------------------------------
(* What they promise *)

\* A view is one moment of the book, whatever has been lost since: its id, levels and
\* top are those of the same update, quoted as the venue quoted them then, and of the
\* known levels among the best Shown none is missing.  Its as_of is later than that
\* update, by any time: messages that are only buffered move it while the book stands.
ViewIsOneMoment ==
    (reading /\ last_id # NoId) =>
        /\ view.update_id = last_id
        /\ Tells(view.levels, view.since, last_id, Shown)
        /\ TopTells(view.top, view.since, last_id)
        /\ 2 * last_id < view.as_of

\* A reader that stays is not left behind, by a lost sync either: sooner or later it
\* is shown the book the collector holds, or a later one.
ReaderCatchesUp ==
    \A n \in Ids : (reading /\ update_id = n /\ n > 0) ~> (~reading \/ last_id >= n)

\* Read back by (ts, update_id), the rows that OFI differences are in the order in
\* which they were applied, but for one kind: a REST snapshot, stamped later than its
\* last update, may be put behind the messages that were replayed onto it.  So are the
\* bucket's mid and its OFI "after the last applied message" up to such a row.
OnlyAnchorsAreMisplaced ==
    \A i, j \in DOMAIN rows :
        (i < j /\ Before(rows[j], rows[i])) =>
            /\ rows[i].kind = "snapshot" /\ ~InBand
            /\ rows[i].update_id <= rows[j].update_id

=============================================================================
