------------------------------- MODULE LiveBook -------------------------------
(***************************************************************************)
(* What a collector promises to whoever reads its book: OrderBook of        *)
(* api/src/domain/book.py as the rest of the process sees it, without the   *)
(* messages, buffers and fetches that keep it.  StreamCollector implements  *)
(* this specification, and Outlets builds on it.                            *)
(*                                                                         *)
(* A book is begun from a snapshot of the venue's book, cut at the limit of *)
(* the request, and follows the venue's sequence forward from there while   *)
(* it is synced: what changes it takes over, what does not change it leaves *)
(* as it is or learns.  It jumps forward to the next snapshot, may lose its *)
(* sync at any time, and starts empty.                                      *)
(***************************************************************************)
EXTENDS BookSync

VARIABLES
    venue_id,    \* the venue's last update
    up,          \* the process runs this collector
    ladders, update_id, synced,
    anchor       \* history: the update of the snapshot the book began from

book == <<ladders, update_id, synced, anchor>>
vars == <<venue_id, up, book>>

VenueMoves ==
    /\ venue_id < MaxId
    /\ venue_id' = venue_id + 1
    /\ UNCHANGED <<up, book>>

Boot ==
    /\ ~up /\ up' = TRUE
    /\ ladders' = EmptyLadders /\ update_id' = 0 /\ synced' = FALSE
    /\ anchor' = NoId
    /\ UNCHANGED venue_id

\* Mutant: an answer that was overtaken is taken all the same.
MoveToOld(n) ==
    /\ up /\ n \in 0..venue_id
    /\ update_id' = n
    /\ UNCHANGED <<venue_id, up>>

\* The book's position moves to update n, which is never behind it.
MoveTo(n) ==
    /\ up /\ n \in update_id..venue_id
    /\ update_id' = n
    /\ UNCHANGED <<venue_id, up>>

\* Mutant: the snapshot's id is not taken over.
AdoptKeepsId(n) ==
    /\ up /\ n \in update_id..venue_id
    /\ ladders' = Ladder(VenueBook[n], SnapshotDepth) /\ synced' = TRUE
    /\ anchor' = n
    /\ UNCHANGED <<venue_id, up, update_id>>

\* OrderBook.reset: what the book held before is gone.
Adopt(n) ==
    /\ MoveTo(n)
    /\ ladders' = Ladder(VenueBook[n], SnapshotDepth) /\ synced' = TRUE
    /\ anchor' = n

\* Levels the book does not have and the updates up to n do not touch.
Missing(n) ==
    {l \in Level : ladders[l] # VenueBook[n][l]} \ Changed(update_id, n)

\* OrderBook.apply.  A message may list more than has changed since the snapshot,
\* so some of the missing levels turn up; a book that crosses is not trusted.
Follow(n) ==
    /\ synced /\ MoveTo(n)
    /\ \E rest \in SUBSET Missing(n) :
          ladders' = [l \in Level |-> IF l \in rest THEN ladders[l] ELSE VenueBook[n][l]]
    /\ synced' = ~IsCrossed(ladders')
    /\ UNCHANGED anchor

\* OrderBook.invalidate: a gap, or the end of a session.
Lose ==
    /\ up /\ synced /\ synced' = FALSE
    /\ UNCHANGED <<venue_id, up, ladders, update_id, anchor>>

\* The process stops or dies; the book it leaves behind is read by nobody.
Halt ==
    /\ up /\ up' = FALSE
    /\ synced' \in {synced, FALSE}
    /\ UNCHANGED <<venue_id, ladders, update_id, anchor>>

Init ==
    /\ venue_id = 0 /\ up = FALSE
    /\ ladders = EmptyLadders /\ update_id = 0 /\ synced = FALSE /\ anchor = NoId

BookStep == Boot \/ Lose \/ Halt \/ \E n \in Ids : Adopt(n) \/ Follow(n)
Next == VenueMoves \/ BookStep

Spec == Init /\ [][Next]_vars

=============================================================================
