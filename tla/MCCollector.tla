----------------------------- MODULE MCCollector -----------------------------
(***************************************************************************)
(* Instances of StreamCollector for TLC: a venue history of a few updates  *)
(* that adds, changes and removes levels on both sides.                    *)
(***************************************************************************)
EXTENDS StreamCollector, TLC

MCPrices == {1, 2, 3}

\* Bids at 1 and 2, asks at 2 and 3.
Quote(bid1, bid2, ask2, ask3) ==
    [l \in Level |-> CASE l = <<"bid", 1>> -> bid1 [] l = <<"bid", 2>> -> bid2
                       [] l = <<"ask", 2>> -> ask2 [] l = <<"ask", 3>> -> ask3
                       [] OTHER -> 0]

\* Levels come, change and go; update 2 touches nothing.
CalmHistory == <<Quote(1, 0, 1, 1), Quote(1, 0, 1, 1), Quote(1, 2, 0, 1)>>

\* Update 1 touches nothing; update 2 takes the best bid away, beside a bid that a
\* snapshot of a single level did not list; update 3 leaves a bid at the best ask, and
\* update 4 takes it away and touches an ask beyond the best.
CrossedHistory ==
    <<Quote(1, 2, 0, 1), Quote(1, 0, 0, 2), Quote(1, 2, 1, 2), Quote(1, 0, 1, 1)>>

From(start, history) == [n \in 0..MaxId |-> IF n = 0 THEN start ELSE history[n]]

MCCalm == From(Quote(1, 0, 0, 1), CalmHistory)
MCCrossed == From(Quote(1, 2, 0, 1), CrossedHistory)

=============================================================================
