------------------------------ MODULE MCOutlets ------------------------------
(***************************************************************************)
(* Outlets for TLC: update 2 touches nothing, and update 3 crosses.          *)
(***************************************************************************)
EXTENDS Outlets

MCPrices == {1, 2, 3}

Quote(bid1, bid2, ask2, ask3) ==
    [l \in Level |-> CASE l = <<"bid", 1>> -> bid1 [] l = <<"bid", 2>> -> bid2
                       [] l = <<"ask", 2>> -> ask2 [] l = <<"ask", 3>> -> ask3
                       [] OTHER -> 0]

MCHistory ==
    [n \in 0..MaxId |-> CASE n = 0 -> Quote(1, 0, 0, 1) [] n \in {1, 2} -> Quote(1, 0, 1, 1)
                          [] OTHER -> Quote(1, 1, 1, 2)]

=============================================================================
