------------------------------- MODULE MCDepth -------------------------------
(* Depth for TLC: three levels about 1 % apart, two quantities. *)
EXTENDS Depth

ThreePrices == {99, 100, 101}
TwoBands   == {60, 170}

=============================================================================
