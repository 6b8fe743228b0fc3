-------------------------------- MODULE MCNode --------------------------------
(***************************************************************************)
(* Node for TLC.  One unit is some tens of seconds; the intervals of the    *)
(* jobs share no factor, so they fall on one another in every way.         *)
(***************************************************************************)
EXTENDS Node, TLC

Symmetry == Permutations(Streams)

=============================================================================
