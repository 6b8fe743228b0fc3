------------------------------ MODULE MCDerive ------------------------------
(***************************************************************************)
(* Derive for TLC.  Observations are told apart only by kind, stream and    *)
(* time, so the instances need no model values.                            *)
(***************************************************************************)
EXTENDS Derive, TLC

=============================================================================
