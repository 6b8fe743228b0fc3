----------------------------- MODULE MCSessions -----------------------------
(***************************************************************************)
(* Sessions for TLC, with every fault.  A refused connection costs a        *)
(* second, so the back-off doubles twice within the clock's bound.          *)
(***************************************************************************)
EXTENDS Sessions
=============================================================================
