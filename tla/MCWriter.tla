------------------------------ MODULE MCWriter ------------------------------
(***************************************************************************)
(* Instances of Delivery, the writer with its announcements, for TLC.       *)
(***************************************************************************)
EXTENDS Delivery

First    == {1}
AllTables == Tables
=============================================================================
