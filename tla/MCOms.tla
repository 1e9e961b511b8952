------------------------------- MODULE MCOms -------------------------------
(***************************************************************************)
(* Instances of Oms.                                                       *)
(***************************************************************************)
EXTENDS Oms
=============================================================================
