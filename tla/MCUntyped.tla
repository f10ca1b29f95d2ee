----------------------------- MODULE MCUntyped -------------------------------
(***************************************************************************)
(* Instances of Untyped for TLC.                                           *)
(***************************************************************************)
EXTENDS Untyped
=============================================================================
