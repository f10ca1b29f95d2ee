------------------------------- MODULE MCRpc -------------------------------
(* Rpc for TLC: the calls of two coroutines over one connection that may   *)
(* break.                                                                  *)
EXTENDS Rpc
=============================================================================
