------------------------------- MODULE MCFiles -------------------------------
(* Two processes, a program f, a file g the server will not open and a     *)
(* name h it does not have yet.                                            *)
EXTENDS Files

SomeNames == {"f", "g", "h"}
OnServer == {"f", "g"}
Programs == {"f"}
Locked == {"g"}
Nothing == {}
=============================================================================
