------------------------------ MODULE MCPicoro ------------------------------
(* Picoro with five stacks: enough for three nested coroutines, a finished *)
(* one above the spare on the idle list, and a reuse.                      *)
EXTENDS Picoro
=============================================================================
