------------------------------ MODULE MCConsole ------------------------------
(* Two processes, reads shorter and longer than a line, and writes from    *)
(* part of a segment to more than the send queue holds.                    *)
EXTENDS Console

ReadLengths == {1, 3}
WriteLengths == {1, 3, 7}
=============================================================================
