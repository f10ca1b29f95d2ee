------------------------------ MODULE NfsCalls ------------------------------
(***************************************************************************)
(* What the file system of SOS expects of the NFS client: every            *)
(* asynchronous call (nfs_open_async, nfs_pread_async, ...) is answered by *)
(* one call of its callback, which resumes the coroutine that yielded in   *)
(* libnfs_vops.c.  A call may be answered with a result or an error; while *)
(* the connection to the server lasts and SOS runs, every call is answered *)
(* in the end.                                                             *)
(***************************************************************************)
CONSTANT Call

VARIABLES
    asked,  \* calls whose coroutine waits for its callback
    ended   \* the connection was lost or SOS stopped

vars == <<asked, ended>>

\* Every variable has its type.
TypeOK == asked \subseteq Call /\ ended \in BOOLEAN

Init == asked = {} /\ ended = FALSE

Issue(c) ==
    /\ c \notin asked
    /\ asked' = asked \cup {c}
    /\ UNCHANGED ended

\* The callback of c runs: its coroutine continues, and either asks nothing
\* more for now or asks the next call before the callback returns.
Answer(c) ==
    /\ c \in asked
    /\ \/ asked' = asked \ {c}
       \/ \E d \in Call \ asked : asked' = (asked \ {c}) \cup {d}
    /\ UNCHANGED ended

End == ~ended /\ ended' = TRUE /\ UNCHANGED asked

Next == End \/ \E c \in Call : Issue(c) \/ Answer(c)

\* No coroutine waits for ever for its callback while the connection lasts.
Answered == \A c \in Call : c \in asked ~> (c \notin asked \/ ended)

\* What a caller can see happen, and that it happens.
Safety == Init /\ [][Next]_vars

Spec == Safety /\ Answered
=============================================================================
