------------------------------- MODULE MCProc -------------------------------
(* The process table with four slots: the kernel, init and two others.      *)
EXTENDS Proc, FiniteSets, TLC

CONSTANTS k, i, a, b, c

Structs4 == {k, i, a, b}
Structs5 == {k, i, a, b, c}
Interchangeable == Permutations({a, b, c})
Interchangeable4 == Permutations({a, b})

Nobody == {}
InitOnly == {INIT_PROC}
Others == {2, 3}
FirstTwo == {1, 2}
Second == {2}
FirstTwoOrAny == {-1, 1, 2}
Everyone == {1, 2, 3}
AllSlots == Slot
NotNull == {FALSE}
Unknown == BOOLEAN

AllLiberties == Liberties
KillsBlocked == {"kill_blocked"}
LoadsMayFail == {"load_fail"}
=============================================================================
