---------------------------- MODULE CoroutineApi ----------------------------
(***************************************************************************)
(* What picoro.h promises to the callers of coroutine(), resume() and      *)
(* yield(), without the lists that implement it.  A coroutine is either    *)
(* free, suspended (its holder may resume it) or active (on the stack of   *)
(* callers blocked inside resume(), the top one having the CPU).           *)
(***************************************************************************)
EXTENDS Sequences

CONSTANTS Coro,   \* the coroutines that can exist
          First   \* the program's initial stack, never handed to a caller

VARIABLES active,     \* sequence of blocked callers, the running one first
          suspended   \* set of coroutines that may be passed to resume()

vars == <<active, suspended>>

Active == {active[i] : i \in DOMAIN active}

Init ==
  /\ active = <<First>>
  /\ suspended = {}

\* coroutine(fun) returns a coroutine nobody else can be holding as live.
Create ==
  \E c \in Coro \ (Active \cup suspended) :
    /\ suspended' = suspended \cup {c}
    /\ UNCHANGED active

\* resume(c, arg) gives c the CPU and blocks the caller beneath it.
Resume ==
  \E c \in suspended :
    /\ active' = <<c>> \o active
    /\ suspended' = suspended \ {c}

\* yield(arg) gives the CPU back to the coroutine that resumed this one.
Yield ==
  /\ Head(active) # First
  /\ active' = Tail(active)
  /\ suspended' = suspended \cup {Head(active)}

\* fun() returned: as yield(), but the coroutine is no longer resumable.
Return ==
  /\ Head(active) # First
  /\ active' = Tail(active)
  /\ UNCHANGED suspended

Next == Create \/ Resume \/ Yield \/ Return

Spec == Init /\ [][Next]_vars
=============================================================================
