------------------------------- MODULE Picoro -------------------------------
(***************************************************************************)
(* The coroutine library of SOS, sos/src/picoro/picoro.c.  Every system    *)
(* call and every VM fault runs in one of its coroutines; the event loop   *)
(* of main.c runs in "first".                                              *)
(*                                                                         *)
(* The two linked lists are sequences, head first; the next field of a     *)
(* coroutine is what those sequences say it is.  pc[c] is the place in     *)
(* coroutine_main() where coroutine c stands.                              *)
(***************************************************************************)
EXTENDS Integers, Sequences

CONSTANTS Coro,   \* stacks coroutine_start() can still find room for
          First,  \* the static object "first"
          NULL

ASSUME CoroAssumption ==
  /\ First \notin Coro
  /\ NULL \notin Coro
  /\ NULL # First

VARIABLES running,  \* list of running coroutines, the head has the CPU
          idle,     \* list of coroutines waiting for a function
          pc        \* where each coroutine is in coroutine_main()

vars == <<running, idle, pc>>

Places == {"unborn",  \* not forked yet
           "fresh",   \* in pass(), before the first function arrives
           "given",   \* in yield(&me), a function is set and not started
           "body",    \* inside the function
           "done"}    \* in pass(), the function has returned

Elements(list) == {list[i] : i \in 1 .. Len(list)}

Unborn == {c \in Coro : pc[c] = "unborn"}

\* Coroutines whose address some caller of coroutine() has been given.
Visible == {c \in Coro : pc[c] \in {"given", "body", "done"}}

push(list, c) == <<c>> \o list

\* The next field of c when c stands on list: NULL at the bottom.
NextOn(list, c) ==
  LET i == CHOOSE j \in 1 .. Len(list) : list[j] = c
  IN  IF i < Len(list) THEN list[i + 1] ELSE NULL

next(c) ==
  IF c \in Elements(running) THEN NextOn(running, c)
  ELSE IF c \in Elements(idle) THEN NextOn(idle, c)
  ELSE NULL

\* Mutant of resumable: the next field is not looked at.
resumable_any(c) == c # NULL

resumable(c) == c # NULL /\ next(c) = NULL

-----------------------------------------------------------------------------
Init ==
  /\ running = <<First>>
  /\ idle = <<>>
  /\ pc = [c \in Coro |-> "unborn"]

\* coroutine() with no idle coroutine: fork c and give it the function.
\* c finds the idle list empty and forks spare before it yields its address.
CoroutineFirst(c, spare) ==
  /\ idle = <<>>
  /\ c # spare
  /\ {c, spare} \subseteq Unborn
  /\ idle' = push(idle, spare)
  /\ pc' = [pc EXCEPT ![c] = "given", ![spare] = "fresh"]
  /\ UNCHANGED running

\* Mutant of CoroutineFork: no successor is forked.
CoroutineFork_none(spare) ==
  /\ idle # <<>>
  /\ pc[Head(idle)] = "fresh"
  /\ spare \in Unborn
  /\ idle' = Tail(idle)
  /\ pc' = [pc EXCEPT ![Head(idle)] = "given"]
  /\ UNCHANGED running

\* coroutine() taking one that never ran: it forks its successor.
CoroutineFork(spare) ==
  /\ idle # <<>>
  /\ pc[Head(idle)] = "fresh"
  /\ spare \in Unborn
  /\ idle' = push(Tail(idle), spare)
  /\ pc' = [pc EXCEPT ![Head(idle)] = "given", ![spare] = "fresh"]
  /\ UNCHANGED running

\* coroutine() reusing one whose function has returned.
CoroutineReuse ==
  /\ idle # <<>>
  /\ pc[Head(idle)] = "done"
  /\ idle' = Tail(idle)
  /\ pc' = [pc EXCEPT ![Head(idle)] = "given"]
  /\ UNCHANGED running

\* resume(): any caller may try any address it was once given; the assert
\* lets through the ones whose next field is NULL.
Resume(c) ==
  /\ c \in Visible
  /\ resumable(c)
  /\ running' = push(running, c)
  /\ pc' = [pc EXCEPT ![c] = "body"]
  /\ UNCHANGED idle

\* yield() from inside the function.  The event loop, which is "first",
\* never yields.
Yield ==
  /\ Head(running) # First
  /\ running' = Tail(running)
  /\ UNCHANGED <<idle, pc>>

\* Mutant of Return: the finished coroutine goes to the bottom of the idle list.
Return_bottom ==
  /\ Head(running) # First
  /\ idle' = Append(idle, Head(running))
  /\ running' = Tail(running)
  /\ pc' = [pc EXCEPT ![Head(running)] = "done"]

\* The function returns: coroutine_main() moves itself to the idle list.
Return ==
  /\ Head(running) # First
  /\ idle' = push(idle, Head(running))
  /\ running' = Tail(running)
  /\ pc' = [pc EXCEPT ![Head(running)] = "done"]

Next ==
  \/ \E c, spare \in Coro : CoroutineFirst(c, spare)
  \/ \E spare \in Coro : CoroutineFork(spare)
  \/ CoroutineReuse
  \/ \E c \in Coro : Resume(c)
  \/ Yield
  \/ Return

Spec == Init /\ [][Next]_vars

-----------------------------------------------------------------------------
\* The lists hold coroutines and every coroutine has a place.
TypeOK ==
  /\ running \in Seq(Coro \cup {First})
  /\ idle \in Seq(Coro)
  /\ pc \in [Coro -> Places]

\* picoro.h: resumable() "Returns false when the coroutine has run to
\* completion or when it is blocked inside resume()".  The test is a single
\* NULL check on the next field, so no address a caller holds may be at the
\* bottom of a list.
ResumableIsExact ==
  \A c \in Visible :
    resumable(c) <=> c \notin Elements(running) \cup Elements(idle)

\* picoro.c: "After initialization [the idle list] is never NULL": exactly
\* one coroutine that never ran stands at its bottom, under the finished ones.
SpareAtBottom ==
  idle # <<>> =>
    \A i \in 1 .. Len(idle) : pc[idle[i]] = IF i = Len(idle) THEN "fresh" ELSE "done"

\* A coroutine is on one list at most and once at most, and "first" stays at
\* the bottom of the running list, so that yield() always finds its resumer.
ListsDisjoint ==
  /\ running # <<>>
  /\ running[Len(running)] = First
  /\ \A i, j \in 1 .. Len(running) : running[i] = running[j] => i = j
  /\ \A i, j \in 1 .. Len(idle) : idle[i] = idle[j] => i = j
  /\ Elements(running) \cap Elements(idle) = {}

\* Once a first coroutine exists the idle list is never empty again.
IdleStaysNonEmpty == [][idle # <<>> => idle' # <<>>]_vars

\* The lists implement the interface: the callers blocked in resume() are the
\* running list, the resumable ones are what the assert in resume() accepts.
Api == INSTANCE CoroutineApi WITH
         active <- running,
         suspended <- {c \in Visible : resumable(c)}

ImplementsApi == Api!Spec
=============================================================================
