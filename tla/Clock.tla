-------------------------------- MODULE Clock --------------------------------
(***************************************************************************)
(* The timer driver (libclock/src/clock.c) with its users: processes that  *)
(* sleep in sos_sys_usleep (sos/src/syscall/time_syscalls.c) and callers   *)
(* of register_timer and remove_timer with PERIODIC jobs.                  *)
(*                                                                         *)
(* SOS has one thread.  A system call and an interrupt never overlap; the  *)
(* loop of timer_interrupt is one step per callback so that it may also    *)
(* fail to end.  A sleeper is a coroutine that has yielded; its callback   *)
(* resumes it and it then runs to its end.                                 *)
(***************************************************************************)
EXTENDS PQueue

CONSTANTS
  Client,    \* processes that call sos_sys_usleep
  NoClient,  \* the data of a job that resumes nobody
  TICK,      \* TICK_10000_US, the timer period in microseconds
  US_IN_MS,  \* the factor 1000 of syscall_usleep
  INT_MAX,   \* largest value of a C int
  WORD,      \* 2^64, the modulus of delays and ticks
  Msecs,     \* arguments of sos_sys_usleep
  Periods,   \* delays of PERIODIC jobs
  MaxJobs,   \* bound on register_timer calls
  LastCall,  \* bound: no call is made after this time
  MaxTime    \* bound on the uptime

ASSUME ClockAssumption ==
  /\ NoClient \notin Client
  /\ TICK \in Nat \ {0}
  /\ US_IN_MS \in Nat \ {0}
  /\ INT_MAX \in Nat
  /\ WORD \in Nat \ {0}
  /\ Msecs \subseteq Int
  /\ Periods \subseteq Nat
  /\ MaxJobs \in Nat
  /\ LastCall \in Nat
  /\ MaxTime \in Nat
  /\ LastCall <= MaxTime

VARIABLES
  time,         \* pq->time
  queue,        \* pq->head and what follows it
  next_job_id,
  isr,          \* control is inside the loop of timer_interrupt
  sleeping,     \* clients whose coroutine waits for its callback
  due           \* the time each sleeper asked to be woken at

vars == <<time, queue, next_job_id, isr, sleeping, due>>

Job == [id : Nat, delay : Nat, tick : Nat, type : {"PERIODIC", "ONE_SHOT"},
        data : Client \cup {NoClient}]

-----------------------------------------------------------------------------
\* msec * 1000 is an int product converted to uint64_t.  When it overflows
\* the compiled code may have kept either 32 bits of it or all of it.
IntWrap(x) == ((x + INT_MAX + 1) % (2 * (INT_MAX + 1))) - (INT_MAX + 1)

UsleepDelays(msec) ==
  {IntWrap(msec * US_IN_MS) % WORD, (msec * US_IN_MS) % WORD}

ISINRANGE(a, x, b) ==
  LET atLeast == IF x > a THEN x ELSE a
  IN  x = IF atLeast < b THEN atLeast ELSE b

NewJob(delay, type, data) ==
  [id |-> next_job_id, delay |-> delay, tick |-> (time + delay) % WORD,
   type |-> type, data |-> data]

\* Mutants of HeadIsDue: a window one microsecond short, and one long.
HeadIsDue_short ==
  /\ queue # <<>>
  /\ ISINRANGE(time, queue[1].tick, (time + TICK - 2) % WORD)

HeadIsDue_long ==
  /\ queue # <<>>
  /\ ISINRANGE(time, queue[1].tick, (time + TICK) % WORD)

\* The loop condition of timer_interrupt.
HeadIsDue ==
  /\ queue # <<>>
  /\ ISINRANGE(time, queue[1].tick, (time + TICK - 1) % WORD)

Init ==
  /\ time = 0
  /\ queue = <<>>
  /\ next_job_id = 1
  /\ isr = FALSE
  /\ sleeping = {}
  /\ due = [c \in Client |-> 0]

register_timer(delay, type, data) ==
  /\ next_job_id <= MaxJobs
  /\ time <= LastCall
  /\ queue' = pqueue_push(queue, NewJob(delay, type, data))
  /\ next_job_id' = next_job_id + 1

\* The call up to its yield.
syscall_usleep(c, msec) ==
  /\ ~isr
  /\ c \notin sleeping
  /\ \E delay \in UsleepDelays(msec) : register_timer(delay, "ONE_SHOT", c)
  /\ due' = [due EXCEPT ![c] = time + msec * US_IN_MS]
  /\ sleeping' = sleeping \cup {c}
  /\ UNCHANGED <<time, isr>>

register_periodic(period) ==
  /\ ~isr
  /\ register_timer(period, "PERIODIC", NoClient)
  /\ UNCHANGED <<time, isr, sleeping, due>>

\* Callers remove the PERIODIC timers they registered; sleepers never cancel.
remove_timer(id) ==
  /\ ~isr
  /\ \A i \in 1 .. Len(queue) : queue[i].id = id => queue[i].type = "PERIODIC"
  /\ queue' = pqueue_remove(queue, id)
  /\ UNCHANGED <<time, next_job_id, isr, sleeping, due>>

\* The interrupt arrives and timer_interrupt peeks at the first job.
timer_interrupt ==
  /\ ~isr
  /\ time + TICK <= MaxTime
  /\ isr' = TRUE
  /\ UNCHANGED <<time, queue, next_job_id, sleeping, due>>

\* One turn of the loop: the callback resumes the sleeper, then the head is
\* popped.
run_job ==
  /\ isr
  /\ HeadIsDue
  /\ sleeping' = sleeping \ {queue[1].data}
  /\ queue' = pqueue_pop(queue, (time + queue[1].delay) % WORD)
  /\ UNCHANGED <<time, next_job_id, isr, due>>

\* The loop ends, time advances and the interrupt is acknowledged.
end_interrupt ==
  /\ isr
  /\ ~HeadIsDue
  /\ time' = (time + TICK) % WORD
  /\ isr' = FALSE
  /\ UNCHANGED <<queue, next_job_id, sleeping, due>>

Next ==
  \/ \E c \in Client, msec \in Msecs : syscall_usleep(c, msec)
  \/ \E period \in Periods : register_periodic(period)
  \/ \E id \in 1 .. next_job_id - 1 : remove_timer(id)
  \/ timer_interrupt
  \/ run_job
  \/ end_interrupt

Spec == Init /\ [][Next]_vars

\* Timer F keeps interrupting, and SOS runs the handler to its end.
Fairness ==
  /\ WF_vars(timer_interrupt)
  /\ WF_vars(run_job)
  /\ WF_vars(end_interrupt)

FairSpec == Spec /\ Fairness

-----------------------------------------------------------------------------
\* Every variable has its type.
TypeOK ==
  /\ time \in Nat
  /\ queue \in Seq(Job)
  /\ next_job_id \in Nat \ {0}
  /\ isr \in BOOLEAN
  /\ sleeping \subseteq Client
  /\ due \in [Client -> Int]

\* No linked job is overdue.  ISINRANGE has a lower bound: a job whose tick
\* fell behind pq->time would never be run again and would hide every job
\* behind it from timer_interrupt.
NeverOverdue == \A i \in 1 .. Len(queue) : queue[i].tick >= time

\* A linked sleeper's callback finds its coroutine suspended, and only once:
\* usleep_handler's resume() would otherwise fail its assert or wake a
\* coroutine that has moved on.
CallbackFindsSleeper ==
  /\ TypeOK
  /\ \A i \in 1 .. Len(queue) : queue[i].data # NoClient =>
       /\ queue[i].data \in sleeping
       /\ queue[i].type = "ONE_SHOT"
       /\ queue[i].tick = due[queue[i].data]
       /\ \A j \in 1 .. Len(queue) : queue[j].data = queue[i].data => i = j

\* A sleeper is woken inside the timer period that contains the time it asked
\* for: less than one period early, and not late.
WokenInItsPeriod ==
  [][\A c \in sleeping \ sleeping' : time <= due[c] /\ due[c] < time + TICK]_vars

\* A sleeper whose job was linked is woken.
LinkedSleeperWakes ==
  \A c \in Client :
    (\E i \in 1 .. Len(queue) : queue[i].data = c) ~> c \notin sleeping
=============================================================================
