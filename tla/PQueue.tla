------------------------------- MODULE PQueue -------------------------------
(***************************************************************************)
(* The job list of the timer driver, libclock/src/pqueue.c.  The linked    *)
(* list hanging off pq->head is a sequence of job records; each operator   *)
(* gives the list that the C function leaves behind.  pq->size is written  *)
(* by these functions and read by nothing, and is left out.                *)
(***************************************************************************)
EXTENDS Integers, Sequences

\* The list with job put in front of what stands at place k.
Insert(list, k, job) ==
  [i \in 1 .. Len(list) + 1 |->
     IF i < k THEN list[i] ELSE IF i = k THEN job ELSE list[i - 1]]

\* Places after the head whose job is due strictly later than tick: the walk
\* of pqueue_push stops in front of the first of them.
LaterPlaces(list, tick) == {i \in 2 .. Len(list) : list[i].tick > tick}

FirstOf(S) == CHOOSE i \in S : \A j \in S : i <= j

\* pqueue_push.  When the walk reaches the last job and that job is not due
\* strictly before the new one, the new one is linked nowhere.
pqueue_push(list, job) ==
  LET later == LaterPlaces(list, job.tick)
      last  == Len(list)
  IN  IF list = <<>> \/ job.tick <= list[1].tick THEN Insert(list, 1, job)
      ELSE IF later # {} THEN Insert(list, FirstOf(later), job)
      ELSE IF list[last].tick < job.tick THEN Insert(list, last + 1, job)
      ELSE list

\* Mutants of pqueue_pop: the job goes back with the tick it had, or goes
\* back whatever its type.
pqueue_pop_same_tick(list, tick) ==
  IF Head(list).type = "PERIODIC" THEN pqueue_push(Tail(list), Head(list))
  ELSE Tail(list)

pqueue_pop_any_type(list, tick) ==
  pqueue_push(Tail(list), [Head(list) EXCEPT !.tick = tick])

\* pqueue_pop on a non-empty list: a PERIODIC job goes back in, with the
\* tick that pqueue_push computes for it at that moment.
pqueue_pop(list, tick) ==
  IF Head(list).type = "PERIODIC"
  THEN pqueue_push(Tail(list), [Head(list) EXCEPT !.tick = tick])
  ELSE Tail(list)

\* pqueue_remove: the first job with that id is unlinked.
pqueue_remove(list, id) ==
  LET places == {i \in 1 .. Len(list) : list[i].id = id}
      k      == FirstOf(places)
  IN  IF places = {} THEN list
      ELSE [i \in 1 .. Len(list) - 1 |-> IF i < k THEN list[i] ELSE list[i + 1]]
=============================================================================
