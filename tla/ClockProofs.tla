----------------------------- MODULE ClockProofs -----------------------------
(***************************************************************************)
(* Proofs about Clock for any number of sleepers and any timer period: no  *)
(* linked job falls behind the clock, every callback finds its sleeper and *)
(* wakes it inside the period it asked for.                                *)
(***************************************************************************)
EXTENDS Clock, TLAPS, WellFoundedInduction

\* What the callers of the driver keep to: no usleep argument whose product
\* with 1000 leaves an int, and no delay that carries a tick past 2^64.
DelaysFit ==
  /\ \A msec \in Msecs :
       msec * US_IN_MS \in 0 .. INT_MAX /\ LastCall + msec * US_IN_MS < WORD
  /\ \A period \in Periods : MaxTime + period < WORD
  /\ MaxTime < WORD

\* A job the list may hold at time t, with the clients in asleep asleep until
\* the times in until.
JobOK(job, t, asleep, until) ==
  /\ job.tick >= t
  /\ job.type = "PERIODIC" => job.data = NoClient /\ job.delay \in Periods
  /\ job.data # NoClient =>
       /\ job.data \in asleep
       /\ job.type = "ONE_SHOT"
       /\ job.tick = until[job.data]

\* The list is sorted by tick and no client has two jobs in it.
ListOK(list, t, asleep, until) ==
  /\ list \in Seq(Job)
  /\ \A i, j \in 1 .. Len(list) : i <= j => list[i].tick <= list[j].tick
  /\ \A i \in 1 .. Len(list) : JobOK(list[i], t, asleep, until)
  /\ \A i, j \in 1 .. Len(list) :
       list[i].data # NoClient /\ list[j].data = list[i].data => i = j

\* NeverOverdue is not inductive: the loop of timer_interrupt looks at the
\* first job only, so the other jobs rest on the order of the list.
IInv ==
  /\ TypeOK
  /\ time <= MaxTime
  /\ isr => time + TICK <= MaxTime
  /\ ListOK(queue, time, sleeping, due)

-----------------------------------------------------------------------------
\* A set of natural numbers that is not empty has a smallest one.
LEMMA Smallest ==
  ASSUME NEW S, S \subseteq Nat, S # {}
  PROVE  \E i \in S : \A j \in S : i <= j
<1> DEFINE R == OpToRel(<, Nat)
<1>1. PICK x \in S : \A y \in S : ~(<<y, x>> \in R)
  BY NatLessThanWellFounded, WFMin
<1>2. \A y \in Nat : y < x => <<y, x>> \in R
  BY DEF OpToRel
<1> HIDE DEF R
<1>3. \A y \in S : ~(y < x)
  BY <1>1, <1>2
<1> QED
  BY <1>3

LEMMA FirstOfFacts ==
  ASSUME NEW S, S \subseteq Nat, S # {}
  PROVE  FirstOf(S) \in S /\ \A j \in S : FirstOf(S) <= j
BY Smallest DEF FirstOf

LEMMA ModSmall ==
  ASSUME NEW a \in Nat, NEW b \in Nat \ {0}, a < b
  PROVE  a % b = a
OBVIOUS

\* A product that an int holds is the delay, however it was compiled.
LEMMA DelayFacts ==
  ASSUME DelaysFit, NEW msec \in Msecs, NEW delay \in UsleepDelays(msec)
  PROVE  /\ delay = msec * US_IN_MS
         /\ delay \in Nat
         /\ LastCall + delay < WORD
<1> DEFINE x == msec * US_IN_MS
<1>1. x \in 0 .. INT_MAX /\ x \in Nat /\ LastCall + x < WORD
  BY ClockAssumption DEF DelaysFit
<1>2. delay \in {IntWrap(x) % WORD, x % WORD}
  BY DEF UsleepDelays
<1> HIDE DEF x
<1>3. (x + INT_MAX + 1) % (2 * (INT_MAX + 1)) = x + INT_MAX + 1
  BY <1>1, ModSmall, ClockAssumption
<1>4. IntWrap(x) = x
  BY <1>1, <1>3, ClockAssumption DEF IntWrap
<1>5. x % WORD = x
  BY <1>1, ModSmall, ClockAssumption
<1>6. delay = x
  BY <1>2, <1>4, <1>5
<1> QED
  BY <1>1, <1>6 DEF x

-----------------------------------------------------------------------------
LEMMA JobTick == ASSUME NEW job \in Job PROVE job.tick \in Nat
BY DEF Job

\* Insert moves the jobs from place k on one place down.
LEMMA InsertPlaces ==
  ASSUME NEW list \in Seq(Job), NEW job \in Job, NEW k \in 1 .. Len(list) + 1
  PROVE  /\ Insert(list, k, job) \in Seq(Job)
         /\ Len(Insert(list, k, job)) = Len(list) + 1
         /\ \A i \in 1 .. Len(list) + 1 :
              Insert(list, k, job)[i] =
                IF i < k THEN list[i] ELSE IF i = k THEN job ELSE list[i - 1]
<1> DEFINE l == Insert(list, k, job)
<1>1. \A i \in 1 .. Len(list) + 1 :
        (IF i < k THEN list[i] ELSE IF i = k THEN job ELSE list[i - 1]) \in Job
  OBVIOUS
<1>2. l \in [1 .. Len(list) + 1 -> Job]
  BY <1>1 DEF Insert
<1> QED
  BY <1>2 DEF Insert

\* pqueue_push leaves the list as it is, or puts the job where the order asks
\* for it.
LEMMA PushPlace ==
  ASSUME NEW list \in Seq(Job), NEW job \in Job,
         \A i, j \in 1 .. Len(list) : i <= j => list[i].tick <= list[j].tick,
         pqueue_push(list, job) # list
  PROVE  \E k \in 1 .. Len(list) + 1 :
           /\ pqueue_push(list, job) = Insert(list, k, job)
           /\ \A i \in 1 .. Len(list) : i < k => list[i].tick <= job.tick
           /\ \A i \in 1 .. Len(list) : i >= k => job.tick <= list[i].tick
<1> DEFINE later == LaterPlaces(list, job.tick)
<1>0. /\ Len(list) \in Nat /\ job.tick \in Nat
      /\ \A i \in 1 .. Len(list) : list[i].tick \in Nat
  BY JobTick
<1>1. CASE list = <<>> \/ job.tick <= list[1].tick
  <2>1. pqueue_push(list, job) = Insert(list, 1, job)
    BY <1>1 DEF pqueue_push
  <2>2. \A i \in 1 .. Len(list) : job.tick <= list[i].tick
    BY <1>0, <1>1
  <2> QED
    BY <1>0, <2>1, <2>2
<1>2. CASE ~(list = <<>> \/ job.tick <= list[1].tick) /\ later # {}
  <2>1. pqueue_push(list, job) = Insert(list, FirstOf(later), job)
    BY <1>2 DEF pqueue_push
  <2>2. later \subseteq Nat /\ later \subseteq 2 .. Len(list)
    BY <1>0 DEF LaterPlaces
  <2>3. FirstOf(later) \in later /\ \A j \in later : FirstOf(later) <= j
    BY <1>2, <2>2, FirstOfFacts
  <2> DEFINE k == FirstOf(later)
  <2>4. k \in 2 .. Len(list) /\ list[k].tick > job.tick
    BY <2>2, <2>3 DEF LaterPlaces
  <2>5. ASSUME NEW i \in 1 .. Len(list), i < k PROVE list[i].tick <= job.tick
    <3>1. CASE i = 1
      BY <1>0, <1>2, <3>1
    <3>2. CASE i # 1
      <4>1. i \notin later
        BY <1>0, <2>3, <2>4, <2>5
      <4> QED
        BY <1>0, <3>2, <4>1 DEF LaterPlaces
    <3> QED
      BY <3>1, <3>2
  <2> HIDE DEF k
  <2>6. \A i \in 1 .. Len(list) : i >= k => job.tick <= list[i].tick
    BY <1>0, <2>4
  <2> QED
    BY <1>0, <2>1, <2>4, <2>5, <2>6 DEF k
<1>3. CASE ~(list = <<>> \/ job.tick <= list[1].tick) /\ later = {}
  <2>1. pqueue_push(list, job) =
          IF list[Len(list)].tick < job.tick THEN Insert(list, Len(list) + 1, job)
          ELSE list
    BY <1>3 DEF pqueue_push
  <2>2. list[Len(list)].tick < job.tick /\ Len(list) # 0
    BY <1>3, <2>1
  <2>3. \A i \in 1 .. Len(list) : list[i].tick <= job.tick
    BY <1>0, <2>2
  <2> QED
    BY <1>0, <2>1, <2>2, <2>3
<1> QED
  BY <1>1, <1>2, <1>3

\* A job of nobody in the list may be pushed.
LEMMA PushKeeps ==
  ASSUME NEW t \in Nat, NEW asleep, NEW until, NEW list, NEW job \in Job,
         ListOK(list, t, asleep, until),
         JobOK(job, t, asleep, until),
         job.data # NoClient => \A i \in 1 .. Len(list) : list[i].data # job.data
  PROVE  ListOK(pqueue_push(list, job), t, asleep, until)
<1> DEFINE l == pqueue_push(list, job)
<1>0. /\ list \in Seq(Job) /\ Len(list) \in Nat
      /\ \A i, j \in 1 .. Len(list) : i <= j => list[i].tick <= list[j].tick
      /\ \A i \in 1 .. Len(list) : JobOK(list[i], t, asleep, until)
      /\ \A i, j \in 1 .. Len(list) :
           list[i].data # NoClient /\ list[j].data = list[i].data => i = j
  BY DEF ListOK
<1>1. /\ job.tick \in Nat
      /\ \A i \in 1 .. Len(list) : list[i] \in Job /\ list[i].tick \in Nat
  BY <1>0, JobTick
<1>2. CASE l = list
  BY <1>2
<1>3. CASE l # list
  <2>1. PICK k \in 1 .. Len(list) + 1 :
           /\ l = Insert(list, k, job)
           /\ \A i \in 1 .. Len(list) : i < k => list[i].tick <= job.tick
           /\ \A i \in 1 .. Len(list) : i >= k => job.tick <= list[i].tick
    BY <1>0, <1>3, PushPlace
  <2>2. /\ l \in Seq(Job) /\ Len(l) = Len(list) + 1
        /\ \A i \in 1 .. Len(list) + 1 :
             l[i] = IF i < k THEN list[i] ELSE IF i = k THEN job ELSE list[i - 1]
    BY <1>0, <2>1, InsertPlaces, SMTT(40)
  <2> HIDE DEF l
  <2>3. ASSUME NEW i \in 1 .. Len(l)
        PROVE  \/ i = k /\ l[i] = job
               \/ i < k /\ i \in 1 .. Len(list) /\ l[i] = list[i]
               \/ i > k /\ i - 1 \in 1 .. Len(list) /\ i - 1 >= k /\ l[i] = list[i - 1]
    BY <1>0, <2>2
  <2>4. ASSUME NEW i \in 1 .. Len(l), NEW j \in 1 .. Len(l), i <= j
        PROVE  l[i].tick <= l[j].tick
    <3>1. /\ \/ i = k /\ l[i] = job
             \/ i < k /\ i \in 1 .. Len(list) /\ l[i] = list[i]
             \/ i > k /\ i - 1 \in 1 .. Len(list) /\ i - 1 >= k /\ l[i] = list[i - 1]
          /\ \/ j = k /\ l[j] = job
             \/ j < k /\ j \in 1 .. Len(list) /\ l[j] = list[j]
             \/ j > k /\ j - 1 \in 1 .. Len(list) /\ j - 1 >= k /\ l[j] = list[j - 1]
      BY <2>3
    <3>2. CASE i >= k /\ j <= k
      BY <1>1, <2>4, <3>1, <3>2
    <3>3. CASE i < k
      BY <1>0, <1>1, <2>1, <2>4, <3>1, <3>3, SMTT(40)
    <3>4. CASE i >= k /\ j > k
      <4>1. PICK b \in 1 .. Len(list) : b = j - 1 /\ b >= k /\ l[j] = list[b]
        BY <3>1, <3>4
      <4>2. CASE i = k
        BY <2>1, <3>1, <4>1, <4>2
      <4>3. CASE i > k
        <5>1. PICK a \in 1 .. Len(list) : a = i - 1 /\ l[i] = list[a]
          BY <3>1, <4>3
        <5>2. a <= b
          BY <2>4, <4>1, <5>1
        <5> QED
          BY <1>0, <4>1, <5>1, <5>2
      <4> QED
        BY <3>4, <4>2, <4>3
    <3> QED
      BY <1>0, <3>2, <3>3, <3>4
  <2>5. \A i \in 1 .. Len(l) : JobOK(l[i], t, asleep, until)
    BY <1>0, <2>3
  <2>6. ASSUME NEW i \in 1 .. Len(l), NEW j \in 1 .. Len(l),
               l[i].data # NoClient, l[j].data = l[i].data
        PROVE  i = j
    <3>1. CASE i = k
      BY <2>3, <2>6, <3>1
    <3>2. CASE j = k
      BY <2>3, <2>6, <3>2
    <3>3. CASE i # k /\ j # k
      <4>1. PICK a \in 1 .. Len(list) : l[i] = list[a] /\ a = IF i < k THEN i ELSE i - 1
        BY <2>3, <3>3
      <4>2. PICK b \in 1 .. Len(list) : l[j] = list[b] /\ b = IF j < k THEN j ELSE j - 1
        BY <2>3, <3>3
      <4>3. a = b
        BY <1>0, <2>6, <4>1, <4>2
      <4> QED
        BY <3>3, <4>1, <4>2, <4>3
    <3> QED
      BY <3>1, <3>2, <3>3
  <2>7. ListOK(l, t, asleep, until)
    BY <2>2, <2>4, <2>5, <2>6 DEF ListOK
  <2> QED
    BY <2>7 DEF l
<1> QED
  BY <1>2, <1>3

\* A list without its job at place k keeps its order.
LEMMA CutKeeps ==
  ASSUME NEW t \in Nat, NEW asleep, NEW until, NEW list,
         ListOK(list, t, asleep, until),
         NEW k \in 1 .. Len(list), NEW l \in Seq(Job),
         Len(l) = Len(list) - 1,
         \A i \in 1 .. Len(list) - 1 : l[i] = IF i < k THEN list[i] ELSE list[i + 1]
  PROVE  /\ ListOK(l, t, asleep, until)
         /\ \A i \in 1 .. Len(l) : \E a \in 1 .. Len(list) : a # k /\ l[i] = list[a]
<1>0. /\ list \in Seq(Job) /\ Len(list) \in Nat
      /\ \A i, j \in 1 .. Len(list) : i <= j => list[i].tick <= list[j].tick
      /\ \A i \in 1 .. Len(list) : JobOK(list[i], t, asleep, until)
      /\ \A i, j \in 1 .. Len(list) :
           list[i].data # NoClient /\ list[j].data = list[i].data => i = j
  BY DEF ListOK
<1> DEFINE old(i) == IF i < k THEN i ELSE i + 1
<1>1. \A i \in 1 .. Len(l) : old(i) \in 1 .. Len(list) /\ old(i) # k /\ l[i] = list[old(i)]
  BY <1>0
<1>2. \A i, j \in 1 .. Len(l) : /\ i <= j => old(i) <= old(j)
                                /\ old(i) = old(j) => i = j
  BY <1>0
<1> HIDE DEF old
<1>3. \A i, j \in 1 .. Len(l) : i <= j => l[i].tick <= l[j].tick
  BY <1>0, <1>1, <1>2
<1>4. \A i \in 1 .. Len(l) : JobOK(l[i], t, asleep, until)
  BY <1>0, <1>1
<1>5. \A i, j \in 1 .. Len(l) :
        l[i].data # NoClient /\ l[j].data = l[i].data => i = j
  BY <1>0, <1>1, <1>2
<1>6. ListOK(l, t, asleep, until)
  BY <1>3, <1>4, <1>5 DEF ListOK
<1> QED
  BY <1>1, <1>6

LEMMA RemoveKeeps ==
  ASSUME NEW t \in Nat, NEW asleep, NEW until, NEW list, NEW id,
         ListOK(list, t, asleep, until)
  PROVE  ListOK(pqueue_remove(list, id), t, asleep, until)
<1> DEFINE places == {i \in 1 .. Len(list) : list[i].id = id}
           k == FirstOf(places)
           l == [i \in 1 .. Len(list) - 1 |-> IF i < k THEN list[i] ELSE list[i + 1]]
<1>0. list \in Seq(Job) /\ Len(list) \in Nat
  BY DEF ListOK
<1>1. CASE places = {}
  BY <1>1 DEF pqueue_remove
<1>2. CASE places # {}
  <2>1. places \subseteq Nat /\ places \subseteq 1 .. Len(list)
    BY <1>0
  <2>2. k \in 1 .. Len(list)
    <3> HIDE DEF places
    <3> QED
      BY <1>2, <2>1, FirstOfFacts
  <2>3. pqueue_remove(list, id) = l
    BY <1>2 DEF pqueue_remove
  <2> HIDE DEF k, places
  <2>4. l \in [1 .. Len(list) - 1 -> Job]
    BY <1>0, <2>2
  <2>5. /\ l \in Seq(Job) /\ Len(l) = Len(list) - 1
        /\ \A i \in 1 .. Len(list) - 1 : l[i] = IF i < k THEN list[i] ELSE list[i + 1]
    BY <1>0, <2>2, <2>4
  <2> HIDE DEF l
  <2> QED
    BY <2>2, <2>3, <2>5, CutKeeps
<1> QED
  BY <1>1, <1>2

-----------------------------------------------------------------------------
LEMMA InitIInv == Init => IInv
<1> SUFFICES ASSUME Init PROVE IInv
  OBVIOUS
<1>1. TypeOK
  <2>1. queue \in Seq(Job) /\ sleeping \subseteq Client /\ due \in [Client -> Int]
    BY DEF Init
  <2>2. isr \in BOOLEAN
    BY Zenon DEF Init
  <2> QED
    BY <2>1, <2>2 DEF Init, TypeOK
<1>2. ListOK(queue, time, sleeping, due)
  BY DEF Init, ListOK
<1> QED
  BY <1>1, <1>2, ClockAssumption DEF Init, IInv

LEMMA NewJobFacts ==
  ASSUME IInv, time <= LastCall, NEW delay \in Nat, LastCall + delay < WORD,
         NEW type \in {"PERIODIC", "ONE_SHOT"}, NEW data \in Client \cup {NoClient}
  PROVE  /\ NewJob(delay, type, data) \in Job
         /\ NewJob(delay, type, data).tick = time + delay
         /\ NewJob(delay, type, data).type = type
         /\ NewJob(delay, type, data).data = data
         /\ NewJob(delay, type, data).delay = delay
<1>1. time \in Nat /\ next_job_id \in Nat
  BY DEF IInv, TypeOK
<1>2. (time + delay) % WORD = time + delay
  BY <1>1, ModSmall, ClockAssumption
<1> QED
  BY <1>1, <1>2 DEF NewJob, Job

LEMMA UsleepIInv ==
  ASSUME DelaysFit, IInv, NEW c \in Client, NEW msec \in Msecs, syscall_usleep(c, msec)
  PROVE  IInv'
<1>0. /\ TypeOK /\ ListOK(queue, time, sleeping, due) /\ time <= MaxTime
      /\ isr' = isr /\ time' = time /\ ~isr
      /\ sleeping' = sleeping \cup {c} /\ c \notin sleeping
      /\ due' = [due EXCEPT ![c] = time + msec * US_IN_MS]
      /\ time <= LastCall /\ next_job_id' = next_job_id + 1
  BY DEF IInv, syscall_usleep, register_timer
<1>1. PICK delay \in UsleepDelays(msec) :
        queue' = pqueue_push(queue, NewJob(delay, "ONE_SHOT", c))
  BY DEF syscall_usleep, register_timer
<1>2. delay = msec * US_IN_MS /\ delay \in Nat /\ LastCall + delay < WORD
  BY DelayFacts
<1> DEFINE job == NewJob(delay, "ONE_SHOT", c)
<1>3. /\ job \in Job /\ job.tick = time + delay
      /\ job.type = "ONE_SHOT" /\ job.data = c
  BY <1>0, <1>2, NewJobFacts
<1> HIDE DEF job
<1>4. due' \in [Client -> Int] /\ due'[c] = time + delay
      /\ \A d \in Client : d # c => due'[d] = due[d]
  BY <1>0, <1>2 DEF TypeOK
<1>5. c # NoClient
  BY ClockAssumption
<1>6. \A i \in 1 .. Len(queue) : queue[i].data # c
  BY <1>0, <1>5 DEF ListOK, JobOK
<1>7. ListOK(queue, time, sleeping', due')
  <2>1. \A i \in 1 .. Len(queue) : JobOK(queue[i], time, sleeping', due')
    BY <1>0, <1>4, <1>6 DEF ListOK, JobOK, TypeOK
  <2> QED
    BY <1>0, <2>1 DEF ListOK
<1>8. JobOK(job, time, sleeping', due')
  BY <1>0, <1>2, <1>3, <1>4 DEF JobOK, TypeOK
<1>9. ListOK(queue', time, sleeping', due')
  BY <1>0, <1>1, <1>3, <1>6, <1>7, <1>8, PushKeeps DEF TypeOK, job
<1>10. TypeOK'
  BY <1>0, <1>4, <1>9 DEF TypeOK, ListOK
<1> QED
  BY <1>0, <1>9, <1>10 DEF IInv

LEMMA PeriodicIInv ==
  ASSUME DelaysFit, IInv, NEW period \in Periods, register_periodic(period)
  PROVE  IInv'
<1>0. /\ TypeOK /\ ListOK(queue, time, sleeping, due) /\ time <= MaxTime
      /\ UNCHANGED <<time, isr, sleeping, due>> /\ ~isr
      /\ time <= LastCall /\ next_job_id' = next_job_id + 1
      /\ queue' = pqueue_push(queue, NewJob(period, "PERIODIC", NoClient))
  BY DEF IInv, register_periodic, register_timer
<1> DEFINE job == NewJob(period, "PERIODIC", NoClient)
<1>1. period \in Nat /\ LastCall + period < WORD
  BY ClockAssumption DEF DelaysFit
<1>2. /\ job \in Job /\ job.tick = time + period
      /\ job.type = "PERIODIC" /\ job.data = NoClient /\ job.delay = period
  BY <1>0, <1>1, NewJobFacts
<1> HIDE DEF job
<1>3. JobOK(job, time, sleeping, due)
  BY <1>0, <1>1, <1>2 DEF JobOK, TypeOK
<1>4. ListOK(queue', time, sleeping, due)
  BY <1>0, <1>2, <1>3, PushKeeps DEF TypeOK, job
<1>5. TypeOK'
  BY <1>0, <1>4 DEF TypeOK, ListOK
<1> QED
  BY <1>0, <1>4, <1>5 DEF IInv

LEMMA RemoveIInv ==
  ASSUME IInv, NEW id, remove_timer(id)
  PROVE  IInv'
<1>0. /\ TypeOK /\ ListOK(queue, time, sleeping, due) /\ time <= MaxTime
      /\ UNCHANGED <<time, next_job_id, isr, sleeping, due>> /\ ~isr
      /\ queue' = pqueue_remove(queue, id)
  BY DEF IInv, remove_timer
<1>1. ListOK(queue', time, sleeping, due)
  BY <1>0, RemoveKeeps DEF TypeOK
<1>2. TypeOK'
  BY <1>0, <1>1 DEF TypeOK, ListOK
<1> QED
  BY <1>0, <1>1, <1>2 DEF IInv

\* A callback that finds its sleeper leaves no job of that sleeper behind.
LEMMA RunIInv ==
  ASSUME DelaysFit, IInv, run_job
  PROVE  IInv'
<1>0. /\ TypeOK /\ ListOK(queue, time, sleeping, due) /\ time <= MaxTime
      /\ UNCHANGED <<time, next_job_id, isr, due>> /\ isr /\ time + TICK <= MaxTime
      /\ sleeping' = sleeping \ {queue[1].data}
      /\ queue' = pqueue_pop(queue, (time + queue[1].delay) % WORD)
      /\ queue # <<>>
  BY DEF IInv, run_job, HeadIsDue
<1>1. /\ queue \in Seq(Job) /\ Len(queue) \in Nat \ {0}
      /\ 1 \in 1 .. Len(queue) /\ queue[1] \in Job /\ Head(queue) = queue[1]
      /\ Tail(queue) \in Seq(Job) /\ Len(Tail(queue)) = Len(queue) - 1
      /\ \A i \in 1 .. Len(queue) - 1 : Tail(queue)[i] = queue[i + 1]
  BY <1>0 DEF TypeOK
<1>a. time \in Nat
  BY <1>0 DEF TypeOK
<1> DEFINE list == Tail(queue)
<1>2. /\ ListOK(list, time, sleeping, due)
      /\ \A i \in 1 .. Len(list) : \E a \in 1 .. Len(queue) : a # 1 /\ list[i] = queue[a]
  <2>1. \A i \in 1 .. Len(queue) - 1 : list[i] = IF i < 1 THEN queue[i] ELSE queue[i + 1]
    BY <1>1
  <2> HIDE DEF list
  <2>2. list \in Seq(Job) /\ Len(list) = Len(queue) - 1 /\ time \in Nat
    BY <1>0, <1>1 DEF list, TypeOK
  <2> QED
    BY <1>0, <1>1, <2>1, <2>2, CutKeeps
<1>3. ListOK(list, time, sleeping', due')
  <2>1. \A i \in 1 .. Len(list) :
          list[i].data # NoClient => list[i].data # queue[1].data
    BY <1>0, <1>1, <1>2 DEF ListOK
  <2>2. \A i \in 1 .. Len(list) : JobOK(list[i], time, sleeping', due')
    BY <1>0, <1>2, <2>1 DEF ListOK, JobOK
  <2> QED
    BY <1>2, <2>2 DEF ListOK
<1>4. ListOK(queue', time, sleeping', due')
  <2>1. CASE queue[1].type # "PERIODIC"
    BY <1>0, <1>1, <1>3, <2>1 DEF pqueue_pop
  <2>2. CASE queue[1].type = "PERIODIC"
    <3>1. queue[1].data = NoClient /\ queue[1].delay \in Periods
      BY <1>0, <1>1, <2>2 DEF ListOK, JobOK
    <3>2. (time + queue[1].delay) % WORD = time + queue[1].delay
      <4>1. queue[1].delay \in Nat /\ MaxTime + queue[1].delay < WORD
        BY <3>1, ClockAssumption DEF DelaysFit
      <4>2. time + queue[1].delay < WORD /\ time + queue[1].delay \in Nat
        BY <1>0, <1>a, <4>1, ClockAssumption
      <4> QED
        BY <4>2, ModSmall, ClockAssumption
    <3> DEFINE job == [queue[1] EXCEPT !.tick = time + queue[1].delay]
    <3>3. /\ job \in Job /\ job.tick = time + queue[1].delay /\ job.type = "PERIODIC"
          /\ job.data = NoClient /\ job.delay = queue[1].delay
      <4>1. queue[1].delay \in Nat
        BY <3>1, ClockAssumption
      <4> QED
        BY <1>1, <1>a, <2>2, <3>1, <4>1 DEF Job
    <3>4. queue' = pqueue_push(list, job)
      BY <1>0, <1>1, <2>2, <3>2 DEF pqueue_pop
    <3> HIDE DEF job, list
    <3>5. JobOK(job, time, sleeping', due')
      <4>1. queue[1].delay \in Nat
        BY <3>1, ClockAssumption
      <4>2. job.tick >= time
        BY <1>a, <3>3, <4>1
      <4> QED
        BY <3>1, <3>3, <4>2 DEF JobOK
    <3> QED
      BY <1>0, <1>3, <3>3, <3>4, <3>5, PushKeeps DEF TypeOK
  <2> QED
    BY <2>1, <2>2
<1>5. TypeOK'
  BY <1>0, <1>4 DEF TypeOK, ListOK
<1> QED
  BY <1>0, <1>4, <1>5 DEF IInv

\* The loop ends at a head that is due after this period, and so is every job
\* behind it.
LEMMA EndIInv ==
  ASSUME DelaysFit, IInv, end_interrupt
  PROVE  IInv'
<1>0. /\ TypeOK /\ ListOK(queue, time, sleeping, due)
      /\ UNCHANGED <<queue, next_job_id, sleeping, due>>
      /\ time + TICK <= MaxTime /\ isr' = FALSE
      /\ time' = (time + TICK) % WORD /\ ~HeadIsDue
  BY DEF IInv, end_interrupt
<1>1. time \in Nat /\ TICK \in Nat \ {0} /\ time + TICK < WORD
  BY <1>0, ClockAssumption DEF TypeOK, DelaysFit
<1>2. time' = time + TICK /\ (time + TICK - 1) % WORD = time + TICK - 1
  BY <1>0, <1>1, ModSmall, ClockAssumption
<1>3. \A i \in 1 .. Len(queue) : queue[i].tick >= time'
  <2> SUFFICES ASSUME NEW i \in 1 .. Len(queue) PROVE queue[i].tick >= time'
    OBVIOUS
  <2>1. /\ queue \in Seq(Job) /\ queue # <<>> /\ 1 \in 1 .. Len(queue)
        /\ queue[1] \in Job /\ queue[i] \in Job
    BY <1>0 DEF TypeOK
  <2>2. queue[1].tick \in Nat /\ queue[i].tick \in Nat
    BY <2>1, JobTick
  <2>3. queue[1].tick >= time /\ queue[1].tick <= queue[i].tick
    BY <1>0, <2>1 DEF ListOK, JobOK
  <2>4. ~ISINRANGE(time, queue[1].tick, time + TICK - 1)
    BY <1>0, <1>2, <2>1 DEF HeadIsDue
  <2>5. queue[1].tick >= time + TICK
    BY <1>1, <2>2, <2>3, <2>4 DEF ISINRANGE
  <2> QED
    BY <1>1, <1>2, <2>2, <2>3, <2>5
<1>4. ListOK(queue, time', sleeping, due)
  BY <1>0, <1>3 DEF ListOK, JobOK
<1>5. TypeOK'
  <2>1. isr' \in BOOLEAN
    BY <1>0, Zenon
  <2> QED
    BY <1>0, <1>1, <1>2, <2>1 DEF TypeOK
<1> QED
  BY <1>0, <1>2, <1>4, <1>5 DEF IInv

LEMMA NextIInv == ASSUME DelaysFit, IInv, [Next]_vars PROVE IInv'
<1>1. CASE timer_interrupt
  BY <1>1 DEF timer_interrupt, IInv, TypeOK
<1>2. CASE UNCHANGED vars
  BY <1>2 DEF vars, IInv, TypeOK
<1> QED
  BY <1>1, <1>2, UsleepIInv, PeriodicIInv, RemoveIInv, RunIInv, EndIInv DEF Next

LEMMA Inductive == ASSUME DelaysFit PROVE Spec => []IInv
<1>1. IInv /\ [Next]_vars => IInv'
  BY NextIInv
<1> QED
  BY <1>1, InitIInv, PTL DEF Spec

\* No linked job is ever overdue, so the lower bound of ISINRANGE never hides
\* one from timer_interrupt.
THEOREM NoJobMissed == ASSUME DelaysFit PROVE Spec => []NeverOverdue
<1>1. IInv => NeverOverdue
  BY DEF IInv, ListOK, JobOK, NeverOverdue
<1> QED
  BY <1>1, Inductive, PTL

\* usleep_handler always resumes a coroutine that waits for it, and no
\* coroutine is resumed by two jobs.
THEOREM SleeperFound == ASSUME DelaysFit PROVE Spec => []CallbackFindsSleeper
<1>1. IInv => CallbackFindsSleeper
  BY DEF IInv, ListOK, JobOK, CallbackFindsSleeper
<1> QED
  BY <1>1, Inductive, PTL

\* Whoever is woken is woken in the timer period that contains the time it
\* asked for.
THEOREM WokenInTime == ASSUME DelaysFit PROVE Spec => WokenInItsPeriod
<1>1. ASSUME IInv, [Next]_vars, NEW c \in sleeping \ sleeping'
      PROVE  time <= due[c] /\ due[c] < time + TICK
  <2>1. run_job
    BY <1>1 DEF Next, vars, syscall_usleep, register_periodic, remove_timer,
                timer_interrupt, end_interrupt
  <2>2. /\ TypeOK /\ ListOK(queue, time, sleeping, due) /\ time + TICK <= MaxTime
        /\ HeadIsDue /\ c = queue[1].data /\ c # NoClient
    BY <1>1, <2>1, ClockAssumption DEF IInv, run_job, TypeOK
  <2>3. /\ queue \in Seq(Job) /\ 1 \in 1 .. Len(queue) /\ queue[1] \in Job
        /\ time \in Nat /\ TICK \in Nat \ {0} /\ time + TICK < WORD
    BY <2>2, ClockAssumption DEF HeadIsDue, TypeOK, DelaysFit
  <2>4. queue[1].tick = due[c] /\ queue[1].tick \in Nat
    BY <2>2, <2>3, JobTick DEF ListOK, JobOK
  <2>5. (time + TICK - 1) % WORD = time + TICK - 1
    BY <2>3, ModSmall, ClockAssumption
  <2>6. ISINRANGE(time, queue[1].tick, time + TICK - 1)
    BY <2>2, <2>5 DEF HeadIsDue
  <2> QED
    BY <2>3, <2>4, <2>6 DEF ISINRANGE
<1>2. IInv /\ [Next]_vars =>
        (\A c \in sleeping \ sleeping' : time <= due[c] /\ due[c] < time + TICK)
  BY <1>1
<1> QED
  BY <1>2, Inductive, PTL DEF Spec, WokenInItsPeriod
=============================================================================
