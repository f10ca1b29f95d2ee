----------------------------- MODULE ProcProofs -----------------------------
(***************************************************************************)
(* Proofs about Proc for tables of any size, any number of processes and   *)
(* any clients: the table and the pid fields agree, coro_count is exact,   *)
(* no struct is freed under a file operation and no zombie is forgotten.   *)
(* For clients that name only started processes: no waiter is stranded.    *)
(***************************************************************************)
EXTENDS Proc, TLAPS

\* A handler inside process_create knows the struct it is loading, and none
\* works for the kernel's process.
LoadingKnown ==
  /\ \A g \in Gen : call[g] = "create" => loading[g] \in Gen
  /\ call[KernelProc] = "none"

\* FileCallsKeepStruct holds by itself; ZombiesListed needs TableSound (the
\* slot reap() clears is the zombie's own) and both need the types.
IInv ==
  TypeOK /\ TableSound /\ FileCallsKeepStruct /\ ZombiesListed /\ LoadingKnown

-----------------------------------------------------------------------------
\* The last place of a list holds what was appended, the others keep theirs.
LEMMA AppendPlaces ==
  ASSUME NEW S, NEW s \in Seq(S), NEW c \in S
  PROVE  /\ Append(s, c) \in Seq(S)
         /\ Len(s) \in Nat
         /\ Len(Append(s, c)) = Len(s) + 1
         /\ Append(s, c)[Len(s) + 1] = c
         /\ \A i \in 1 .. Len(s) : Append(s, c)[i] = s[i]
OBVIOUS

\* Taking the head off moves the others one place up.
LEMMA TailPlaces ==
  ASSUME NEW S, NEW s \in Seq(S), s # <<>>
  PROVE  /\ Tail(s) \in Seq(S)
         /\ Len(s) \in Nat \ {0}
         /\ Len(Tail(s)) = Len(s) - 1
         /\ Head(s) = s[1] /\ s[1] \in S
         /\ \A i \in 1 .. Len(s) - 1 : Tail(s)[i] = s[i + 1]
OBVIOUS

LEMMA SlotFacts ==
  /\ KERNEL_PROC \in Slot /\ INIT_PROC \in Slot
  /\ \A p \in Slot : p + 1 \in 0 .. MAX_PROCESSES
BY ProcAssumption DEF Slot, KERNEL_PROC, INIT_PROC

LEMMA InitIInv == Init => IInv
<1> SUFFICES ASSUME Init PROVE IInv
  OBVIOUS
<1> USE ProcAssumption, SlotFacts DEF Init
<1>1. TypeOK
  BY DEF TypeOK, Phases, States, Calls, Faults, Slot, KERNEL_PROC, INIT_PROC
<1>2. TableSound
  <2>1. \A g \in Gen : /\ InTable(g) <=> g \in {KernelProc, InitProc}
                       /\ pid[g] = IF g = InitProc THEN 1 ELSE 0
    BY DEF InTable, KERNEL_PROC, INIT_PROC
  <2>2. \A p \in Slot : procs[p] = IF p = 0 THEN KernelProc
                                   ELSE IF p = 1 THEN InitProc ELSE NULL
    BY DEF KERNEL_PROC, INIT_PROC
  <2>3. 0 \in Slot /\ 1 \in Slot
    BY DEF KERNEL_PROC, INIT_PROC
  <2> HIDE DEF Init
  <2> QED
    BY <2>1, <2>2, <2>3 DEF TableSound
<1>3. FileCallsKeepStruct /\ ZombiesListed /\ LoadingKnown
  BY DEF FileCallsKeepStruct, ZombiesListed, LoadingKnown
<1> QED
  BY <1>1, <1>2, <1>3 DEF IInv

-----------------------------------------------------------------------------
\* A step that halts SOS, and a stuttering step, change no struct and no slot.
LEMMA HaltKeeps ==
  ASSUME IInv,
         UNCHANGED <<table, loop, fields, handlers>>,
         fault' \in Faults
  PROVE  IInv'
BY DEF IInv, TypeOK, TableSound, InTable, FileCallsKeepStruct, ZombiesListed,
       LoadingKnown, table, fields, handlers

\* reap() frees the head of the list, which is the zombie in that slot.
LEMMA ReapHeadIInv == IInv /\ ReapHead => IInv'
<1> SUFFICES ASSUME IInv, ReapHead PROVE IInv'
  OBVIOUS
<1> DEFINE p == Head(reap_list)
           g == procs[p]
<1>0. /\ reap_list \in Seq(Slot) /\ reap_list # <<>> /\ p \in Slot
      /\ procs \in [Slot -> Gen \cup {NULL}]
  BY TailPlaces DEF IInv, TypeOK, ReapHead
<1>1. CASE fault' # fault \/ ~HoldsZombie(p)
  BY <1>1, HaltKeeps DEF ReapHead, Halt, Faults
<1>2. CASE fault' = fault /\ HoldsZombie(p)
  <2>1. /\ HoldsZombie(p) /\ coro_count[g] = 0 /\ g # KernelProc
        /\ procs' = [procs EXCEPT ![pid[g]] = NULL]
        /\ phase' = [phase EXCEPT ![g] = "freed"]
        /\ reap_list' = Tail(reap_list)
        /\ loop' = "recv"
        /\ UNCHANGED <<curr_pid, fault, pid, state, coro_count, wait_list,
                       child_list, call, loading, waiting_for>>
    BY <1>2 DEF ReapHead, Halt, Destroy, handlers
  <2>2. g \in Gen /\ InTable(g) /\ pid[g] = p
    BY <1>0, <2>1 DEF IInv, TableSound, HoldsZombie
  <2>3. TypeOK'
    BY <1>0, <2>1, <2>2, TailPlaces DEF IInv, TypeOK, Phases
  <2>4. TableSound'
    BY <1>0, <2>1, <2>2 DEF IInv, TypeOK, TableSound, InTable
  <2>5. FileCallsKeepStruct'
    BY <2>1, <2>2 DEF IInv, TypeOK, FileCallsKeepStruct
  <2>6. ZombiesListed'
    <3> SUFFICES ASSUME NEW h \in Gen, phase'[h] = "started", state[h] = "ZOMBIE"
                 PROVE  \E i \in 1 .. Len(reap_list') : reap_list'[i] = pid[h]
      BY <2>1 DEF ZombiesListed
    <3>1. h # g /\ phase[h] = "started"
      BY <2>1, <2>2 DEF IInv, TypeOK
    <3>2. pid[h] # p
      BY <2>2, <3>1 DEF IInv, TableSound, InTable
    <3>3. PICK i \in 1 .. Len(reap_list) : reap_list[i] = pid[h]
      BY <3>1 DEF IInv, ZombiesListed
    <3>4. i # 1
      BY <1>0, <3>2, <3>3, TailPlaces
    <3>5. i - 1 \in 1 .. Len(Tail(reap_list)) /\ Tail(reap_list)[i - 1] = reap_list[i]
      BY <1>0, <3>3, <3>4, TailPlaces
    <3> QED
      BY <2>1, <3>3, <3>5
  <2>7. LoadingKnown'
    BY <2>1 DEF IInv, LoadingKnown
  <2> QED
    BY <2>3, <2>4, <2>5, <2>6, <2>7 DEF IInv
<1> QED
  BY <1>1, <1>2

\* proc_create() takes a struct nobody has and the first free slot.
LEMMA CreateIInv ==
  ASSUME IInv, NEW g \in Gen, NEW new \in Gen, syscall_proc_create(g, new)
  PROVE  IInv'
<1>1. PICK p \in Slot, s \in States :
        /\ procs[p] = NULL
        /\ phase[new] = "unused"
        /\ \/ CreateLoads(g, new, p, s)
           \/ CreateLeaks(g, new, p, s)
           \/ CreateFails(g, new, p, s)
  BY DEF syscall_proc_create, find_next_pid
<1>2. /\ Runnable(g) /\ loop' = "reap" /\ fault' = fault
  BY DEF syscall_proc_create, Continue
<1>3. /\ call[g] = "none" /\ phase[g] = "started" /\ g # KernelProc /\ g # new
  BY <1>1, <1>2 DEF Runnable
<1>4. /\ phase' \in {[phase EXCEPT ![new] = ph] : ph \in {"loading", "leaked", "freed"}}
      /\ procs' = IF phase'[new] = "freed" THEN procs ELSE [procs EXCEPT ![p] = new]
      /\ curr_pid' = p + 1
      /\ pid' = [pid EXCEPT ![new] = p]
      /\ \E t \in States : state' = [state EXCEPT ![new] = t]
      /\ UNCHANGED <<wait_list, child_list, reap_list, waiting_for>>
  BY <1>1 DEF CreateLoads, CreateLeaks, CreateFails, FillIn, IInv, TypeOK, States
<1>5. \/ UNCHANGED <<coro_count, call, loading>>
      \/ /\ coro_count' = [coro_count EXCEPT ![KernelProc] = @ + 1]
         /\ call' = [call EXCEPT ![g] = "create"]
         /\ loading' = [loading EXCEPT ![g] = new]
  BY <1>1 DEF CreateLoads, CreateLeaks, CreateFails
<1>6. TypeOK'
  <2>1. /\ procs' \in [Slot -> Gen \cup {NULL}]
        /\ curr_pid' \in 0 .. MAX_PROCESSES
    BY <1>4, SlotFacts DEF IInv, TypeOK
  <2>2. phase' \in [Gen -> Phases] /\ pid' \in [Gen -> Slot] /\ state' \in [Gen -> States]
    BY <1>4 DEF IInv, TypeOK, Phases
  <2>3. /\ coro_count' \in [Gen -> Int] /\ call' \in [Gen -> Calls]
        /\ loading' \in [Gen -> Gen \cup {NULL}]
    <3>1. /\ coro_count \in [Gen -> Int] /\ call \in [Gen -> Calls]
          /\ loading \in [Gen -> Gen \cup {NULL}] /\ KernelProc \in Gen
      BY ProcAssumption DEF IInv, TypeOK
    <3>2. "create" \in Calls
      BY DEF Calls
    <3> QED
      BY <1>5, <3>1, <3>2
  <2> QED
    BY <1>2, <1>4, <2>1, <2>2, <2>3 DEF IInv, TypeOK
<1>7. TableSound'
  <2>0. /\ procs \in [Slot -> Gen \cup {NULL}] /\ phase \in [Gen -> Phases]
        /\ pid \in [Gen -> Slot] /\ TableSound /\ NULL \notin Gen
    BY ProcAssumption DEF IInv, TypeOK
  <2>1. ASSUME NEW q \in Slot PROVE procs[q] # new
    <3>1. ~InTable(new) /\ new # NULL
      BY <1>1, <2>0 DEF InTable
    <3> QED
      BY <2>0, <3>1 DEF TableSound
  <2>2. CASE phase'[new] = "freed"
    BY <1>4, <2>0, <2>1, <2>2 DEF TableSound, InTable
  <2>3. CASE phase'[new] # "freed"
    <3>1. /\ procs' = [procs EXCEPT ![p] = new] /\ pid' = [pid EXCEPT ![new] = p]
          /\ InTable(new)' /\ \A h \in Gen : h # new => (InTable(h)' <=> InTable(h))
      BY <1>4, <2>0, <2>3 DEF InTable
    <3>2. ASSUME NEW q \in Slot, procs'[q] # NULL
          PROVE  InTable(procs[q])' /\ pid'[procs'[q]] = q
      <4>1. CASE q = p
        BY <2>0, <3>1, <4>1
      <4>2. CASE q # p
        <5>1. procs'[q] = procs[q] /\ procs[q] \in Gen /\ procs[q] # new
          BY <2>0, <2>1, <3>1, <3>2, <4>2
        <5>2. InTable(procs[q]) /\ pid[procs[q]] = q
          BY <2>0, <5>1 DEF TableSound
        <5>3. InTable(procs[q])'
          BY <3>1, <5>1, <5>2 DEF InTable
        <5> QED
          BY <2>0, <3>1, <5>1, <5>2, <5>3
      <4> QED
        BY <4>1, <4>2
    <3>3. ASSUME NEW h \in Gen, InTable(h)' PROVE procs'[pid'[h]] = h
      BY <1>1, <2>0, <3>1, <3>3 DEF TableSound
    <3> QED
      BY <3>2, <3>3 DEF TableSound
  <2> QED
    BY <2>2, <2>3
<1>8. FileCallsKeepStruct'
  <2>1. call[new] # "io"
    BY <1>1, <1>3 DEF IInv, FileCallsKeepStruct, LoadingKnown
  <2> QED
    BY <1>3, <1>4, <1>5, <2>1, ProcAssumption DEF IInv, TypeOK, FileCallsKeepStruct
<1>9. ZombiesListed'
  BY <1>4 DEF IInv, TypeOK, ZombiesListed
<1>10. LoadingKnown'
  BY <1>3, <1>5, ProcAssumption DEF IInv, TypeOK, LoadingKnown
<1> QED
  BY <1>6, <1>7, <1>8, <1>9, <1>10 DEF IInv

\* The load of a program ends: the new struct starts or is destroyed.
LEMMA LoadIInv ==
  ASSUME IInv, NEW g \in Gen, LoadSucceeds(g) \/ LoadFails(g)
  PROVE  IInv'
<1> DEFINE new == loading[g]
<1>1. /\ call[g] = "create" /\ phase[new] = "loading"
      /\ coro_count' = [coro_count EXCEPT ![KernelProc] = @ - 1]
      /\ call' = [call EXCEPT ![g] = "none"]
      /\ loop' = "reap" /\ fault' = fault
      /\ UNCHANGED <<curr_pid, reap_list, pid, wait_list, loading, waiting_for>>
  BY DEF LoadSucceeds, LoadFails, Continue, table
<1>2. new \in Gen /\ g # KernelProc
  BY <1>1 DEF IInv, LoadingKnown
<1>3. pid[new] \in Slot /\ procs[pid[new]] = new /\ call[new] # "io"
  BY <1>1, <1>2 DEF IInv, TypeOK, TableSound, InTable, FileCallsKeepStruct, LoadingKnown
<1>4. FileCallsKeepStruct' /\ LoadingKnown'
  <2>1. \A h \in Gen : h # new => phase'[h] = phase[h]
    BY <1>2 DEF LoadSucceeds, LoadFails, Destroy, IInv, TypeOK
  <2> QED
    BY <1>1, <1>2, <1>3, <2>1, ProcAssumption
    DEF IInv, TypeOK, FileCallsKeepStruct, LoadingKnown
<1>5. CASE LoadSucceeds(g)
  <2>1. /\ procs' = procs
        /\ phase' = [phase EXCEPT ![new] = "started"]
        /\ state' = [state EXCEPT ![new] = "RUNNING"]
        /\ child_list' = [child_list EXCEPT ![g] =
                            IF pid[new] >= 2 THEN @ \cup {pid[new]} ELSE @]
    BY <1>5 DEF LoadSucceeds, add_child, table
  <2>2. TypeOK'
    <3>1. /\ procs' \in [Slot -> Gen \cup {NULL}]
          /\ phase' \in [Gen -> Phases] /\ state' \in [Gen -> States]
          /\ child_list' \in [Gen -> SUBSET Slot]
      BY <1>2, <1>3, <2>1 DEF IInv, TypeOK, Phases, States
    <3>2. coro_count' \in [Gen -> Int] /\ call' \in [Gen -> Calls]
      BY <1>1, ProcAssumption DEF IInv, TypeOK, Calls
    <3> QED
      BY <1>1, <3>1, <3>2 DEF IInv, TypeOK
  <2>3. TableSound'
    BY <1>1, <1>2, <1>3, <2>1 DEF IInv, TypeOK, TableSound, InTable
  <2>4. ZombiesListed'
    BY <1>1, <1>2, <2>1 DEF IInv, TypeOK, ZombiesListed
  <2> QED
    BY <1>4, <2>2, <2>3, <2>4 DEF IInv
<1>6. CASE LoadFails(g)
  <2>1. /\ procs' = [procs EXCEPT ![pid[new]] = NULL]
        /\ phase' = [phase EXCEPT ![new] = "freed"]
        /\ state' = [state EXCEPT ![new] = "ZOMBIE"]
        /\ child_list' = child_list
    BY <1>6 DEF LoadFails, Destroy
  <2>2. TypeOK'
    <3>1. /\ procs' \in [Slot -> Gen \cup {NULL}]
          /\ phase' \in [Gen -> Phases] /\ state' \in [Gen -> States]
          /\ child_list' \in [Gen -> SUBSET Slot]
      BY <1>2, <1>3, <2>1 DEF IInv, TypeOK, Phases, States
    <3>2. coro_count' \in [Gen -> Int] /\ call' \in [Gen -> Calls]
      BY <1>1, ProcAssumption DEF IInv, TypeOK, Calls
    <3> QED
      BY <1>1, <3>1, <3>2 DEF IInv, TypeOK
  <2>3. TableSound'
    BY <1>1, <1>2, <1>3, <2>1 DEF IInv, TypeOK, TableSound, InTable
  <2>4. ZombiesListed'
    BY <1>1, <1>2, <2>1 DEF IInv, TypeOK, ZombiesListed
  <2> QED
    BY <1>4, <2>2, <2>3, <2>4 DEF IInv
<1> QED
  BY <1>5, <1>6

\* Whoever proc_wait_wakeup() resumes was WAITING.
LEMMA WokenFacts ==
  ASSUME TypeOK, NEW t \in Gen
  PROVE  \A h \in Woken(t) : h \in Gen /\ state[h] = "WAITING" /\ h # t
BY DEF TypeOK, Woken

\* zombiefy() makes exactly one zombie and lists it.
LEMMA DeleteIInv ==
  ASSUME IInv, NEW g \in Gen, NEW p \in DeleteArgs, syscall_proc_delete(g, p)
  PROVE  IInv'
<1> DEFINE t == procs[p]
<1>1. t \in Gen /\ p \in Slot
  BY ProcAssumption DEF IInv, TypeOK, syscall_proc_delete, Refused
<1>2. /\ \A h \in Gen : state'[h] = IF h = t THEN "ZOMBIE"
                                    ELSE IF h \in Woken(t) THEN "RUNNING" ELSE state[h]
      /\ \A h \in Gen : call'[h] = IF h \in Woken(t) THEN "none" ELSE call[h]
      /\ \A h \in Woken(t) : call[h] = "wait"
      /\ reap_list' = Append(reap_list, pid[t])
      /\ loop' = "reap" /\ fault' = fault
      /\ UNCHANGED <<procs, curr_pid, phase, pid, coro_count, loading, waiting_for>>
  BY DEF syscall_proc_delete, zombiefy, Continue
<1>3. /\ pid[t] \in Slot /\ reap_list \in Seq(Slot)
      /\ \A h \in Woken(t) : h \in Gen /\ state[h] = "WAITING"
  BY <1>1, WokenFacts DEF IInv, TypeOK
<1>4. TypeOK'
  <2>1. reap_list' \in Seq(Slot)
    BY <1>2, <1>3, AppendPlaces
  <2>2. /\ state' \in [Gen -> States] /\ call' \in [Gen -> Calls]
    BY <1>2 DEF syscall_proc_delete, zombiefy, IInv, TypeOK, States, Calls
  <2>3. /\ wait_list' \in [Gen -> SUBSET Slot] /\ child_list' \in [Gen -> SUBSET Slot]
    <3>1. Orphans(t) \subseteq Slot
      BY <1>1 DEF Orphans, IInv, TypeOK
    <3> QED
      BY <3>1, SlotFacts DEF syscall_proc_delete, zombiefy, IInv, TypeOK
  <2> QED
    BY <1>2, <2>1, <2>2, <2>3 DEF IInv, TypeOK
<1>5. TableSound'
  BY <1>2 DEF IInv, TableSound, InTable
<1>6. FileCallsKeepStruct' /\ LoadingKnown'
  BY <1>2, <1>3, ProcAssumption DEF IInv, FileCallsKeepStruct, LoadingKnown
<1>7. ZombiesListed'
  <2> SUFFICES ASSUME NEW h \in Gen, phase[h] = "started", state'[h] = "ZOMBIE"
               PROVE  \E i \in 1 .. Len(reap_list') : reap_list'[i] = pid[h]
    BY <1>2 DEF ZombiesListed
  <2>1. /\ Len(reap_list) \in Nat /\ Len(reap_list') = Len(reap_list) + 1
        /\ reap_list'[Len(reap_list) + 1] = pid[t]
        /\ \A i \in 1 .. Len(reap_list) : reap_list'[i] = reap_list[i]
    BY <1>2, <1>3, AppendPlaces
  <2>2. CASE h = t
    <3>1. Len(reap_list) + 1 \in 1 .. Len(reap_list')
      BY <2>1
    <3> QED
      BY <2>1, <2>2, <3>1
  <2>3. CASE h # t
    <3>1. state[h] = "ZOMBIE"
      BY <1>2, <2>3
    <3>2. PICK i \in 1 .. Len(reap_list) : reap_list[i] = pid[h]
      BY <3>1 DEF IInv, ZombiesListed
    <3>3. i \in 1 .. Len(reap_list')
      BY <2>1, <3>2
    <3> QED
      BY <2>1, <3>2, <3>3
  <2> QED
    BY <2>2, <2>3
<1> QED
  BY <1>4, <1>5, <1>6, <1>7 DEF IInv

\* process_wait changes the caller's state field and one wait list.
LEMMA WaitIInv ==
  ASSUME IInv, NEW g \in Gen,
         WaitAny(g) \/ \E p \in WaitArgs : syscall_proc_wait(g, p)
  PROVE  IInv'
<1>1. /\ call[g] = "none" /\ phase[g] = "started" /\ g # KernelProc
      /\ state' = [state EXCEPT ![g] = "WAITING"]
      /\ call' = [call EXCEPT ![g] = "wait"]
      /\ loop' = "reap" /\ fault' = fault
      /\ UNCHANGED <<procs, curr_pid, reap_list, phase, pid, coro_count, child_list, loading>>
  BY DEF WaitAny, syscall_proc_wait, Runnable, Continue, table
<1>2. wait_list' \in [Gen -> SUBSET Slot] /\ waiting_for' \in [Gen -> Slot \cup {-1}]
  <2>1. CASE WaitAny(g)
    BY <2>1 DEF WaitAny, IInv, TypeOK
  <2>2. CASE \E p \in WaitArgs : syscall_proc_wait(g, p)
    <3>1. PICK p \in WaitArgs : syscall_proc_wait(g, p)
      BY <2>2
    <3>2. p \in Slot \cup {-1} /\ pid[g] \in Slot
      BY ProcAssumption DEF IInv, TypeOK
    <3> QED
      BY <3>1, <3>2 DEF syscall_proc_wait, IInv, TypeOK
  <2> QED
    BY <2>1, <2>2
<1>3. TypeOK'
  BY <1>1, <1>2 DEF IInv, TypeOK, States, Calls
<1>4. TableSound' /\ LoadingKnown'
  BY <1>1, ProcAssumption DEF IInv, TypeOK, TableSound, InTable, LoadingKnown
<1>5. FileCallsKeepStruct'
  BY <1>1 DEF IInv, TypeOK, FileCallsKeepStruct
<1>6. ZombiesListed'
  BY <1>1 DEF IInv, TypeOK, ZombiesListed
<1> QED
  BY <1>3, <1>4, <1>5, <1>6 DEF IInv

\* A yield of a file operation is counted while it lasts.
LEMMA BlockIInv ==
  ASSUME IInv, NEW g \in Gen,
         \/ Unblock(g)
         \/ \E kind \in {"io", "sleep", "console", "vm_fault"} : Block(g, kind)
  PROVE  IInv'
<1>1. PICK kind \in {"io", "sleep", "console", "vm_fault"}, n \in {-1, 1} :
        /\ Charge(g, kind, n)
        /\ \/ n = 1 /\ Runnable(g) /\ call' = [call EXCEPT ![g] = kind]
           \/ n = -1 /\ call[g] = kind /\ call' = [call EXCEPT ![g] = "none"]
  BY DEF Block, Unblock
<1>2. /\ loop' = "reap" /\ fault' = fault
      /\ UNCHANGED <<procs, curr_pid, reap_list, phase, pid, state, wait_list,
                     child_list, loading, waiting_for>>
  BY DEF Block, Unblock, Continue, table
<1>3. g # KernelProc
  BY <1>1 DEF Runnable, IInv, LoadingKnown
<1>4. /\ coro_count' \in [Gen -> Int]
      /\ \A h \in Gen \ {KernelProc} :
           coro_count'[h] = IF h = g /\ kind = "io" THEN coro_count[h] + n ELSE coro_count[h]
  BY <1>1, <1>3, ProcAssumption DEF Charge, IInv, TypeOK
<1>5. TypeOK'
  <2>1. call' \in [Gen -> Calls]
    BY <1>1 DEF IInv, TypeOK, Calls
  <2> QED
    BY <1>2, <1>4, <2>1 DEF IInv, TypeOK
<1>6. TableSound' /\ ZombiesListed'
  BY <1>2 DEF IInv, TableSound, InTable, ZombiesListed
<1>7. LoadingKnown'
  BY <1>1, <1>2, <1>3, ProcAssumption DEF IInv, TypeOK, LoadingKnown
<1>8. FileCallsKeepStruct'
  BY <1>1, <1>2, <1>3, <1>4 DEF IInv, TypeOK, FileCallsKeepStruct, Runnable
<1> QED
  BY <1>5, <1>6, <1>7, <1>8 DEF IInv

LEMMA NextIInv == IInv /\ [Next]_vars => IInv'
<1> SUFFICES ASSUME IInv, [Next]_vars PROVE IInv'
  OBVIOUS
<1>1. CASE UNCHANGED vars
  BY <1>1, HaltKeeps DEF vars, IInv, TypeOK
<1>2. CASE ReapNothing \/ Tick
  BY <1>2 DEF ReapNothing, Tick, Continue, IInv, TypeOK, TableSound, InTable,
              FileCallsKeepStruct, ZombiesListed, LoadingKnown, table, fields, handlers
<1>3. CASE ReapHead
  BY <1>3, ReapHeadIInv
<1>4. ASSUME NEW g \in Gen, NEW new \in Gen, syscall_proc_create(g, new) PROVE IInv'
  BY <1>4, CreateIInv
<1>5. ASSUME NEW g \in Gen,
             CreateOutside(g) \/ LoadIntoFreed(g) \/ UnblockFreed(g) PROVE IInv'
  BY <1>5, HaltKeeps DEF CreateOutside, LoadIntoFreed, UnblockFreed, Halt, Faults
<1>6. ASSUME NEW g \in Gen, LoadSucceeds(g) \/ LoadFails(g) PROVE IInv'
  BY <1>6, LoadIInv
<1>7. ASSUME NEW g \in Gen, NEW p \in DeleteArgs, syscall_proc_delete(g, p) PROVE IInv'
  BY <1>7, DeleteIInv
<1>8. ASSUME NEW g \in Gen, NEW p \in DeleteArgs, DeleteResumesGarbage(g, p) PROVE IInv'
  BY <1>8, HaltKeeps DEF DeleteResumesGarbage, Halt, Faults
<1>9. ASSUME NEW g \in Gen, WaitAny(g) \/ \E p \in WaitArgs : syscall_proc_wait(g, p)
      PROVE  IInv'
  BY <1>9, WaitIInv
<1>10. ASSUME NEW g \in Gen,
              \/ Unblock(g)
              \/ \E kind \in {"io", "sleep", "console", "vm_fault"} : Block(g, kind)
       PROVE  IInv'
  BY <1>10, BlockIInv
<1> QED
  BY <1>1, <1>2, <1>3, <1>4, <1>5, <1>6, <1>7, <1>8, <1>9, <1>10 DEF Next

LEMMA Inductive == Spec => []IInv
BY InitIInv, NextIInv, PTL DEF Spec

\* TypeOK holds for every table size and every client.
THEOREM TypeCorrect == Spec => []TypeOK
BY Inductive, PTL DEF IInv

\* proc_get() is sound through every reuse of pids: whatever is created,
\* fails to load, is killed and reaped, in whatever order.
THEOREM TableAlwaysSound == Spec => []TableSound
BY Inductive, PTL DEF IInv

\* No file operation loses the struct of its process, and coro_count is
\* exact: proc_destroy() waits long enough, and not for ever.
THEOREM FileCallsSafe == Spec => []FileCallsKeepStruct
BY Inductive, PTL DEF IInv

\* No started zombie is missing from the reap list.
THEOREM NoZombieForgotten == Spec => []ZombiesListed
BY Inductive, PTL DEF IInv

-----------------------------------------------------------------------------
\* Clients that name only processes that have started, and never pid -1.
NamesStarted == "name_loading" \notin May /\ -1 \notin WaitArgs

\* NoStrandedWaiter is not inductive: were the process waited for still
\* loading, a failed load would free it without waking anyone.
WaitersServed ==
  \A g \in Gen : phase[g] = "started" /\ state[g] = "WAITING" /\ g # KernelProc =>
    /\ call[g] = "wait"
    /\ waiting_for[g] \in Slot
    /\ LET t == procs[waiting_for[g]] IN
         /\ t # NULL /\ phase[t] = "started" /\ state[t] # "ZOMBIE"
         /\ pid[g] \in wait_list[t]

\* A step that leaves the waiters that remain and the processes they wait for
\* as they are, or wakes them, serves everyone.
LEMMA ServedKept ==
  ASSUME WaitersServed, waiting_for' = waiting_for, pid \in [Gen -> Slot],
         procs \in [Slot -> Gen \cup {NULL}],
         \A g \in Gen : phase'[g] = "started" /\ state'[g] = "WAITING" =>
           /\ phase[g] = "started" /\ state[g] = "WAITING"
           /\ pid'[g] = pid[g]
           /\ call[g] = "wait" => call'[g] = "wait",
         \A q \in Slot : procs[q] # NULL /\ phase[procs[q]] = "started"
                         /\ state[procs[q]] # "ZOMBIE" =>
           /\ procs'[q] = procs[q]
           /\ phase'[procs[q]] = "started"
           /\ state'[procs[q]] # "ZOMBIE"
           /\ wait_list[procs[q]] \subseteq wait_list'[procs[q]]
  PROVE  WaitersServed'
<1> SUFFICES ASSUME NEW g \in Gen, phase'[g] = "started", state'[g] = "WAITING",
                    g # KernelProc
             PROVE  /\ call'[g] = "wait"
                    /\ waiting_for[g] \in Slot
                    /\ procs'[waiting_for[g]] # NULL
                    /\ phase'[procs'[waiting_for[g]]] = "started"
                    /\ state'[procs'[waiting_for[g]]] # "ZOMBIE"
                    /\ pid'[g] \in wait_list'[procs'[waiting_for[g]]]
  BY DEF WaitersServed
<1> DEFINE q == waiting_for[g]
<1>1. phase[g] = "started" /\ state[g] = "WAITING" /\ pid'[g] = pid[g]
  OBVIOUS
<1>2. /\ call[g] = "wait" /\ q \in Slot /\ procs[q] # NULL
      /\ phase[procs[q]] = "started" /\ state[procs[q]] # "ZOMBIE"
      /\ pid[g] \in wait_list[procs[q]]
  BY <1>1 DEF WaitersServed
<1> QED
  BY <1>1, <1>2

LEMMA DeleteServes ==
  ASSUME IInv, WaitersServed, NEW g \in Gen, NEW p \in DeleteArgs,
         syscall_proc_delete(g, p)
  PROVE  WaitersServed'
<1> DEFINE t == procs[p]
<1>1. t \in Gen /\ p \in Slot /\ pid[t] = p
  BY ProcAssumption DEF IInv, TypeOK, TableSound, syscall_proc_delete, Refused
<1>2. /\ \A h \in Gen : state'[h] = IF h = t THEN "ZOMBIE"
                                    ELSE IF h \in Woken(t) THEN "RUNNING" ELSE state[h]
      /\ \A h \in Gen : call'[h] = IF h \in Woken(t) THEN "none" ELSE call[h]
      /\ \A h \in Gen : wait_list[h] \subseteq wait_list'[h]
      /\ UNCHANGED <<procs, phase, pid, waiting_for>>
  BY DEF syscall_proc_delete, zombiefy
<1> SUFFICES ASSUME NEW h \in Gen, phase[h] = "started", state'[h] = "WAITING",
                    h # KernelProc
             PROVE  /\ call'[h] = "wait"
                    /\ waiting_for[h] \in Slot
                    /\ procs[waiting_for[h]] # NULL
                    /\ phase[procs[waiting_for[h]]] = "started"
                    /\ state'[procs[waiting_for[h]]] # "ZOMBIE"
                    /\ pid[h] \in wait_list'[procs[waiting_for[h]]]
  BY <1>2 DEF WaitersServed
<1> DEFINE q == waiting_for[h]
<1>3. h # t /\ h \notin Woken(t) /\ state[h] = "WAITING"
  BY <1>2
<1>4. /\ call[h] = "wait" /\ q \in Slot /\ procs[q] # NULL
      /\ phase[procs[q]] = "started" /\ state[procs[q]] # "ZOMBIE"
      /\ pid[h] \in wait_list[procs[q]]
  BY <1>3 DEF WaitersServed
<1>5. procs[q] \in Gen /\ pid[h] \in Slot /\ procs[pid[h]] = h /\ h # NULL
  BY <1>4, ProcAssumption DEF IInv, TypeOK, TableSound, InTable
<1>6. procs[q] # t
  BY <1>3, <1>4, <1>5 DEF Woken
<1> QED
  BY <1>2, <1>3, <1>4, <1>5, <1>6

LEMMA WaitServes ==
  ASSUME IInv, WaitersServed, NamesStarted, NEW g \in Gen, NEW p \in WaitArgs,
         syscall_proc_wait(g, p)
  PROVE  WaitersServed'
<1> DEFINE t == procs[p]
<1>1. p \in Slot /\ t \in Gen /\ phase[t] = "started" /\ state[t] # "ZOMBIE"
  BY ProcAssumption DEF IInv, TypeOK, syscall_proc_wait, NamesStarted
<1>2. /\ \A h \in Gen : state'[h] = IF h = g THEN "WAITING" ELSE state[h]
      /\ \A h \in Gen : call'[h] = IF h = g THEN "wait" ELSE call[h]
      /\ \A h \in Gen : waiting_for'[h] = IF h = g THEN p ELSE waiting_for[h]
      /\ \A h \in Gen : wait_list'[h] = IF h = t THEN wait_list[h] \cup {pid[g]}
                                        ELSE wait_list[h]
      /\ UNCHANGED <<procs, phase, pid>>
  BY <1>1 DEF syscall_proc_wait, IInv, TypeOK, table
<1> SUFFICES ASSUME NEW h \in Gen, phase[h] = "started", state'[h] = "WAITING",
                    h # KernelProc
             PROVE  /\ call'[h] = "wait"
                    /\ waiting_for'[h] \in Slot
                    /\ procs[waiting_for'[h]] # NULL
                    /\ phase[procs[waiting_for'[h]]] = "started"
                    /\ state'[procs[waiting_for'[h]]] # "ZOMBIE"
                    /\ pid[h] \in wait_list'[procs[waiting_for'[h]]]
  BY <1>2 DEF WaitersServed
<1>3. CASE h = g
  BY <1>1, <1>2, <1>3, ProcAssumption
<1>4. CASE h # g
  <2> DEFINE q == waiting_for[h]
  <2>1. /\ call[h] = "wait" /\ q \in Slot /\ procs[q] # NULL
        /\ phase[procs[q]] = "started" /\ state[procs[q]] # "ZOMBIE"
        /\ pid[h] \in wait_list[procs[q]]
    BY <1>2, <1>4 DEF WaitersServed
  <2>2. procs[q] \in Gen
    BY <2>1 DEF IInv, TypeOK
  <2> QED
    BY <1>2, <1>4, <2>1, <2>2
<1> QED
  BY <1>3, <1>4

LEMMA NextServes == NamesStarted /\ IInv /\ WaitersServed /\ [Next]_vars => WaitersServed'
<1> SUFFICES ASSUME NamesStarted, IInv, WaitersServed, [Next]_vars PROVE WaitersServed'
  OBVIOUS
<1>0. /\ procs \in [Slot -> Gen \cup {NULL}] /\ pid \in [Gen -> Slot]
      /\ phase \in [Gen -> Phases] /\ state \in [Gen -> States] /\ call \in [Gen -> Calls]
      /\ NULL \notin Gen
  BY ProcAssumption DEF IInv, TypeOK
<1>1. CASE UNCHANGED <<table, fields, handlers>>
  BY <1>1 DEF WaitersServed, table, fields, handlers
<1>2. CASE ReapHead /\ ~UNCHANGED <<table, fields, handlers>>
  <2> DEFINE z == procs[Head(reap_list)]
  <2>1. /\ state[z] = "ZOMBIE" /\ z # NULL
        /\ procs' = [procs EXCEPT ![pid[z]] = NULL]
        /\ phase' = [phase EXCEPT ![z] = "freed"]
        /\ UNCHANGED <<pid, state, wait_list, call, waiting_for>>
    BY <1>2 DEF ReapHead, Halt, Destroy, HoldsZombie, table, fields, handlers
  <2>2. Head(reap_list) \in Slot
    BY <1>2, TailPlaces DEF ReapHead, IInv, TypeOK
  <2>3. z \in Gen /\ procs[pid[z]] = z /\ pid[z] \in Slot
    BY <1>0, <2>1, <2>2 DEF IInv, TableSound
  <2> QED
    BY <1>0, <2>1, <2>3, ServedKept
<1>3. ASSUME NEW g \in Gen, NEW new \in Gen, syscall_proc_create(g, new)
      PROVE  WaitersServed'
  <2>1. PICK p \in Slot, s \in States :
          /\ procs[p] = NULL
          /\ phase[new] = "unused"
          /\ \/ CreateLoads(g, new, p, s)
             \/ CreateLeaks(g, new, p, s)
             \/ CreateFails(g, new, p, s)
    BY <1>3 DEF syscall_proc_create, find_next_pid
  <2>2. /\ Runnable(g) /\ phase'[new] # "started"
        /\ \A h \in Gen : h # new => phase'[h] = phase[h] /\ state'[h] = state[h]
                                     /\ pid'[h] = pid[h]
        /\ \A q \in Slot : q # p => procs'[q] = procs[q]
        /\ \A h \in Gen : h # g => call'[h] = call[h]
        /\ UNCHANGED <<wait_list, waiting_for>>
    BY <1>0, <1>3, <2>1 DEF syscall_proc_create, CreateLoads, CreateLeaks, CreateFails, FillIn
  <2>3. \A q \in Slot : procs[q] # NULL /\ phase[procs[q]] = "started" =>
           procs[q] \in Gen /\ procs[q] # new /\ q # p
    BY <1>0, <2>1
  <2> QED
    BY <1>0, <2>2, <2>3, ServedKept DEF Runnable
<1>4. ASSUME NEW g \in Gen, LoadSucceeds(g) \/ LoadFails(g) PROVE WaitersServed'
  <2> DEFINE new == loading[g]
  <2>1. new \in Gen /\ phase[new] = "loading" /\ call[g] = "create"
    BY <1>4 DEF IInv, LoadingKnown, LoadSucceeds, LoadFails
  <2>2. /\ \A h \in Gen : h # new => phase'[h] = phase[h] /\ state'[h] = state[h]
        /\ state'[new] # "WAITING"
        /\ \A h \in Gen : h # g => call'[h] = call[h]
        /\ UNCHANGED <<pid, wait_list, waiting_for>>
        /\ \A q \in Slot : q # pid[new] => procs'[q] = procs[q]
    BY <1>0, <1>4, <2>1 DEF LoadSucceeds, LoadFails, Destroy, table
  <2>3. \A q \in Slot : procs[q] # NULL /\ phase[procs[q]] = "started" =>
           procs[q] \in Gen /\ procs[q] # new /\ q # pid[new]
    BY <1>0, <2>1 DEF IInv, TableSound, InTable
  <2> QED
    BY <1>0, <2>1, <2>2, <2>3, ServedKept
<1>5. ASSUME NEW g \in Gen, NEW p \in DeleteArgs, syscall_proc_delete(g, p)
      PROVE  WaitersServed'
  BY <1>5, DeleteServes
<1>6. ASSUME NEW g \in Gen, NEW p \in WaitArgs, syscall_proc_wait(g, p)
      PROVE  WaitersServed'
  BY <1>6, WaitServes
<1>7. ASSUME NEW g \in Gen,
             \/ Unblock(g)
             \/ \E kind \in {"io", "sleep", "console", "vm_fault"} : Block(g, kind)
      PROVE  WaitersServed'
  <2>1. /\ state[g] = "RUNNING" \/ call[g] # "wait"
        /\ \A h \in Gen : h # g => call'[h] = call[h]
        /\ UNCHANGED <<procs, phase, pid, state, wait_list, waiting_for>>
    BY <1>0, <1>7 DEF Block, Unblock, Runnable, table
  <2> QED
    BY <1>0, <2>1, ServedKept
<1> QED
  BY <1>1, <1>2, <1>3, <1>4, <1>5, <1>6, <1>7
  DEF Next, vars, ReapNothing, Tick, CreateOutside, LoadIntoFreed, UnblockFreed,
      DeleteResumesGarbage, Halt, WaitAny, NamesStarted, table, fields, handlers

\* The invariant of the theorems below.
LEMMA Served == ASSUME NamesStarted PROVE Spec => [](IInv /\ WaitersServed)
<1>1. Init => WaitersServed
  BY ProcAssumption DEF Init, WaitersServed
<1>2. Init => IInv /\ WaitersServed
  BY <1>1, InitIInv
<1>3. (IInv /\ WaitersServed) /\ [Next]_vars => (IInv /\ WaitersServed)'
  BY NextIInv, NextServes
<1> QED
  BY <1>2, <1>3, PTL DEF Spec

\* process_wait never strands its caller: while it waits, its process is
\* alive and has it on its list.
THEOREM NobodyStranded == ASSUME NamesStarted PROVE Spec => []NoStrandedWaiter
<1>1. WaitersServed => NoStrandedWaiter
  BY DEF WaitersServed, NoStrandedWaiter
<1> QED
  BY <1>1, Served, PTL

\* Only zombiefy() turns a struct that stays in the table into a zombie.
LEMMA OnlyDeleteKills ==
  ASSUME IInv, [Next]_vars, NEW t \in Gen,
         state[t] # "ZOMBIE", state'[t] = "ZOMBIE", InTable(t), InTable(t)'
  PROVE  \E g \in Gen, p \in DeleteArgs : syscall_proc_delete(g, p) /\ procs[p] = t
<1>0. state \in [Gen -> States] /\ phase \in [Gen -> Phases]
  BY DEF IInv, TypeOK
<1>1. state' # state
  OBVIOUS
<1>2. ASSUME NEW g \in Gen, NEW new \in Gen, syscall_proc_create(g, new) PROVE FALSE
  <2>1. phase[new] = "unused"
    BY <1>2 DEF syscall_proc_create
  <2>2. t # new
    BY <2>1 DEF InTable
  <2>3. \E s \in States : state' = [state EXCEPT ![new] = s]
    BY <1>2 DEF syscall_proc_create, CreateLoads, CreateLeaks, CreateFails, FillIn, States
  <2> QED
    BY <1>0, <2>2, <2>3
<1>3. ASSUME NEW g \in Gen, LoadSucceeds(g) PROVE FALSE
  BY <1>0, <1>3 DEF LoadSucceeds
<1>4. ASSUME NEW g \in Gen, LoadFails(g) PROVE FALSE
  BY <1>0, <1>4 DEF LoadFails, Destroy, InTable
<1>5. ASSUME NEW g \in Gen, WaitAny(g) \/ \E p \in WaitArgs : syscall_proc_wait(g, p)
      PROVE  FALSE
  BY <1>0, <1>5 DEF WaitAny, syscall_proc_wait
<1>6. ASSUME NEW g \in Gen, NEW p \in DeleteArgs, syscall_proc_delete(g, p)
      PROVE  procs[p] = t
  BY <1>6, WokenFacts DEF syscall_proc_delete, zombiefy
<1>7. PICK g \in Gen, p \in DeleteArgs : syscall_proc_delete(g, p)
  BY <1>1, <1>2, <1>3, <1>4, <1>5
  DEF Next, vars, ReapNothing, ReapHead, Tick, CreateOutside, LoadIntoFreed,
      UnblockFreed, DeleteResumesGarbage, Block, Unblock, Halt, fields
<1> QED
  BY <1>6, <1>7

\* The death of a process ends every process_wait for it in the same step.
THEOREM ExitWakes == ASSUME NamesStarted PROVE Spec => ExitWakesWaiters
<1> DEFINE Wakes ==
      \A g, t \in Gen :
        /\ state[t] # "ZOMBIE" /\ state'[t] = "ZOMBIE" /\ InTable(t) /\ InTable(t)'
        /\ g # t /\ phase[g] = "started" /\ state[g] = "WAITING"
        /\ call[g] = "wait" /\ waiting_for[g] = pid[t]
        => state'[g] = "RUNNING" /\ call'[g] = "none"
<1>1. (IInv /\ WaitersServed) /\ [Next]_vars => [Wakes]_vars
  <2> SUFFICES ASSUME IInv, WaitersServed, [Next]_vars, NEW g \in Gen, NEW t \in Gen,
                 state[t] # "ZOMBIE", state'[t] = "ZOMBIE", InTable(t), InTable(t)',
                 g # t, phase[g] = "started", state[g] = "WAITING",
                 call[g] = "wait", waiting_for[g] = pid[t]
               PROVE  state'[g] = "RUNNING" /\ call'[g] = "none"
    OBVIOUS
  <2>1. PICK h \in Gen, p \in DeleteArgs : syscall_proc_delete(h, p) /\ procs[p] = t
    BY OnlyDeleteKills
  <2>2. g # KernelProc
    BY DEF IInv, LoadingKnown
  <2>3. procs[pid[t]] = t /\ procs[pid[g]] = g /\ pid[g] \in wait_list[t]
    BY <2>2 DEF WaitersServed, IInv, TableSound, InTable
  <2>4. g \in Woken(t)
    BY <2>3, ProcAssumption DEF Woken
  <2> QED
    BY <2>1, <2>4 DEF syscall_proc_delete, zombiefy
<1>2. Spec => [][Wakes]_vars
  BY <1>1, Served, PTL DEF Spec
<1> QED
  BY <1>2 DEF ExitWakesWaiters
=============================================================================
