-------------------------------- MODULE Proc --------------------------------
(***************************************************************************)
(* The process table of SOS: sos/src/proc/proc.c, the process system calls *)
(* (sos/src/syscall/proc_syscalls.c) and the event loop of sos/src/main.c. *)
(*                                                                         *)
(* SOS has one thread.  Every turn of the loop calls reap() and handles    *)
(* one event; a handler runs in a coroutine until it returns or yields,    *)
(* and a yielded handler is resumed inside the handling of a later event.  *)
(* So processes interleave at the yields, and only there.                  *)
(*                                                                         *)
(* A struct proc is a member of Gen and is used once: pids are reused,     *)
(* structs are not.  Touching a freed struct, a NULL slot, memory outside  *)
(* procs[] or a failing assert ends the behaviour: fault says which.       *)
(*                                                                         *)
(* Every node on the wait list of a process carries that process' pid as   *)
(* owner, and neither the order nor the duplicates of the list matter to   *)
(* proc_wait_wakeup(): the list is the set of its pid_to_wake fields.  The *)
(* child list is a set of pids for the same reason.                        *)
(***************************************************************************)
EXTENDS Integers, Sequences

CONSTANTS
  Gen,           \* the structs malloc can return, KernelProc and InitProc too
  KernelProc,    \* the struct kernel_proc() makes
  InitProc,      \* the struct of sosh, started by proc_bootstrap()
  NULL,
  MAX_PROCESSES,
  BeyondIsNull,  \* values the word after procs[] may have: is it NULL?
  Creators,      \* pids of processes that call process_create
  Waiters,       \* pids of processes that call process_wait
  Uncounted,     \* pids of processes that read the console or wait for memory
  DeleteArgs,    \* arguments of process_delete
  WaitArgs,      \* arguments of process_wait
  May            \* what else can happen, a subset of Liberties

KERNEL_PROC == 0
INIT_PROC == 1
Slot == 0 .. MAX_PROCESSES - 1

Liberties == {"name_loading",   \* a pid is used while its program is loading
              "kill_blocked",   \* delete hits a process in an uncounted yield
              "kill_waiting",   \* delete hits a process in process_wait
              "fill_table",     \* processes are created when procs[] is full
              "load_fail",      \* the program is missing or not an ELF file
              "out_of_memory"}  \* an allocation of process_create fails

ASSUME ProcAssumption ==
  /\ KernelProc \in Gen /\ InitProc \in Gen /\ KernelProc # InitProc
  /\ NULL \notin Gen
  /\ MAX_PROCESSES \in Nat /\ MAX_PROCESSES > 2
  /\ BeyondIsNull \subseteq BOOLEAN
  /\ Creators \subseteq Slot /\ Waiters \subseteq Slot /\ Uncounted \subseteq Slot
  /\ DeleteArgs \subseteq Slot
  /\ WaitArgs \subseteq Slot \cup {-1}
  /\ May \subseteq Liberties

VARIABLES
  procs,        \* the table, pid to struct
  curr_pid,     \* where find_next_pid() starts
  reap_list,    \* pids, the head first
  loop,         \* "reap" or "recv": where syscall_loop() stands
  fault,        \* "none", or what brought SOS down
  phase,        \* per struct: how far its life has got
  pid,          \* per struct: its pid field
  state,        \* per struct: its state field
  coro_count,   \* per struct: its coro_count field
  wait_list,    \* per struct: pids to wake when it dies
  child_list,   \* per struct: pids of the children it had
  call,         \* per struct: the yielded handler working for it
  loading,      \* per struct: the struct its process_create is loading
  waiting_for   \* per struct: the argument of its last process_wait

table == <<procs, curr_pid, reap_list>>
fields == <<phase, pid, state, coro_count, wait_list, child_list>>
handlers == <<call, loading, waiting_for>>
vars == <<table, loop, fault, fields, handlers>>

Phases == {"unused", "loading", "leaked", "started", "freed"}
States == {"RUNNING", "WAITING", "ZOMBIE"}
Calls == {"none", "io", "sleep", "console", "vm_fault", "create", "wait"}
Faults == {"none", "assert", "freed", "overrun", "hang"}

\* The struct is in procs[].
InTable(g) == phase[g] \in {"loading", "leaked", "started"}

\* The thread of g can send SOS a message: it runs and waits for no reply.
Runnable(g) ==
  /\ phase[g] = "started"
  /\ state[g] = "RUNNING"
  /\ call[g] = "none"
  /\ g # KernelProc

protected_proc(g) == g # KernelProc /\ pid[g] \in {KERNEL_PROC, INIT_PROC}

Event == fault = "none" /\ loop = "recv"

Continue == loop' = "reap" /\ UNCHANGED fault

Halt(why) == fault' = why /\ UNCHANGED <<table, loop, fields, handlers>>

-----------------------------------------------------------------------------
\* kernel_proc() and proc_bootstrap().  The state field of the kernel's struct
\* is never written; were it to read ZOMBIE no file operation of the kernel
\* would do anything and no program could be loaded.
Init ==
  /\ procs = [p \in Slot |-> IF p = KERNEL_PROC THEN KernelProc
                             ELSE IF p = INIT_PROC THEN InitProc ELSE NULL]
  /\ curr_pid = 2
  /\ reap_list = <<>>
  /\ loop = "reap"
  /\ fault = "none"
  /\ phase = [g \in Gen |-> IF g \in {KernelProc, InitProc} THEN "started"
                            ELSE "unused"]
  /\ pid = [g \in Gen |-> IF g = InitProc THEN INIT_PROC ELSE KERNEL_PROC]
  /\ \E s \in States \ {"ZOMBIE"} :
       state = [g \in Gen |-> IF g = KernelProc THEN s ELSE "RUNNING"]
  /\ coro_count = [g \in Gen |-> 0]
  /\ wait_list = [g \in Gen |-> {}]
  /\ child_list = [g \in Gen |-> {}]
  /\ call = [g \in Gen |-> "none"]
  /\ loading = [g \in Gen |-> NULL]
  /\ waiting_for = [g \in Gen |-> 0]

\* Mutant of Destroy: the slot keeps its pointer.
Destroy_dangling(g) ==
  /\ phase' = [phase EXCEPT ![g] = "freed"]
  /\ UNCHANGED procs

\* proc_destroy() of a struct nobody has a counted yield for.
Destroy(g) ==
  /\ procs' = [procs EXCEPT ![pid[g]] = NULL]
  /\ phase' = [phase EXCEPT ![g] = "freed"]

\* The slot holds a struct that passes the assert of proc_destroy().
HoldsZombie(p) == procs[p] # NULL /\ state[procs[p]] = "ZOMBIE"

\* reap(), with the proc_destroy() it calls: only the head is tried.
ReapNothing ==
  /\ fault = "none" /\ loop = "reap"
  /\ reap_list # <<>> =>
       HoldsZombie(Head(reap_list)) /\ coro_count[procs[Head(reap_list)]] # 0
  /\ loop' = "recv"
  /\ UNCHANGED <<table, fault, fields, handlers>>


ReapHead ==
  /\ fault = "none" /\ loop = "reap"
  /\ reap_list # <<>>
  /\ LET p == Head(reap_list)
         g == procs[p]
     IN
       \/ /\ HoldsZombie(p)
          /\ coro_count[g] = 0
          /\ phase[g] # "leaked" /\ g # KernelProc
          /\ Destroy(g)
          /\ reap_list' = Tail(reap_list)
          /\ loop' = "recv"
          /\ UNCHANGED <<curr_pid, fault, pid, state, coro_count, wait_list,
                         child_list, handlers>>
       \/ \* a cspace that was never set up, or the vspace of SOS itself
          /\ HoldsZombie(p)
          /\ coro_count[g] = 0
          /\ phase[g] = "leaked" \/ g = KernelProc
          /\ Halt("freed")
       \/ /\ ~HoldsZombie(p)
          /\ Halt("assert")

\* An interrupt or a tick that no yielded handler waits for.
Tick ==
  /\ Event
  /\ Continue
  /\ UNCHANGED <<table, fields, handlers>>

-----------------------------------------------------------------------------
\* The order in which find_next_pid() looks at the slots.  Because % binds
\* more tightly than +, curr_pid may be MAX_PROCESSES: the search then looks
\* outside the table first and goes on at slot 1.
SearchStart == IF curr_pid < MAX_PROCESSES THEN curr_pid ELSE 1
SearchOrder(i) == (SearchStart + i) % MAX_PROCESSES

\* Slot p is the first free one.
find_next_pid(p) ==
  \E i \in Slot :
    /\ p = SearchOrder(i)
    /\ procs[p] = NULL
    /\ \A j \in Slot : j < i => procs[SearchOrder(j)] # NULL

TableFull == \A p \in Slot : procs[p] # NULL

\* Mutant of FillIn: the search position moves two slots on.
FillIn_skips(new, p, ph, s) ==
  /\ curr_pid' = p + 2
  /\ phase' = [phase EXCEPT ![new] = ph]
  /\ pid' = [pid EXCEPT ![new] = p]
  /\ state' = [state EXCEPT ![new] = s]
  /\ UNCHANGED <<wait_list, child_list, reap_list, waiting_for>>

\* The fields proc_create() writes in new; state keeps what malloc returned.
FillIn(new, p, ph, s) ==
  /\ curr_pid' = p + 1
  /\ phase' = [phase EXCEPT ![new] = ph]
  /\ pid' = [pid EXCEPT ![new] = p]
  /\ state' = [state EXCEPT ![new] = s]
  /\ UNCHANGED <<wait_list, child_list, reap_list, waiting_for>>

\* syscall_proc_create() up to the first yield of elf_load_fs(), which runs
\* on the account of the kernel process.
CreateLoads(g, new, p, s) ==
  /\ state[KernelProc] # "ZOMBIE"
  /\ FillIn(new, p, "loading", s)
  /\ procs' = [procs EXCEPT ![p] = new]
  /\ coro_count' = [coro_count EXCEPT ![KernelProc] = @ + 1]
  /\ call' = [call EXCEPT ![g] = "create"]
  /\ loading' = [loading EXCEPT ![g] = new]

\* proc_create() returns NULL and leaves its struct in the table.
CreateLeaks(g, new, p, s) ==
  /\ "out_of_memory" \in May
  /\ FillIn(new, p, "leaked", s)
  /\ procs' = [procs EXCEPT ![p] = new]
  /\ UNCHANGED <<coro_count, call, loading>>

\* proc_start() fails before elf_load_fs() yields and destroys what it made.
CreateFails(g, new, p, s) ==
  /\ "out_of_memory" \in May \/ state[KernelProc] = "ZOMBIE"
  /\ FillIn(new, p, "freed", "ZOMBIE")
  /\ UNCHANGED <<procs, coro_count, call, loading>>

syscall_proc_create(g, new) ==
  /\ Event
  /\ Runnable(g)
  /\ pid[g] \in Creators
  /\ phase[new] = "unused"
  /\ \E p \in Slot, s \in States :
       /\ find_next_pid(p)
       /\ curr_pid < MAX_PROCESSES \/ FALSE \in BeyondIsNull
       /\ \/ CreateLoads(g, new, p, s)
          \/ CreateLeaks(g, new, p, s)
          \/ CreateFails(g, new, p, s)
  /\ Continue

\* find_next_pid() gives a pid outside the table: MAX_PROCESSES if the word
\* there is NULL, or -1, which proc_create() does not look for; or, started
\* from outside a full table, it never meets curr_pid again.
CreateOutside(g) ==
  /\ Event
  /\ Runnable(g)
  /\ pid[g] \in Creators
  /\ TableFull => "fill_table" \in May
  /\ \/ /\ curr_pid = MAX_PROCESSES
        /\ TRUE \in BeyondIsNull
        /\ Halt("overrun")
     \/ /\ curr_pid = MAX_PROCESSES
        /\ FALSE \in BeyondIsNull
        /\ TableFull
        /\ Halt("hang")
     \/ /\ curr_pid < MAX_PROCESSES
        /\ TableFull
        /\ Halt("overrun")

\* add_child(), called with the pid of g; a pid below 2 is not recorded.
add_child(g, p) ==
  child_list' = [child_list EXCEPT ![g] = IF p >= 2 THEN @ \cup {p} ELSE @]

\* elf_load_fs() has read the program: proc_start() and the system call go on.
LoadSucceeds(g) ==
  LET new == loading[g] IN
  /\ Event
  /\ call[g] = "create"
  /\ phase[new] = "loading" /\ phase[g] # "freed"
  /\ phase' = [phase EXCEPT ![new] = "started"]
  /\ state' = [state EXCEPT ![new] = "RUNNING"]
  /\ add_child(g, pid[new])
  /\ coro_count' = [coro_count EXCEPT ![KernelProc] = @ - 1]
  /\ call' = [call EXCEPT ![g] = "none"]
  /\ Continue
  /\ UNCHANGED <<table, pid, wait_list, loading, waiting_for>>

\* elf_load_fs() fails: the new struct is destroyed at once.
LoadFails(g) ==
  LET new == loading[g] IN
  /\ "load_fail" \in May
  /\ Event
  /\ call[g] = "create"
  /\ phase[new] = "loading"
  /\ Destroy(new)
  /\ state' = [state EXCEPT ![new] = "ZOMBIE"]
  /\ coro_count' = [coro_count EXCEPT ![KernelProc] = @ - 1]
  /\ call' = [call EXCEPT ![g] = "none"]
  /\ Continue
  /\ UNCHANGED <<curr_pid, reap_list, pid, wait_list, child_list, loading,
                 waiting_for>>

\* The struct being loaded, or the caller's, is gone when the load returns.
LoadIntoFreed(g) ==
  /\ Event
  /\ call[g] = "create"
  /\ phase[loading[g]] = "freed" \/ phase[g] = "freed"
  /\ Halt("freed")

-----------------------------------------------------------------------------
\* Children of t whose slot is taken: destroy_child_list() gives them to init.
Orphans(t) == {c \in child_list[t] : procs[c] # NULL}

\* Mutants of Woken: only one node is served, or every waiter is resumed.
Woken_one(t) ==
  {procs[p] : p \in {q \in wait_list[t] :
     /\ procs[q] # NULL /\ procs[q] # t /\ state[procs[q]] = "WAITING"
     /\ \A r \in wait_list[t] : q <= r}}

Woken_all(t) ==
  {procs[p] : p \in {q \in Slot :
     /\ procs[q] # NULL /\ procs[q] # t /\ state[procs[q]] = "WAITING"
     /\ call[procs[q]] = "wait"}}

\* Processes proc_wait_wakeup() resumes when t dies.
Woken(t) == {procs[p] : p \in {q \in wait_list[t] :
               procs[q] # NULL /\ procs[q] # t /\ state[procs[q]] = "WAITING"}}

\* Mutant of zombiefy: the pid is not put on the reap list.
zombiefy_unlisted(t) ==
  /\ state' = [g \in Gen |-> IF g = t THEN "ZOMBIE"
                             ELSE IF g \in Woken(t) THEN "RUNNING" ELSE state[g]]
  /\ call' = [g \in Gen |-> IF g \in Woken(t) THEN "none" ELSE call[g]]
  /\ UNCHANGED <<reap_list, wait_list, child_list>>

\* zombiefy() of a struct that it does not refuse.
zombiefy(t) ==
  /\ state' = [g \in Gen |-> IF g = t THEN "ZOMBIE"
                             ELSE IF g \in Woken(t) THEN "RUNNING" ELSE state[g]]
  /\ reap_list' = Append(reap_list, pid[t])
  /\ wait_list' = [g \in Gen |->
       IF InTable(g) /\ pid[g] \in Orphans(t) THEN wait_list[g] \cup {INIT_PROC}
       ELSE wait_list[g]]
  /\ child_list' = [child_list EXCEPT ![procs[INIT_PROC]] = @ \cup Orphans(t)]
  /\ call' = [g \in Gen |-> IF g \in Woken(t) THEN "none" ELSE call[g]]

\* What the callers of process_delete are assumed not to hit.
Spared(t) ==
  \/ phase[t] = "loading" /\ "name_loading" \notin May
  \/ call[t] \in {"console", "vm_fault", "create"} /\ "kill_blocked" \notin May
  \/ call[t] = "wait" /\ "kill_waiting" \notin May

Refused(p) ==
  \/ procs[p] = NULL
  \/ state[procs[p]] = "ZOMBIE"
  \/ protected_proc(procs[p])

syscall_proc_delete(g, p) ==
  /\ Event
  /\ Runnable(g)
  /\ p \in DeleteArgs
  /\ ~Refused(p)
  /\ ~Spared(procs[p])
  /\ \A h \in Woken(procs[p]) : call[h] = "wait"
  /\ zombiefy(procs[p])
  /\ Continue
  /\ UNCHANGED <<procs, curr_pid, phase, pid, coro_count, loading, waiting_for>>

\* A wait node left by an earlier owner of the pid meets a struct that is
\* still loading and whose state field happens to read WAITING.
DeleteResumesGarbage(g, p) ==
  /\ Event
  /\ Runnable(g)
  /\ p \in DeleteArgs
  /\ ~Refused(p)
  /\ ~Spared(procs[p])
  /\ \E h \in Woken(procs[p]) : call[h] # "wait"
  /\ Halt("freed")

\* Mutant of syscall_proc_wait: a zombie is waited for.
syscall_proc_wait_zombie(g, p) ==
  /\ Event
  /\ Runnable(g)
  /\ pid[g] \in Waiters
  /\ p \in WaitArgs \ {-1, KERNEL_PROC}
  /\ procs[p] # NULL
  /\ phase[procs[p]] # "started" => "name_loading" \in May
  /\ state' = [state EXCEPT ![g] = "WAITING"]
  /\ wait_list' = [wait_list EXCEPT ![procs[p]] = @ \cup {pid[g]}]
  /\ call' = [call EXCEPT ![g] = "wait"]
  /\ waiting_for' = [waiting_for EXCEPT ![g] = p]
  /\ Continue
  /\ UNCHANGED <<table, phase, pid, coro_count, child_list, loading>>

\* syscall_proc_wait() of one pid, up to its yield.
syscall_proc_wait(g, p) ==
  /\ Event
  /\ Runnable(g)
  /\ pid[g] \in Waiters
  /\ p \in WaitArgs \ {-1, KERNEL_PROC}
  /\ procs[p] # NULL
  /\ state[procs[p]] # "ZOMBIE"
  /\ phase[procs[p]] # "started" => "name_loading" \in May
  /\ state' = [state EXCEPT ![g] = "WAITING"]
  /\ wait_list' = [wait_list EXCEPT ![procs[p]] = @ \cup {pid[g]}]
  /\ call' = [call EXCEPT ![g] = "wait"]
  /\ waiting_for' = [waiting_for EXCEPT ![g] = p]
  /\ Continue
  /\ UNCHANGED <<table, phase, pid, coro_count, child_list, loading>>

\* syscall_proc_wait() of any child.  It looks at procs[-1]; when that word
\* reads as a process that is not a zombie it goes on, and wait_all_child()
\* puts the children on the list of the caller.
WaitAny(g) ==
  /\ Event
  /\ Runnable(g)
  /\ pid[g] \in Waiters
  /\ -1 \in WaitArgs
  /\ state' = [state EXCEPT ![g] = "WAITING"]
  /\ wait_list' = [wait_list EXCEPT ![g] =
                     @ \cup {c \in child_list[g] : procs[c] # NULL}]
  /\ call' = [call EXCEPT ![g] = "wait"]
  /\ waiting_for' = [waiting_for EXCEPT ![g] = -1]
  /\ Continue
  /\ UNCHANGED <<table, phase, pid, coro_count, child_list, loading>>

-----------------------------------------------------------------------------
\* Mutant of Charge: a finished yield is not taken off the account.
Charge_keeps(g, kind, n) ==
  coro_count' =
    CASE kind = "io" -> [coro_count EXCEPT ![g] = 1]
      [] kind = "vm_fault" -> [coro_count EXCEPT ![KernelProc] = @ + n]
      [] OTHER -> coro_count

\* The account a yield is counted on: a file operation counts on its process,
\* paging on the kernel, usleep and the console on nobody.
Charge(g, kind, n) ==
  coro_count' =
    CASE kind = "io" -> [coro_count EXCEPT ![g] = @ + n]
      [] kind = "vm_fault" -> [coro_count EXCEPT ![KernelProc] = @ + n]
      [] OTHER -> coro_count

\* A file system call, usleep, a console read or a VM fault yields.
Block(g, kind) ==
  /\ Event
  /\ Runnable(g)
  /\ kind \in {"console", "vm_fault"} => pid[g] \in Uncounted
  /\ kind = "vm_fault" => state[KernelProc] # "ZOMBIE"
  /\ call' = [call EXCEPT ![g] = kind]
  /\ Charge(g, kind, 1)
  /\ Continue
  /\ UNCHANGED <<table, phase, pid, state, wait_list, child_list, loading,
                 waiting_for>>

\* Its callback comes and the handler runs to its end.
Unblock(g) ==
  /\ Event
  /\ call[g] \in {"io", "sleep", "console", "vm_fault"}
  /\ phase[g] # "freed" \/ call[g] = "sleep"
  /\ Charge(g, call[g], -1)
  /\ call' = [call EXCEPT ![g] = "none"]
  /\ Continue
  /\ UNCHANGED <<table, phase, pid, state, wait_list, child_list, loading,
                 waiting_for>>

\* The handler goes on to use the struct of its process, which is gone.
UnblockFreed(g) ==
  /\ Event
  /\ call[g] \in {"io", "console", "vm_fault"}
  /\ phase[g] = "freed"
  /\ Halt("freed")

Next ==
  \/ ReapNothing
  \/ ReapHead
  \/ Tick
  \/ \E g, new \in Gen : syscall_proc_create(g, new)
  \/ \E g \in Gen : CreateOutside(g)
  \/ \E g \in Gen : LoadSucceeds(g) \/ LoadFails(g) \/ LoadIntoFreed(g)
  \/ \E g \in Gen, p \in DeleteArgs :
       syscall_proc_delete(g, p) \/ DeleteResumesGarbage(g, p)
  \/ \E g \in Gen, p \in WaitArgs : syscall_proc_wait(g, p)
  \/ \E g \in Gen : WaitAny(g)
  \/ \E g \in Gen, kind \in {"io", "sleep", "console", "vm_fault"} : Block(g, kind)
  \/ \E g \in Gen : Unblock(g) \/ UnblockFreed(g)

Spec == Init /\ [][Next]_vars

\* Timer and network ticks keep the loop turning, and every callback that a
\* counted yield waits for comes: libnfs calls back on success and on error.
Fairness ==
  /\ WF_vars(ReapNothing \/ ReapHead)
  /\ WF_vars(Tick)
  /\ \A g \in Gen : SF_vars(Unblock(g) /\ call[g] = "io")

FairSpec == Spec /\ Fairness

-----------------------------------------------------------------------------
\* Every variable has its type.
TypeOK ==
  /\ procs \in [Slot -> Gen \cup {NULL}]
  /\ curr_pid \in 0 .. MAX_PROCESSES
  /\ reap_list \in Seq(Slot)
  /\ loop \in {"reap", "recv"}
  /\ fault \in Faults
  /\ phase \in [Gen -> Phases]
  /\ pid \in [Gen -> Slot]
  /\ state \in [Gen -> States]
  /\ coro_count \in [Gen -> Int]
  /\ wait_list \in [Gen -> SUBSET Slot]
  /\ child_list \in [Gen -> SUBSET Slot]
  /\ call \in [Gen -> Calls]
  /\ loading \in [Gen -> Gen \cup {NULL}]
  /\ waiting_for \in [Gen -> Slot \cup {-1}]

\* proc_get(pid) is the live struct with that pid and nothing else: the table
\* and the pid fields agree, through every reuse of a slot.
TableSound ==
  /\ \A p \in Slot : procs[p] # NULL => InTable(procs[p]) /\ pid[procs[p]] = p
  /\ \A g \in Gen : InTable(g) => procs[pid[g]] = g

\* proc_destroy() never frees a struct while a file operation of its process
\* is in flight, and coro_count says exactly when there is one, whoever is
\* killed and in whatever order callbacks arrive.
FileCallsKeepStruct ==
  \A g \in Gen \ {KernelProc} :
    /\ call[g] = "io" => phase[g] = "started"
    /\ coro_count[g] = IF call[g] = "io" THEN 1 ELSE 0

\* Every started zombie waits in the reap list, so reap() gets to it.
ZombiesListed ==
  \A g \in Gen : phase[g] = "started" /\ state[g] = "ZOMBIE" =>
    \E i \in 1 .. Len(reap_list) : reap_list[i] = pid[g]

\* A process that is WAITING has its handler suspended in process_wait, and
\* the process it waits for is alive and has it on its list: whoever kills
\* that process wakes the waiter.
NoStrandedWaiter ==
  \A g \in Gen : phase[g] = "started" /\ state[g] = "WAITING" /\ g # KernelProc =>
    /\ call[g] = "wait"
    /\ waiting_for[g] \in Slot
    /\ LET t == procs[waiting_for[g]] IN
         t # NULL /\ state[t] # "ZOMBIE" /\ pid[g] \in wait_list[t]


\* When a process turns zombie every process waiting for its pid returns from
\* process_wait in the same step, unless it is a zombie itself.
ExitWakesWaiters ==
  [][\A g, t \in Gen :
       /\ state[t] # "ZOMBIE" /\ state'[t] = "ZOMBIE" /\ InTable(t) /\ InTable(t)'
       /\ g # t /\ phase[g] = "started" /\ state[g] = "WAITING"
       /\ call[g] = "wait" /\ waiting_for[g] = pid[t]
       => state'[g] = "RUNNING" /\ call'[g] = "none"]_vars

\* sos.h: process_wait will 'Wait for process "pid" to exit': it returns only
\* in the step in which the process it was asked to wait for turns zombie.
WaitReturnsOnExit ==
  [][\A g \in Gen : call[g] = "wait" /\ call'[g] = "none" =>
       LET t == procs[waiting_for[g]] IN
       t # NULL /\ state[t] # "ZOMBIE" /\ state'[t] = "ZOMBIE"]_vars

\* A killed process is reaped, also when it was killed inside a file
\* operation and when it queues behind others that were.
ZombieReaped ==
  \A g \in Gen \ {KernelProc, InitProc} :
    phase[g] = "started" /\ state[g] = "ZOMBIE" ~> phase[g] = "freed"

\* The design document: when a process is deleted "any current requests are
\* waited on to be finished".  No handler goes on with a struct that is gone.
HandlersOutlived == fault # "freed"
=============================================================================
