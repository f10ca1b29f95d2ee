-------------------------------- MODULE Files --------------------------------
(***************************************************************************)
(* Files: the descriptors of each process (syscall/filetable.c), the file  *)
(* system calls (syscall/file_syscalls.c), the vnodes and the one NFS      *)
(* handle each vnode keeps (fs/libnfs_vops.c, vfs/vfs.c), and the program  *)
(* loader, which reads through the same vnodes (elf.c).                    *)
(*                                                                         *)
(* Every call on the server is asynchronous.  The handler yields and the   *)
(* callback of the reply resumes it, so a system call is one action up to  *)
(* its first yield and one action per callback.  Replies arrive in any     *)
(* order.  Data, offsets and access modes are left out: the access test of *)
(* syscall_readwrite reads "flags & (O_ACCMODE == O_RDONLY)", which is 0.  *)
(***************************************************************************)
EXTENDS Integers, Sequences, FiniteSets, FiniteSetsExt

CONSTANTS
  Proc,          \* user processes
  Name,          \* file names
  Existing,      \* the names the server has at the start
  Exec,          \* the names whose mode has FM_EXEC
  Unopenable,    \* the names the server refuses to open
  Refused,       \* the names nfs_open_async and nfs_create_async reject at once
  MaxFd,         \* PROCESS_MAX_FILES
  Disciplined,   \* clients close what they hold and share no open file
  MaxVnodes,     \* bound on the vnodes ever created
  MaxHandles     \* bound on the handles ever opened

ASSUME FilesAssumption ==
  /\ Existing \subseteq Name
  /\ Exec \subseteq Name
  /\ Unopenable \subseteq Name
  /\ Refused \subseteq Name
  /\ MaxFd \in Nat \ {0}
  /\ Disciplined \in BOOLEAN
  /\ MaxVnodes \in Nat
  /\ MaxHandles \in Nat

VARIABLES
  vn,        \* the vnodes in order of creation: path and NFS handle
  handles,   \* the handles libnfs has allocated and not freed
  opened,    \* how many handles libnfs has ever allocated
  srv,       \* the names the server has
  fdt,       \* openfiles of each process: a vnode, or 0 for NULL
  state,     \* of each process
  coro_count,\* the handlers of a process that wait for the server
  call,      \* the system call each process waits in
  fault      \* what stopped SOS

vars == <<vn, handles, opened, srv, fdt, state, coro_count, call, fault>>

Fd == 0 .. MaxFd - 1

\* nfsfh is NULL after a close.  It is JUNK, a pointer to no handle, in a new
\* vnode (nfs_create_vnode leaves it unset) and after a failed open, where
\* the callback's data is the text of the error.
NULL == 0
JUNK == -1

\* fh is the handle the pending request uses, fd the descriptor it is for.
NoCall == [op |-> "none", step |-> "none", name |-> "", v |-> 0, fh |-> NULL, fd |-> 0]
Ops == {"open", "load", "rw", "close", "query"}
Steps == {"lookup", "create", "reclaim", "stat", "open", "data", "close", "query"}
Handle == Nat \cup {JUNK}
Call == [op : Ops, step : Steps, name : Name \cup {""}, v : Nat, fh : Handle,
         fd : Fd] \cup {NoCall}
Vnode == [path : Name, nfsfh : Handle]

Busy(p) == call[p] # NoCall

Init ==
  /\ vn = <<>>
  /\ handles = {}
  /\ opened = 0
  /\ srv = Existing
  /\ fdt = [p \in Proc |-> [fd \in Fd |-> 0]]
  /\ state = [p \in Proc |-> "RUNNING"]
  /\ coro_count = [p \in Proc |-> 0]
  /\ call = [p \in Proc |-> NoCall]
  /\ fault = "none"

Halt(why) ==
  /\ fault' = why
  /\ UNCHANGED <<vn, handles, opened, srv, fdt, state, coro_count, call>>

-----------------------------------------------------------------------------
\* The search of vnfs_lookup through the list that starts at root.
\* vnfs_creat puts a new vnode right after root, so the newest comes first.
Known(name) == {i \in DOMAIN vn : vn[i].path = name}
Find(name) == Max(Known(name) \cup {0})

\* vnfs_creat
WithVnode(name) == Append(vn, [path |-> name, nfsfh |-> JUNK])

\* Handlers count themselves in the process whose pid they were given; the
\* loader passes KERNEL_PROC.
Enter(p) == coro_count' = [coro_count EXCEPT ![p] = @ + 1]

\* Mutant of Leave: the count is not taken down.
Leave_forgotten(p) == UNCHANGED coro_count

Leave(p) == coro_count' = [coro_count EXCEPT ![p] = @ - 1]

Return(p) == call' = [call EXCEPT ![p] = NoCall]
Await(p, c) == call' = [call EXCEPT ![p] = c]

\* Room in the model for one more vnode and two more handles per call.
Room ==
  /\ Len(vn) + Cardinality({q \in Proc : call[q].step = "lookup"}) < MaxVnodes
  /\ opened + 2 * Cardinality({q \in Proc : call[q].op \in {"open", "load"}}) + 2 <= MaxHandles

\* A disciplined client opens or loads no file that a descriptor or a
\* system call is using, except that programs may be loaded side by side.
Unused(name, op) ==
  /\ \A q \in Proc, fd \in Fd : fdt[q][fd] # 0 => vn[fdt[q][fd]].path # name
  /\ \A q \in Proc : call[q].name = name => op = "load" /\ call[q].op = "load"

Calls(p) == fault = "none" /\ state[p] = "RUNNING" /\ ~Busy(p)

-----------------------------------------------------------------------------
\* fdt_place: the lowest free descriptor.  When there is none the file stays
\* open on the server with nobody to close it.
Placed(t, v) ==
  LET free == {fd \in Fd : t[fd] = 0}
  IN  IF free = {} THEN t ELSE [t EXCEPT ![Min(free)] = v]

\* Mutant of EachOpen: a vnode that was opened before is not opened again.
EachOpen_once(p, name, v, n) ==
  IF v \in DOMAIN vn /\ vn[v].nfsfh # JUNK
    THEN /\ fdt' = [fdt EXCEPT ![p] = Placed(@, v)]
         /\ Return(p)
         /\ coro_count' = [coro_count EXCEPT ![p] = n]
    ELSE /\ UNCHANGED fdt
         /\ Await(p, [op |-> "open", step |-> "open", name |-> name,
                      v |-> v, fh |-> NULL, fd |-> 0])
         /\ coro_count' = [coro_count EXCEPT ![p] = n + 1]

\* The rest of vfs_open once the lookup has returned v: VOP_EACHOPEN, which
\* does nothing for a process killed meanwhile, and fdt_place.  n handlers
\* of the process are left waiting when the lookup is over.
EachOpen(p, name, v, n) ==
  IF state[p] = "ZOMBIE"
    THEN /\ fdt' = [fdt EXCEPT ![p] = Placed(@, v)]
         /\ Return(p)
         /\ coro_count' = [coro_count EXCEPT ![p] = n]
    ELSE /\ UNCHANGED fdt
         /\ IF name \in Refused
              THEN /\ Return(p)
                   /\ coro_count' = [coro_count EXCEPT ![p] = n]
              ELSE /\ Await(p, [op |-> "open", step |-> "open", name |-> name,
                                v |-> v, fh |-> NULL, fd |-> 0])
                   /\ coro_count' = [coro_count EXCEPT ![p] = n + 1]

\* syscall_open up to its first yield.  A hit in the vnode list asks the
\* server only to open; a miss reads the directory first.
syscall_open(p, name) ==
  /\ Calls(p)
  /\ Room
  /\ Disciplined => Unused(name, "open")
  /\ IF Find(name) # 0
       THEN EachOpen(p, name, Find(name), coro_count[p])
       ELSE /\ Await(p, [op |-> "open", step |-> "lookup", name |-> name,
                         v |-> 0, fh |-> NULL, fd |-> 0])
            /\ Enter(p)
            /\ UNCHANGED fdt
  /\ UNCHANGED <<vn, handles, opened, srv, state, fault>>

\* elf_load_fs up to its first yield, in the handler of a process that
\* creates another one.
elf_load_fs(p, name) ==
  /\ Calls(p)
  /\ Room
  /\ Disciplined => Unused(name, "load")
  /\ Await(p, [op |-> "load", step |-> IF Find(name) # 0 THEN "stat" ELSE "lookup",
               name |-> name, v |-> Find(name), fh |-> NULL, fd |-> 0])
  /\ UNCHANGED <<vn, handles, opened, srv, fdt, state, coro_count, fault>>

\* nfs_lookup_cb: the name is in the directory, which makes a vnode for it,
\* or it is not, and open creates it while the loader gives up.
nfs_lookup_cb(p) ==
  /\ call[p].step = "lookup"
  /\ LET c == call[p]
         v == Len(vn) + 1
     IN \/ /\ c.name \in srv
           /\ vn' = WithVnode(c.name)
           /\ IF c.op = "open"
                THEN EachOpen(p, c.name, v, coro_count[p] - 1)
                ELSE /\ Await(p, [c EXCEPT !.step = "stat", !.v = v])
                     /\ UNCHANGED <<fdt, coro_count>>
           /\ UNCHANGED <<handles, opened, srv, state, fault>>
        \/ /\ c.name \notin srv
           /\ c.op = "open"
           /\ IF c.name \in Refused
                THEN Halt("badhandle")   \* VOP_RECLAIM of a vnode never opened
                ELSE /\ vn' = WithVnode(c.name)
                     /\ Await(p, [c EXCEPT !.step = "create", !.v = v])
                     /\ UNCHANGED <<handles, opened, srv, fdt, state, coro_count, fault>>
        \/ /\ c.name \notin srv
           /\ c.op = "load"
           /\ Return(p)
           /\ UNCHANGED <<vn, handles, opened, srv, fdt, state, coro_count, fault>>

\* nfs_create_cb and the VOP_RECLAIM that follows it.
nfs_create_cb(p) ==
  /\ call[p].step = "create"
  /\ LET c == call[p]
         h == opened + 1
     IN /\ opened' = h
        /\ handles' = handles \cup {h}
        /\ srv' = srv \cup {c.name}
        /\ vn' = [vn EXCEPT ![c.v].nfsfh = h]
        /\ Await(p, [c EXCEPT !.step = "reclaim", !.fh = h])
  /\ UNCHANGED <<fdt, state, coro_count, fault>>

\* libnfs frees the handle, then nfs_close_cb clears the one of the vnode,
\* which need not be the same any more.
Closed(c) == [vn EXCEPT ![c.v].nfsfh = NULL]

\* nfs_close_cb of the VOP_RECLAIM in vnfs_lookup; the open goes on.
reclaim_cb(p) ==
  /\ call[p].step = "reclaim"
  /\ LET c == call[p]
     IN IF c.fh \notin handles
          THEN Halt("freed")
          ELSE /\ handles' = handles \ {c.fh}
               /\ vn' = Closed(c)
               /\ EachOpen(p, c.name, c.v, coro_count[p] - 1)
               /\ UNCHANGED <<opened, srv, state, fault>>

\* nfs_pread_async, nfs_pwrite_async and nfs_close_async read the handle
\* they are given at once.
Request(p, c) ==
  IF c.fh \in handles THEN Await(p, c) /\ UNCHANGED fault
                      ELSE fault' = "badhandle" /\ UNCHANGED call

\* Mutant of nfs_stat64_cb: does not resume the handler.
nfs_stat64_cb_lost(p) == call[p].step = "stat" /\ UNCHANGED vars

\* VOP_STAT of the loader: on success and with FM_EXEC set it opens the
\* program, and reads it even when that fails.
nfs_stat64_cb(p) ==
  /\ call[p].step = "stat"
  /\ LET c == call[p]
     IN \/ /\ c.name \in Exec
           /\ IF c.name \in Refused
                THEN Request(p, [c EXCEPT !.step = "data", !.fh = vn[c.v].nfsfh])
                ELSE Await(p, [c EXCEPT !.step = "open"]) /\ UNCHANGED fault
        \/ Return(p) /\ UNCHANGED fault
  /\ UNCHANGED <<vn, handles, opened, srv, fdt, state, coro_count>>

\* nfs_open_cb: a descriptor for the process, or the loader's first read.
nfs_open_cb(p) ==
  /\ call[p].step = "open"
  /\ LET c == call[p]
         ok == c.name \notin Unopenable
         h == IF ok THEN opened + 1 ELSE JUNK
     IN /\ opened' = IF ok THEN h ELSE opened
        /\ handles' = IF ok THEN handles \cup {h} ELSE handles
        /\ vn' = [vn EXCEPT ![c.v].nfsfh = h]
        /\ IF c.op = "open"
             THEN /\ fdt' = IF ok THEN [fdt EXCEPT ![p] = Placed(@, c.v)] ELSE fdt
                  /\ Return(p)
                  /\ Leave(p)
                  /\ UNCHANGED fault
             ELSE /\ fault' = IF ok THEN fault ELSE "badhandle"
                  /\ call' = IF ok THEN [call EXCEPT ![p].step = "data", ![p].fh = h] ELSE call
                  /\ UNCHANGED <<fdt, coro_count>>
  /\ UNCHANGED <<srv, state>>

\* syscall_read and syscall_write on a descriptor that is open; on one that
\* is not they return 0 at once.
syscall_readwrite(p, fd) ==
  /\ Calls(p)
  /\ fdt[p][fd] # 0
  /\ LET v == fdt[p][fd]
     IN Request(p, [op |-> "rw", step |-> "data", name |-> vn[v].path, v |-> v,
                    fh |-> vn[v].nfsfh, fd |-> fd])
  /\ IF fault' = "none" THEN Enter(p) ELSE UNCHANGED coro_count
  /\ UNCHANGED <<vn, handles, opened, srv, fdt, state>>

\* nfs_read_cb and nfs_write_cb.  libnfs touches the handle first.  The
\* system call then advances the offset of the open file it found before it
\* yielded; the loader reads on with the vnode's handle until it has it all.
data_cb(p) ==
  /\ call[p].step = "data"
  /\ LET c == call[p]
     IN CASE c.fh \notin handles -> Halt("freed")
          [] c.fh \in handles /\ c.op = "rw" ->
               IF fdt[p][c.fd] # c.v
                 THEN Halt("freed")
                 ELSE /\ Return(p)
                      /\ Leave(p)
                      /\ UNCHANGED <<vn, handles, opened, srv, fdt, state, fault>>
          [] c.fh \in handles /\ c.op = "load" ->
               /\ \/ Return(p) /\ UNCHANGED fault
                  \/ Request(p, [c EXCEPT !.fh = vn[c.v].nfsfh])
               /\ UNCHANGED <<vn, handles, opened, srv, fdt, state, coro_count>>

\* syscall_close.  The descriptor stays in the table until the server has
\* answered.  Closing a descriptor that is not open reads through NULL.
syscall_close(p, fd) ==
  /\ Calls(p)
  /\ Disciplined => fdt[p][fd] # 0
  /\ LET v == fdt[p][fd]
     IN IF v = 0
          THEN fault' = "null" /\ UNCHANGED call
          ELSE Request(p, [op |-> "close", step |-> "close", name |-> vn[v].path,
                           v |-> v, fh |-> vn[v].nfsfh, fd |-> fd])
  /\ IF fault' = "none" THEN Enter(p) ELSE UNCHANGED coro_count
  /\ UNCHANGED <<vn, handles, opened, srv, fdt, state>>

nfs_close_cb(p) ==
  /\ call[p].step = "close"
  /\ LET c == call[p]
     IN IF c.fh \notin handles
          THEN Halt("freed")
          ELSE /\ handles' = handles \ {c.fh}
               /\ vn' = Closed(c)
               /\ fdt' = [fdt EXCEPT ![p][c.fd] = 0]
               /\ Return(p)
               /\ Leave(p)
               /\ UNCHANGED <<opened, srv, state, fault>>

\* syscall_stat and syscall_getdirent ask about a path and keep nothing.
syscall_query(p) ==
  /\ Calls(p)
  /\ Await(p, [op |-> "query", step |-> "query", name |-> "", v |-> 0,
               fh |-> NULL, fd |-> 0])
  /\ Enter(p)
  /\ UNCHANGED <<vn, handles, opened, srv, fdt, state, fault>>

query_cb(p) ==
  /\ call[p].step = "query"
  /\ Return(p)
  /\ Leave(p)
  /\ UNCHANGED <<vn, handles, opened, srv, fdt, state, fault>>

\* A request that the server or libnfs fails makes its callback exit(10),
\* except an open and the loader's stat.
nfs_error(p) ==
  /\ call[p].step \in Steps \ {"open", "stat"}
  /\ Halt("exit")

\* zombiefy by another process; the handler, if one waits, waits on.
zombiefy(p) ==
  /\ fault = "none"
  /\ state[p] = "RUNNING"
  /\ state' = [state EXCEPT ![p] = "ZOMBIE"]
  /\ UNCHANGED <<vn, handles, opened, srv, fdt, coro_count, call, fault>>

\* Mutant of proc_destroy: does not wait for the handlers.
proc_destroy_early(p) ==
  /\ fault = "none"
  /\ state[p] = "ZOMBIE"
  /\ state' = [state EXCEPT ![p] = "GONE"]
  /\ fdt' = [fdt EXCEPT ![p] = [fd \in Fd |-> 0]]
  /\ UNCHANGED <<vn, handles, opened, srv, coro_count, call, fault>>

\* proc_destroy, from reap().  fdt_destroy calls VOP_RECLAIM for each open
\* file; the process is a ZOMBIE by then, so vnfs_reclaim returns at once
\* and the server is not told.
proc_destroy(p) ==
  /\ fault = "none"
  /\ state[p] = "ZOMBIE"
  /\ coro_count[p] = 0
  /\ state' = [state EXCEPT ![p] = "GONE"]
  /\ fdt' = [fdt EXCEPT ![p] = [fd \in Fd |-> 0]]
  /\ UNCHANGED <<vn, handles, opened, srv, coro_count, call, fault>>

Callback(p) ==
  /\ fault = "none"
  /\ \/ nfs_lookup_cb(p)
     \/ nfs_create_cb(p)
     \/ reclaim_cb(p)
     \/ nfs_stat64_cb(p)
     \/ nfs_open_cb(p)
     \/ data_cb(p)
     \/ nfs_close_cb(p)
     \/ query_cb(p)
     \/ nfs_error(p)

Next ==
  \E p \in Proc :
    \/ \E name \in Name : syscall_open(p, name) \/ elf_load_fs(p, name)
    \/ \E fd \in Fd : syscall_readwrite(p, fd) \/ syscall_close(p, fd)
    \/ syscall_query(p)
    \/ Callback(p)
    \/ zombiefy(p)
    \/ proc_destroy(p)

Spec == Init /\ [][Next]_vars

\* While the connection to the server lasts libnfs answers every request
\* (Rpc implements NfsCalls); syscall_loop calls reap() before it waits for
\* the next message.
FairSpec ==
  /\ Spec
  /\ \A p \in Proc : WF_vars(Callback(p)) /\ WF_vars(proc_destroy(p))

-----------------------------------------------------------------------------
\* Every variable has its type.
TypeOK ==
  /\ vn \in Seq(Vnode)
  /\ opened \in Nat
  /\ handles \subseteq 1 .. opened
  /\ Existing \subseteq srv /\ srv \subseteq Name
  /\ fdt \in [Proc -> [Fd -> 0 .. Len(vn)]]
  /\ state \in [Proc -> {"RUNNING", "ZOMBIE", "GONE"}]
  /\ coro_count \in [Proc -> 0 .. 1]
  /\ call \in [Proc -> Call]
  /\ fault \in {"none", "badhandle", "freed", "null", "exit"}

\* Nothing the vnode operations hand to libnfs is a handle that libnfs does
\* not hold open, no handle is freed twice, and no handler goes on with an
\* open file that has been freed (nfsfh in vnfs_read, vnfs_write and
\* vnfs_reclaim; of in syscall_readwrite).  A descriptor of a live process can
\* be used: its vnode's handle is open, whatever other processes have opened,
\* loaded, closed or died of since.
HandlesSound ==
  /\ fault \notin {"badhandle", "freed", "null"}
  /\ fault = "none" =>
       \A p \in Proc, fd \in Fd :
         state[p] = "RUNNING" /\ fdt[p][fd] # 0 => vn[fdt[p][fd]].nfsfh \in handles

\* The vnode operations leave coro_count as they found it on every path, so it
\* says exactly whether a handler waits in the process's name, and
\* proc_destroy never frees the open files of a process under such a handler.
HandlersCounted ==
  /\ TypeOK
  /\ \A p \in Proc :
       LET waits == call[p].op \notin {"none", "load"}
       IN  /\ state[p] = "GONE" => ~waits
           /\ fault = "none" => coro_count[p] = IF waits THEN 1 ELSE 0

\* Every file system call returns, unless SOS stops.
CallsReturn ==
  \A p \in Proc : Busy(p) ~> (~Busy(p) \/ fault # "none")

\* A killed process is reclaimed: no file operation can keep it forever.
KilledGoes ==
  \A p \in Proc : state[p] = "ZOMBIE" ~> (state[p] = "GONE" \/ fault # "none")
=============================================================================
