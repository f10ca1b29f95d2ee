------------------------------- MODULE Spaces --------------------------------
(***************************************************************************)
(* Spaces: the memory mmap() gives to SOS itself (sys/morecore.c) and the  *)
(* address spaces of processes (vm/address_space.c), brought together by   *)
(* the program loader: it keeps the program file in memory from mmap(),    *)
(* through malloc(), while it reads it from the server, and builds the     *)
(* regions of the new process from it (elf.c, proc.c).                     *)
(*                                                                         *)
(* SOS is single threaded and loaders yield only while they read, so       *)
(* several files may be in memory at a time.  The search of sys_mmap is    *)
(* one turn of its loop per step, with nothing else in between.            *)
(***************************************************************************)
EXTENDS Regions, FiniteSets

CONSTANTS
  Proc,          \* processes
  Page,          \* PAGE_SIZE_4K
  MMAP_BOT,      \* the area of mmap()
  MMAP_TOP,
  Programs,      \* program files: size and segments
  StackTop,      \* PROCESS_STACK_TOP
  StackSize,     \* PAGE_SIZE_4K * STACK_PAGES
  BufTop,        \* PROCESS_SHARED_BUF_TOP
  BufSize,       \* PAGE_SIZE_4K * SHARE_BUF_SIZE
  IpcBuffer,     \* PROCESS_IPC_BUFFER
  Disciplined,   \* a load ends while its file is one of the two newest
  MaxFrames      \* bound on the frames mmap() ever holds

Segment == [vaddr : Addr, size : Nat, accmode : {"rw", "rx"}]

ASSUME SpacesAssumption ==
  /\ Page \in Nat \ {0}
  /\ MMAP_BOT \in Addr /\ MMAP_TOP \in Addr /\ MMAP_BOT % Page = 0
  /\ Programs \subseteq [size : Nat, segments : Seq(Segment)]
  /\ StackTop \in Addr /\ StackTop + Page \in Addr /\ StackSize \in 0 .. StackTop
  /\ BufTop \in Addr /\ BufSize \in 0 .. BufTop
  /\ IpcBuffer \in Addr /\ IpcBuffer + Page \in Addr
  /\ Disciplined \in BOOLEAN
  /\ MaxFrames \in Nat

VARIABLES
  ks,        \* the regions of the kernel's address space
  pt,        \* its page table: the frame of each page, or 0
  hw,        \* the mappings the seL4 kernel holds, likewise
  frames,    \* the frames allocated to mmap()
  search,    \* the sys_mmap that is running
  file,      \* of each process being loaded: its program in memory
  as,        \* the regions of each process
  segs,      \* the segments loaded into each process
  state,     \* of each process
  fault      \* what stopped SOS

vars == <<ks, pt, hw, frames, search, file, as, segs, state, fault>>

PAGE_ALIGN_4K(a) == a - (a % Page)
PageIn(base, length) == {a \in Addr : a % Page = 0 /\ base <= a /\ a < base + length}
Pages == {a \in Addr : a % Page = 0}
Frame == 1 .. MaxFrames

NoSearch == [proc |-> "none", addr |-> 0, length |-> 0]
NoFile == [base |-> 0, length |-> 0, segments |-> <<>>]

\* SOS is in its event loop.
Free == fault = "none" /\ search = NoSearch /\ \A p \in Proc : state[p] # "BUILDING"

Init ==
  /\ ks = <<>>
  /\ pt = [a \in Pages |-> 0]
  /\ hw = [a \in Pages |-> 0]
  /\ frames = {}
  /\ search = NoSearch
  /\ file = [p \in Proc |-> NoFile]
  /\ as = [p \in Proc |-> <<>>]
  /\ segs = [p \in Proc |-> <<>>]
  /\ state = [p \in Proc |-> "NONE"]
  /\ fault = "none"

-----------------------------------------------------------------------------
\* malloc() asks mmap() for whole pages; sys_mmap adds one more.
MallocLen(size) == PAGE_ALIGN_4K(size + Page - 1)

\* elf_load_fs up to its malloc() of the file, and sys_mmap up to its loop.
elf_load_fs(p, prog) ==
  /\ Free
  /\ state[p] = "NONE"
  /\ Cardinality(frames) + MallocLen(prog.size) \div Page + 1 <= MaxFrames
  /\ search' = [proc |-> p, addr |-> MMAP_BOT, length |-> MallocLen(prog.size) + Page]
  /\ file' = [file EXCEPT ![p] = [base |-> 0, length |-> MallocLen(prog.size),
                                  segments |-> prog.segments]]
  /\ UNCHANGED <<ks, pt, hw, frames, as, segs, state, fault>>

\* A turn of the loop that meets a region goes on after it.
sys_mmap_skip ==
  /\ fault = "none"
  /\ search # NoSearch
  /\ search.addr < MMAP_TOP
  /\ LET k == as_seek_region(ks, search.addr)
     IN /\ k # 0
        /\ search' = [search EXCEPT !.addr = PAGE_ALIGN_4K(ks[k].vtop) + Page]
  /\ UNCHANGED <<ks, pt, hw, frames, file, as, segs, state, fault>>

\* frame_alloc_important gives n + 1 frames one after the other.
FreeFrame(n) == CHOOSE f \in Frame \ frames : Cardinality({g \in Frame \ frames : g < f}) = n

\* The end of sys_mmap.  It fails beyond MMAP_TOP, with the region defined.
\* Otherwise each page of the region gets a new frame; the kernel refuses to
\* map one where another still is (seL4_DeleteFirst), which is not looked at.
Mapped(p, base, length) ==
  IF base + length > MMAP_TOP
    THEN /\ fault' = "assert"
         /\ UNCHANGED <<pt, hw, frames, search, file, state>>
    ELSE LET where == PageIn(base, length)
             new == [a \in where |-> FreeFrame((a - base) \div Page)]
         IN /\ frames' = frames \cup {new[a] : a \in where}
            /\ pt' = [a \in Pages |-> IF a \in where THEN new[a] ELSE pt[a]]
            /\ hw' = [a \in Pages |-> IF a \in where /\ hw[a] = 0 THEN new[a] ELSE hw[a]]
            /\ file' = [file EXCEPT ![p].base = base]
            /\ state' = [state EXCEPT ![p] = "LOADING"]
            /\ search' = NoSearch
            /\ UNCHANGED fault

\* A turn at a free address defines the region and leaves the loop.  When the
\* region does not fit, the loop goes on with a region that is NULL.
sys_mmap_define ==
  /\ fault = "none"
  /\ search # NoSearch
  /\ search.addr < MMAP_TOP
  /\ as_seek_region(ks, search.addr) = 0
  /\ IF Definable(ks, search.addr, search.length)
       THEN /\ ks' = as_define_region(ks, search.addr, search.length, "rw")
            /\ Mapped(search.proc, search.addr, search.length)
       ELSE /\ fault' = "null"
            /\ UNCHANGED <<ks, pt, hw, frames, search, file, state>>
  /\ UNCHANGED <<as, segs>>

\* The loop ends at MMAP_TOP: malloc() returns NULL.
sys_mmap_fail ==
  /\ fault = "none"
  /\ search # NoSearch
  /\ search.addr >= MMAP_TOP
  /\ fault' = "assert"
  /\ UNCHANGED <<ks, pt, hw, frames, search, file, as, segs, state>>

-----------------------------------------------------------------------------
\* The loader has read the file and turns to the program headers.
elf_load(p) ==
  /\ Free
  /\ state[p] = "LOADING"
  /\ Disciplined => as_seek_region(ks, file[p].base) \in {1, 2}
  /\ state' = [state EXCEPT ![p] = "BUILDING"]
  /\ UNCHANGED <<ks, pt, hw, frames, search, file, as, segs, fault>>

\* One segment: its pages are loaded, and its region is defined or not.
load_segment(p) ==
  /\ fault = "none"
  /\ state[p] = "BUILDING"
  /\ Len(segs[p]) < Len(file[p].segments)
  /\ LET s == file[p].segments[Len(segs[p]) + 1]
     IN /\ segs' = [segs EXCEPT ![p] = Append(@, s)]
        /\ as' = [as EXCEPT ![p] = as_define_region(@, s.vaddr, s.size, s.accmode)]
  /\ UNCHANGED <<ks, pt, hw, frames, search, file, state, fault>>

\* load_segment_into_vspace runs out of frames or slots.  elf_load_fs returns
\* without free() of the file, and proc_start destroys the process.
load_fails(p) ==
  /\ fault = "none"
  /\ state[p] = "BUILDING"
  /\ Len(segs[p]) < Len(file[p].segments)
  /\ file' = [file EXCEPT ![p] = NoFile]
  /\ state' = [state EXCEPT ![p] = "NONE"]
  /\ as' = [as EXCEPT ![p] = <<>>]
  /\ segs' = [segs EXCEPT ![p] = <<>>]
  /\ UNCHANGED <<ks, pt, hw, frames, search, fault>>

\* The regions proc_start defines after the program: as_define_stack,
\* as_define_heap, as_define_shared_buffer and that of the IPC buffer.
Stack == [vbase |-> StackTop - StackSize, size |-> StackSize]
Heap == [vbase |-> StackTop + Page, size |-> Word - 1 - StackTop - Page]
SharedBuf == [vbase |-> BufTop - BufSize, size |-> BufSize]
Ipc == [vbase |-> IpcBuffer, size |-> Page]

DefineAll(rs) ==
  LET define(l, r) == as_define_region(l, r.vbase, r.size, "rw")
  IN  define(define(define(define(rs, Stack), Heap), SharedBuf), Ipc)
AllDefinable(rs) == Len(DefineAll(rs)) = Len(rs) + 4

\* sys_munmap, called by free(): frees the pages it is asked for, which is
\* one less than sys_mmap has mapped, and takes the region away.
sys_munmap(base, length) ==
  LET gone == {pt[a] : a \in PageIn(base, length)}
  IN  /\ frames' = frames \ gone
      /\ hw' = [a \in Pages |-> IF hw[a] \in gone THEN 0 ELSE hw[a]]
      /\ pt' = [a \in Pages |-> IF a \in PageIn(base, length) THEN 0 ELSE pt[a]]
      /\ ks' = as_destroy_region(ks, base)

\* The end of elf_load_fs and the rest of proc_start.  A process whose
\* regions cannot all be defined is destroyed.
proc_start(p) ==
  /\ fault = "none"
  /\ state[p] = "BUILDING"
  /\ Len(segs[p]) = Len(file[p].segments)
  /\ IF as_seek_region(ks, file[p].base) = 0
       THEN /\ fault' = "null"
            /\ UNCHANGED <<ks, pt, hw, frames, file, as, segs, state>>
       ELSE /\ sys_munmap(file[p].base, file[p].length)
            /\ file' = [file EXCEPT ![p] = NoFile]
            /\ state' = [state EXCEPT ![p] = IF AllDefinable(as[p]) THEN "RUNNING" ELSE "NONE"]
            /\ as' = [as EXCEPT ![p] = IF AllDefinable(@) THEN DefineAll(@) ELSE <<>>]
            /\ segs' = [segs EXCEPT ![p] = IF AllDefinable(as[p]) THEN @ ELSE <<>>]
            /\ UNCHANGED fault
  /\ UNCHANGED search

\* as_destroy, from proc_destroy.
as_destroy(p) ==
  /\ Free
  /\ state[p] = "RUNNING"
  /\ state' = [state EXCEPT ![p] = "NONE"]
  /\ as' = [as EXCEPT ![p] = <<>>]
  /\ segs' = [segs EXCEPT ![p] = <<>>]
  /\ UNCHANGED <<ks, pt, hw, frames, search, file, fault>>

Next ==
  \/ \E p \in Proc :
       \/ \E prog \in Programs : elf_load_fs(p, prog)
       \/ elf_load(p)
       \/ load_segment(p)
       \/ load_fails(p)
       \/ proc_start(p)
       \/ as_destroy(p)
  \/ sys_mmap_skip
  \/ sys_mmap_define
  \/ sys_mmap_fail

Spec == Init /\ [][Next]_vars

-----------------------------------------------------------------------------
\* The variables stay in their types.
TypeOK ==
  /\ ks \in Seq(Region)
  /\ pt \in [Pages -> Frame \cup {0}]
  /\ hw \in [Pages -> Frame \cup {0}]
  /\ frames \subseteq Frame
  /\ search \in [proc : Proc, addr : Nat, length : Nat] \cup {NoSearch}
  /\ file \in [Proc -> [base : Nat, length : Nat, segments : Seq(Segment)]]
  /\ segs \in [Proc -> Seq(Segment)]
  /\ state \in [Proc -> {"NONE", "LOADING", "BUILDING", "RUNNING"}]
  /\ as \in [Proc -> Seq(Region)]
  /\ fault \in {"none", "null", "assert"}

\* No two regions of an address space, the kernel's or a process's, have an
\* address in common, whatever was defined and destroyed before
\* (as_define_region, as_destroy_region).
RegionsApart == TypeOK /\ AllApart(ks) /\ \A p \in Proc : AllApart(as[p])

Held(p) == state[p] \in {"LOADING", "BUILDING"}

\* A file in memory keeps its region for as long as it is there, with the
\* page sys_mmap adds, so that later loads cannot be given the same place;
\* and every page of it is mapped to an allocated frame of its own, although
\* sys_mmap ignores mappings that fail.
FilesKept ==
  /\ \A p \in Proc : Held(p) =>
       /\ \E i \in DOMAIN ks : /\ ks[i].vbase = file[p].base
                               /\ ks[i].vtop = file[p].base + file[p].length + Page
       /\ \A a \in PageIn(file[p].base, file[p].length) : hw[a] \in frames
  /\ \A a, b \in Pages : a # b /\ hw[a] # 0 => hw[a] # hw[b]

Covered(rs, vaddr, accmode) ==
  LET k == as_seek_region(rs, vaddr) IN k # 0 /\ rs[k].accmode = accmode

\* In a process that runs, vm_fault finds the right region for every address
\* of every segment that was loaded, and for the stack, the heap, the shared
\* buffer and the IPC buffer.
RunningCovered ==
  \A p \in Proc : state[p] = "RUNNING" =>
    /\ \A i \in DOMAIN segs[p] :
         \A a \in segs[p][i].vaddr .. segs[p][i].vaddr + segs[p][i].size - 1 :
           Covered(as[p], a, segs[p][i].accmode)
    /\ \A r \in {Stack, Heap, SharedBuf, Ipc} :
         \A a \in r.vbase .. r.vbase + r.size - 1 : Covered(as[p], a, "rw")
=============================================================================
