--------------------------------- MODULE Vm ---------------------------------
(***************************************************************************)
(* Physical memory of SOS: the frame table with its free list and clock    *)
(* (sos/src/vm/frametable.c), the page tables (pagetable.c), the mapping   *)
(* of pages (mapping.c), program loading (elf.c), the mmap() SOS provides  *)
(* to its own malloc (sys/morecore.c), and the entry of the pager.         *)
(*                                                                         *)
(* A page table is the function from what it can hold to the frame that    *)
(* holds it: user pages, table nodes and the frames of its own struct.     *)
(* A handler asks for frames one by one; work is what the running handler  *)
(* still has to do, and no other handler runs before it is done.           *)
(*                                                                         *)
(* A full table sends frame_alloc() to the clock and to pageout(), which   *)
(* opens the pagefile and then looks at its victim: fault says with what   *)
(* result, and the behaviour ends there.                                   *)
(***************************************************************************)
EXTENDS Integers, Sequences, FiniteSets

CONSTANTS
  frame_table_size,
  Buffers,       \* frames of shared_buf_init(), the first of the table
  MAX_PROCESSES,
  Pid,           \* pids of user processes
  VPage,         \* page-aligned addresses
  Node,          \* page upper directories, directories and tables
  Path,          \* the nodes an address is reached through, topmost first
  Order,         \* what a page table holds, in the order it is destroyed
  Image,         \* the pages a program's segments are loaded to, in order
  Touched,       \* the pages a process touches in its stack and heap
  Block,         \* pages of the area mmap() hands out
  MaxHandled,    \* bound: how many handlers run
  NONE

KERNEL_PROC == 0
Space == Pid \cup {KERNEL_PROC}
Page == 0 .. frame_table_size - 1
Root == {"page_table", "pgd"}
Held == Root \cup {"seL4_pages"} \cup Node \cup VPage

ASSUME VmAssumption ==
  /\ frame_table_size \in Nat /\ Buffers \in Nat
  /\ 0 < Buffers /\ Buffers + 2 <= frame_table_size
  /\ MAX_PROCESSES \in Nat
  /\ Pid \subseteq 1 .. MAX_PROCESSES
  /\ NONE \notin Page
  /\ (Root \cup {"seL4_pages"}) \cap (Node \cup VPage) = {}
  /\ Node \cap VPage = {}
  /\ Path \in [VPage -> Seq(Node)]
  /\ Order \in Seq(Held)
  /\ Image \in Seq(VPage) /\ Touched \subseteq VPage
  /\ Block \in Seq(VPage) /\ Block # <<>>
  /\ MaxHandled \in Nat

VARIABLES
  cap,             \* per frame: it is allocated
  important,       \* per frame
  ref_bit,         \* per frame
  pid,             \* per frame: the process it is recorded for, or -1
  user_vaddr,      \* per frame: the address it is recorded for, or NONE
  next,            \* per frame: its next_free_page field
  next_free_page,  \* the head of the free list
  frame_table_curr_size,
  clock_curr,
  pt,              \* per address space: what its page table holds
  mapped,          \* the region of the mmap() block is defined
  work,            \* what the running handler still has to do
  handled,         \* how many handlers have started
  fault            \* "none", "assert", or "pageout": the pager has a victim

frames == <<cap, important, ref_bit, pid, user_vaddr, next>>
lists == <<next_free_page, frame_table_curr_size, clock_curr>>
vars == <<frames, lists, pt, mapped, work, handled, fault>>

Items == [op : {"alloc", "insert", "free"}, space : Space, what : Held,
          page : Page \cup {NONE}]

item(op, a, k) == [op |-> op, space |-> a, what |-> k, page |-> NONE]
items(op, a, s) == [i \in DOMAIN s |-> item(op, a, s[i])]

Ready == fault = "none" /\ work = <<>>

Exists(a) == pt[a]["page_table"] # NONE

-----------------------------------------------------------------------------
Boot == Buffers + 2

\* frame_table_init(), shared_buf_init(), and as_create() of the kernel's
\* process: the frames are taken in the order of the table.
Init ==
  /\ cap = [p \in Page |-> p < Boot]
  /\ important = [p \in Page |-> p < Boot]
  /\ ref_bit = [p \in Page |-> p < Boot]
  /\ pid = [p \in Page |-> -1]
  /\ user_vaddr = [p \in Page |-> NONE]
  /\ next = [p \in Page |-> (p + 1) % frame_table_size]
  /\ next_free_page = Boot % frame_table_size
  /\ frame_table_curr_size = Boot
  /\ clock_curr = 0
  /\ pt = [a \in Space |-> [k \in Held |->
             IF a # KERNEL_PROC THEN NONE
             ELSE IF k = "page_table" THEN Buffers
             ELSE IF k = "pgd" THEN Buffers + 1 ELSE NONE]]
  /\ mapped = FALSE
  /\ work = <<>>
  /\ handled = 0
  /\ fault = "none"

\* What sos_map_frame() and page_table_insert() have to allocate before the
\* address v can be entered: the frame of save_seL4_info() and table nodes.
Missing(a, v) ==
  SelectSeq(<<"seL4_pages">> \o Path[v], LAMBDA k : pt[a][k] = NONE)

\* User pages may be paged out; tables and what mmap() allocates may not.
Important(a, k) == k \notin VPage \/ a = KERNEL_PROC

\* sos_map_frame() with the frame of a page: the tables, then the entry.
MapFrame(a, v, p) ==
  Append(items("alloc", a, Missing(a, v)), [item("insert", a, v) EXCEPT !.page = p])


\* frame_alloc() or frame_alloc_important() with a free frame left.  A frame
\* for a table is entered at once; one for a page is handed to
\* sos_map_frame(), which may need more frames first.
frame_alloc ==
  /\ fault = "none" /\ work # <<>> /\ Head(work).op = "alloc"
  /\ frame_table_curr_size < frame_table_size
  /\ LET a == Head(work).space
         k == Head(work).what
         page == next_free_page
     IN
       /\ cap' = [cap EXCEPT ![page] = TRUE]
       /\ important' = [important EXCEPT ![page] = Important(a, k)]
       /\ ref_bit' = [ref_bit EXCEPT ![page] = TRUE]
       /\ pid' = [pid EXCEPT ![page] = -1]
       /\ user_vaddr' = [user_vaddr EXCEPT ![page] = NONE]
       /\ next_free_page' = next[page]
       /\ frame_table_curr_size' = frame_table_curr_size + 1
       /\ pt' = IF k \in VPage THEN pt ELSE [pt EXCEPT ![a][k] = page]
       /\ work' = IF k \in VPage THEN MapFrame(a, k, page) \o Tail(work)
                  ELSE Tail(work)
  /\ UNCHANGED <<next, clock_curr, mapped, handled, fault>>

\* The entry of a page, and what vm_fault() and load_segment_into_vspace()
\* then record in the frame table; sys_mmap() records nothing.
page_table_insert ==
  /\ fault = "none" /\ work # <<>> /\ Head(work).op = "insert"
  /\ LET a == Head(work).space
         v == Head(work).what
         page == Head(work).page
     IN
       /\ pt' = [pt EXCEPT ![a][v] = page]
       /\ pid' = IF a = KERNEL_PROC THEN pid ELSE [pid EXCEPT ![page] = a]
       /\ user_vaddr' = IF a = KERNEL_PROC THEN user_vaddr
                        ELSE [user_vaddr EXCEPT ![page] = v]
  /\ work' = Tail(work)
  /\ UNCHANGED <<cap, important, ref_bit, next, lists, mapped, handled, fault>>


\* The clock looks at the frames from clock_curr on, and clears the reference
\* bits it meets where this test succeeds.
Clears(p) == ~important[p] \/ pid[p] <= MAX_PROCESSES

\* The first frame the clock comes to in S, and those it passes before p.
Place(p) == (p - clock_curr) % frame_table_size
FirstOf(S) == CHOOSE p \in S : \A q \in S : Place(p) <= Place(q)

\* The clock stops at the first clear bit, in its second round if need be.
Unused == {p \in Page : ~ref_bit[p]}
Victim == IF Unused # {} THEN FirstOf(Unused) ELSE FirstOf({p \in Page : Clears(p)})
Passed == IF Unused # {} THEN {p \in Page : Place(p) < Place(Victim)} ELSE Page

\* The asserts of pageout().
Evictable(p) == pid[p] >= 0 /\ pid[p] <= MAX_PROCESSES /\ ~important[p]

\* frame_alloc() or frame_alloc_important() when every frame is taken.
frame_alloc_full ==
  /\ fault = "none" /\ work # <<>> /\ Head(work).op = "alloc"
  /\ frame_table_curr_size = frame_table_size
  /\ clock_curr' = Victim
  /\ ref_bit' = [p \in Page |-> ref_bit[p] /\ ~(p \in Passed /\ Clears(p))]
  /\ fault' = IF Evictable(Victim) THEN "pageout" ELSE "assert"
  /\ UNCHANGED <<cap, important, pid, user_vaddr, next, next_free_page,
                 frame_table_curr_size, pt, mapped, work, handled>>

\* Mutant of frame_free: the frame is recorded as free but not linked.
frame_free_unlinked ==
  /\ fault = "none" /\ work # <<>> /\ Head(work).op = "free"
  /\ LET a == Head(work).space
         k == Head(work).what
         page == pt[a][k]
     IN
       /\ fault' = IF cap[page] THEN "none" ELSE "assert"
       /\ cap' = [cap EXCEPT ![page] = FALSE]
       /\ pid' = [pid EXCEPT ![page] = -1]
       /\ user_vaddr' = [user_vaddr EXCEPT ![page] = NONE]
       /\ next' = [next EXCEPT ![page] = next_free_page]
       /\ pt' = [pt EXCEPT ![a][k] = NONE]
       /\ frame_table_curr_size' = frame_table_curr_size - 1
       /\ work' = Tail(work)
  /\ UNCHANGED <<important, ref_bit, next_free_page, clock_curr, mapped, handled>>

\* frame_free(), and the page table entry it was called for.
frame_free ==
  /\ fault = "none" /\ work # <<>> /\ Head(work).op = "free"
  /\ LET a == Head(work).space
         k == Head(work).what
         page == pt[a][k]
     IN
       /\ fault' = IF cap[page] THEN "none" ELSE "assert"
       /\ cap' = [cap EXCEPT ![page] = FALSE]
       /\ pid' = [pid EXCEPT ![page] = -1]
       /\ user_vaddr' = [user_vaddr EXCEPT ![page] = NONE]
       /\ next' = [next EXCEPT ![page] = next_free_page]
       /\ next_free_page' = page
       /\ pt' = [pt EXCEPT ![a][k] = NONE]
       /\ frame_table_curr_size' = frame_table_curr_size - 1
       /\ work' = Tail(work)
  /\ UNCHANGED <<important, ref_bit, clock_curr, mapped, handled>>

-----------------------------------------------------------------------------
\* The handlers.  Each one starts when no other has work to do.
Start(todo) ==
  /\ Ready
  /\ handled < MaxHandled
  /\ handled' = handled + 1
  /\ work' = todo
  /\ UNCHANGED <<frames, lists, pt, fault>>

\* page_table_init(), called by as_create() for a new process.
page_table_init(a) ==
  /\ ~Exists(a)
  /\ Start(items("alloc", a, <<"page_table", "pgd">>))
  /\ UNCHANGED mapped

\* load_segment_into_vspace() for every segment of the program.
elf_load(a) ==
  /\ Exists(a)
  /\ pt[a]["seL4_pages"] = NONE
  /\ Start(items("alloc", a, Image))
  /\ UNCHANGED mapped

\* vm_fault() on a page that has no entry, or an invalid one.  Its other two
\* branches are for pages the clock has unmapped or the pager has written out.
vm_fault(a, v) ==
  /\ Exists(a)
  /\ pt[a]["seL4_pages"] # NONE
  /\ v \in Touched
  /\ pt[a][v] = NONE
  /\ Start(<<item("alloc", a, v)>>)
  /\ UNCHANGED mapped

\* Mutant of page_table_destroy: the tables are kept.
page_table_destroy_pages(a) ==
  /\ Exists(a)
  /\ Start(items("free", a, SelectSeq(Order, LAMBDA k : pt[a][k] # NONE /\ k \notin Node)))
  /\ UNCHANGED mapped

\* page_table_destroy(), called by proc_destroy().
page_table_destroy(a) ==
  /\ Exists(a)
  /\ Start(items("free", a, SelectSeq(Order, LAMBDA k : pt[a][k] # NONE)))
  /\ UNCHANGED mapped

\* sys_mmap() maps one page more than it was asked for.
sys_mmap ==
  /\ ~mapped
  /\ Start(items("alloc", KERNEL_PROC, Block))
  /\ mapped' = TRUE

\* sys_munmap() frees the pages its caller, free(), asked for.
sys_munmap ==
  /\ mapped
  /\ Start(items("free", KERNEL_PROC, SubSeq(Block, 1, Len(Block) - 1)))
  /\ mapped' = FALSE

Next ==
  \/ frame_alloc \/ frame_alloc_full \/ page_table_insert \/ frame_free
  \/ \E a \in Pid : page_table_init(a) \/ elf_load(a) \/ page_table_destroy(a)
  \/ \E a \in Pid, v \in VPage : vm_fault(a, v)
  \/ sys_mmap \/ sys_munmap

Spec == Init /\ [][Next]_vars

-----------------------------------------------------------------------------
\* Every variable has its type.
TypeOK ==
  /\ cap \in [Page -> BOOLEAN]
  /\ important \in [Page -> BOOLEAN]
  /\ ref_bit \in [Page -> BOOLEAN]
  /\ pid \in [Page -> Pid \cup {-1}]
  /\ user_vaddr \in [Page -> VPage \cup {NONE}]
  /\ next \in [Page -> Page]
  /\ next_free_page \in Page
  /\ frame_table_curr_size \in 0 .. frame_table_size
  /\ clock_curr \in Page
  /\ pt \in [Space -> [Held -> Page \cup {NONE}]]
  /\ mapped \in BOOLEAN
  /\ work \in Seq(Items)
  /\ handled \in 0 .. MaxHandled
  /\ fault \in {"none", "assert", "pageout"}

\* The free list, which has no end mark: the frames met in as many steps from
\* next_free_page as there are free frames are the free frames, each once.
FreeListExact ==
  LET free == frame_table_size - frame_table_curr_size
      chain[i \in 0 .. frame_table_size] ==
        IF i = 0 THEN next_free_page ELSE next[chain[i - 1]]
  IN  /\ {chain[i] : i \in 0 .. free - 1} = {p \in Page : ~cap[p]}
      /\ \A i, j \in 0 .. free - 1 : chain[i] = chain[j] => i = j


\* The frame table and the page tables agree between two handlers: a user
\* frame is in the page table of its process where the frame table says, so
\* that a victim of the clock is found again and no frame is lost when
\* processes come and go, and no page table has a frame unless its process
\* exists.
TablesAgree ==
  /\ TypeOK
  /\ Ready =>
       /\ \A p \in Page : cap[p] /\ ~important[p] =>
            pid[p] \in Pid /\ user_vaddr[p] \in VPage /\ pt[pid[p]][user_vaddr[p]] = p
       /\ \A a \in Pid, k \in Held : ~Exists(a) => pt[a][k] = NONE

=============================================================================
