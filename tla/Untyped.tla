------------------------------- MODULE Untyped -------------------------------
(***************************************************************************)
(* Untyped: the allocator of untyped memory (ut/ut.c) over the capability  *)
(* space of SOS, and what SOS does with the two: it makes objects of       *)
(* untyped memory (alloc_retype) and takes them apart again (frame_free,   *)
(* proc_destroy), saves reply capabilities while a system call is handled, *)
(* and creates and destroys the capability spaces of processes.            *)
(*                                                                         *)
(* Each of these runs to its end without yielding.                         *)
(***************************************************************************)
EXTENDS Cspace

CONSTANTS
  StructuresPerPage,  \* ut_t structures in a page
  MaxReplies,         \* bound on system calls being handled
  MaxSpaces           \* bound on process capability spaces

ASSUME UntypedAssumption ==
  /\ StructuresPerPage \in Nat /\ StructuresPerPage >= 2
  /\ MaxReplies \in Nat /\ MaxSpaces \in Nat

VARIABLES
  m,         \* the memory of Cspace
  objects,   \* what alloc_retype has made: untyped, slot and size
  replies,   \* the slots of reply capabilities
  spaces,    \* the process capability spaces: root_cnode and untyped
  rootless   \* cspace_create has gone on without a slot for root_cnode

vars == <<m, objects, replies, spaces, rootless>>

Size == 0 .. PageBits
Node == 0 .. NODE_INDEX(TOP_SLOTS - 1)
ReplyCap == [of |-> -NPages - 1, bits |-> 0]

\* The end of sos_bootstrap: slot 0 stays unused, the first bookkeeping frame
\* is in slot 1 and mapped at the first page, and the watermark is allocated.
RECURSIVE Watermark(_, _)
Watermark(b, i) ==
  LET got(s) == Watermark([s EXCEPT !.wm[i] = s.ret], i + 1)
  IN  IF i > MAPPING_SLOTS THEN b ELSE got(cspace_alloc_slot(b))

Bootstrapped ==
  [top |-> {}, bf |-> [c \in Cnode |-> IF c = 0 THEN {0, 1} ELSE {}],
   nodes |-> 1, ncn |-> [n \in Node |-> IF n = 0 THEN 1 ELSE 0],
   wm |-> [i \in 0 .. MAPPING_SLOTS |-> 0], used |-> {},
   cap |-> [c \in CPtr |-> IF c = 1 THEN [of |-> -1, bits |-> PageBits] ELSE NoCap],
   root |-> [c \in Cnode |-> 0],
   list |-> [s \in Size |-> IF s = PageBits THEN Untyped4K \ {-1} ELSE {}],
   structures |-> 0, vaddr |-> 1, tables |-> {<<l, 0>> : l \in 1 .. MAPPING_SLOTS}, mapped |-> {0},
   ret |-> 0, ok |-> TRUE, dead |-> "no"]

Init ==
  /\ m = Watermark(Bootstrapped, 0)
  /\ objects = {}
  /\ replies = {}
  /\ spaces = {}
  /\ rootless = FALSE

-----------------------------------------------------------------------------
\* map_frame_impl with slots of the capability space (map_frame).
RECURSIVE map_frame(_, _, _)
map_frame(b, page, i) ==
  LET missing == Missing(b, page)
      again(r) == IF r.ok THEN map_frame(r, page, i + 1) ELSE r
      slot(ut, s) == IF s.ret = 0 THEN [s EXCEPT !.ok = FALSE]
                     ELSE again(retype_map(s, ut, s.ret, Max(missing), page))
      got(a) == IF a.ret = 0 THEN [a EXCEPT !.ok = FALSE] ELSE slot(a.ret, cspace_alloc_slot(a))
  IN  IF missing = {} THEN Page_Map(b, page)
      ELSE IF i = MAPPING_SLOTS THEN [b EXCEPT !.ok = FALSE]
      ELSE got(ut_alloc_4k_untyped(b))

\* Mutant of alloc_vaddr: the page after the one that was mapped.
alloc_vaddr_next(r) ==
  IF r.ok THEN [r EXCEPT !.vaddr = @ + 1, !.ret = r.vaddr + 1] ELSE [r EXCEPT !.ret = 0]

\* The page bootstrap_map_frame says the frame is at, 0 for NULL.
alloc_vaddr(r) ==
  IF r.ok THEN [r EXCEPT !.vaddr = @ + 1, !.ret = r.vaddr] ELSE [r EXCEPT !.ret = 0]

bootstrap_map_frame(b) == alloc_vaddr(map_frame(b, b.vaddr, 0))

\* It takes two structures to split an untyped.
Spare(b) == b.structures >= 2

\* A page of new structures that is not where bootstrap_map_frame says would
\* stop SOS.
ensure_new_structures(b) ==
  LET mapped(p) == IF p.ret = 0 THEN [p EXCEPT !.ok = FALSE]
                   ELSE IF p.ret \notin p.mapped THEN [p EXCEPT !.dead = "stray", !.ok = FALSE]
                   ELSE [p EXCEPT !.structures = @ + StructuresPerPage]
      retyped(t) == IF t.ok THEN mapped(bootstrap_map_frame(t)) ELSE t
      slot(ut, s) == IF s.ret = 0 THEN [s EXCEPT !.ok = FALSE]
                     ELSE retyped(cspace_untyped_retype(s, ut, s.ret, PageBits))
      got(a) == IF a.ret = 0 THEN [a EXCEPT !.ok = FALSE] ELSE slot(a.ret, cspace_alloc_slot(a))
  IN  IF Spare(b) THEN [b EXCEPT !.ok = TRUE] ELSE got(ut_alloc_4k_untyped(b))

\* The part of ut_alloc that splits an untyped one size larger in two.
split(b, larger, bits) ==
  LET give_back(x) == [ut_free(x, larger, PageBits) EXCEPT !.ok = FALSE]
      free_both(x, c1, c2) == cspace_free_slot(cspace_free_slot(x, c1), c2)
      retyped2(t, c1, c2) ==
        IF t.ok THEN [t EXCEPT !.list[bits] = @ \cup {c1, c2}]
        ELSE give_back([free_both(cspace_delete(t, c1), c1, c2) EXCEPT !.structures = @ + 2])
      retyped1(t, c1, c2) ==
        IF t.ok THEN retyped2(cspace_untyped_retype(t, larger, c2, bits), c1, c2)
        ELSE give_back([free_both(t, c1, c2) EXCEPT !.structures = @ + 1])
      slot2(s, c1) ==
        IF s.ret = 0 THEN give_back(cspace_free_slot(s, c1))
        ELSE retyped1(cspace_untyped_retype(s, larger, c1, bits), c1, s.ret)
      slot1(s) ==
        IF s.ret = 0 THEN give_back(s)
        ELSE slot2(cspace_alloc_slot([s EXCEPT !.structures = @ - 1]), s.ret)
      ensured(e) ==
        IF e.ok THEN slot1(cspace_alloc_slot([e EXCEPT !.structures = @ - 1])) ELSE give_back(e)
  IN  ensured(ensure_new_structures(b))

RECURSIVE ut_alloc(_, _)
ut_alloc(b, bits) ==
  LET done(s) == IF s.ok THEN pop(s, bits) ELSE [s EXCEPT !.ret = 0]
      got(larger) == IF larger.ret = 0 THEN larger ELSE done(split(larger, larger.ret, bits))
  IN  IF bits = PageBits THEN ut_alloc_4k_untyped(b)
      ELSE IF b.list[bits] # {} THEN pop(b, bits)
      ELSE got(ut_alloc(b, bits + 1))

-----------------------------------------------------------------------------
\* The memory after a call, without what is local to it.
Done(b) == m' = [b EXCEPT !.ret = 0, !.ok = TRUE, !.used = {}]
Running == m.dead = "no"

alloc_retype(bits) ==
  LET retyped(t, ut, c) ==
        IF t.ok THEN Done(t) /\ objects' = objects \cup {[ut |-> ut, slot |-> c, bits |-> bits]}
        ELSE Done(cspace_free_slot(ut_free(t, ut, bits), c)) /\ UNCHANGED objects
      slot(s, ut) ==
        IF s.ret = 0 THEN Done(ut_free(s, ut, bits)) /\ UNCHANGED objects
        ELSE retyped(cspace_untyped_retype(s, ut, s.ret, bits), ut, s.ret)
      got(u) ==
        IF u.ret = 0 THEN Done(u) /\ UNCHANGED objects ELSE slot(cspace_alloc_slot(u), u.ret)
  IN  Running /\ got(ut_alloc(m, bits)) /\ UNCHANGED <<replies, spaces, rootless>>


\* An object goes as in frame_free and page_table_destroy.
release(o) ==
  /\ Running
  /\ Done(ut_free(cspace_free_slot(cspace_delete(m, o.slot), o.slot), o.ut, o.bits))
  /\ objects' = objects \ {o}
  /\ UNCHANGED <<replies, spaces, rootless>>

\* handle_syscall saves the reply capability of its caller, and panics when
\* the kernel refuses to put it in the slot.
handle_syscall ==
  LET saved(s) ==
        IF s.dead # "no" THEN Done(s) /\ UNCHANGED replies
        ELSE IF s.cap[s.ret] # NoCap THEN Done([s EXCEPT !.dead = "panic"]) /\ UNCHANGED replies
        ELSE Done([s EXCEPT !.cap[s.ret] = ReplyCap]) /\ replies' = replies \cup {s.ret}
  IN  /\ Running
      /\ Cardinality(replies) < MaxReplies
      /\ saved(cspace_alloc_slot(m))
      /\ UNCHANGED <<objects, spaces, rootless>>

\* Its end: sending the answer uses the capability up.
reply(c) ==
  /\ Running
  /\ Done(cspace_free_slot(cspace_delete(m, c), c))
  /\ replies' = replies \ {c}
  /\ UNCHANGED <<objects, spaces, rootless>>

\* What cspace_destroy does to the memory: slot 0 counts as no root_cnode.
Destroyed(b, root, ut) ==
  ut_free(IF root = 0 THEN b ELSE cspace_free_slot(cspace_delete(b, root), root), ut, PageBits)

\* cspace_create_one_level.  It looks for the failure of its second
\* cspace_alloc_slot in the wrong capability space, so it does not see it, and
\* has the capability minted into slot 0 if that is empty.
cspace_create ==
  LET minted(s, tmp, ut) ==
        IF s.dead # "no" THEN Done(s) /\ UNCHANGED <<spaces, rootless>>
        ELSE /\ rootless' = (rootless \/ s.ret = 0)
             /\ IF s.cap[s.ret] # NoCap THEN Done(Destroyed(s, s.ret, ut)) /\ UNCHANGED spaces
                ELSE /\ Done(cspace_free_slot(cspace_delete(
                               [s EXCEPT !.cap[s.ret] = [of |-> ut, bits |-> PageBits]], tmp), tmp))
                     /\ spaces' = spaces \cup {[root |-> s.ret, ut |-> ut]}
      retyped(h, tmp) ==
        IF h.ret = 0 THEN Done(h) /\ UNCHANGED <<spaces, rootless>>
        ELSE minted(cspace_alloc_slot(h), tmp, h.ret)
      got(t) ==
        IF t.ret = 0 THEN Done(t) /\ UNCHANGED <<spaces, rootless>>
        ELSE retyped(retype_helper(t, t.ret), t.ret)
  IN  /\ Running
      /\ Cardinality(spaces) < MaxSpaces
      /\ got(cspace_alloc_slot(m))
      /\ UNCHANGED <<objects, replies>>

cspace_destroy(sp) ==
  /\ Running
  /\ Done(Destroyed(m, sp.root, sp.ut))
  /\ spaces' = spaces \ {sp}
  /\ UNCHANGED <<objects, replies, rootless>>

Next ==
  \/ \E bits \in Size : alloc_retype(bits)
  \/ \E o \in objects : release(o)
  \/ handle_syscall
  \/ \E c \in replies : reply(c)
  \/ cspace_create
  \/ \E sp \in spaces : cspace_destroy(sp)

Spec == Init /\ [][Next]_vars

-----------------------------------------------------------------------------
Exists(c) == m.nodes > NODE_INDEX(c) /\ m.ncn[NODE_INDEX(c)] > CNODE_INDEX(c)
Taken(cptr) == BOT_LVL_INDEX(cptr) \in m.bf[TOP_LVL_INDEX(cptr)]
FreeUntypeds == UNION {m.list[s] : s \in Size}

\* Every variable has its type, and the lists and caps name what exists.
TypeOK ==
  /\ m.top \subseteq Cnode
  /\ m.bf \in [Cnode -> SUBSET (0 .. CNODE_SLOTS - 1)]
  /\ m.nodes \in 1 .. Cardinality(Node)
  /\ m.ncn \in [Node -> 0 .. BOT_LVL_PER_NODE]
  /\ m.wm \in [0 .. MAPPING_SLOTS -> CPtr]
  /\ m.list \in [Size -> SUBSET (Untyped4K \cup CPtr)]
  /\ m.structures \in Nat
  /\ m.dead \in {"no", "null", "panic", "stray", "loop"}

\* The slots cspace_alloc_slot has given out and nobody has given back, by
\* owner: objects, reply capabilities, capability spaces, the watermark that
\* is left, and small untypeds.
Owners ==
  <<{o.slot : o \in objects},
    replies,
    {sp.root : sp \in spaces},
    {m.wm[i] : i \in {j \in DOMAIN m.wm : m.cap[m.wm[j]] = NoCap}},
    {u \in FreeUntypeds \cup {o.ut : o \in objects} : u > 0}>>

\* cspace_alloc_slot never gives a slot to two owners: what is owned is marked
\* in the bit fields, whatever was freed, refilled or failed in between.
SlotsApart ==
  /\ \A i \in DOMAIN Owners : \A c \in Owners[i] \ {0} : Taken(c)
  /\ \A i, j \in DOMAIN Owners : i # j => Owners[i] \cap Owners[j] \subseteq {0}
  /\ \A o, p \in objects : o # p => o.slot # p.slot


\* bootstrap_map_frame returns the page it has mapped, although the slot for a
\* paging structure may have cost another frame at next_free_vaddr meanwhile.
StructuresMapped == m.dead # "stray"

\* An untyped the allocator has free is in one list and not in use: nothing
\* made of it is left, or the kernel would refuse to make the next object of
\* it.  The exception is a cspace_create that found no slot for root_cnode:
\* what it made stays where cspace_destroy does not look.
FreeUnused ==
  /\ m.dead # "loop"
  /\ \A s, t \in Size : s # t => m.list[s] \cap m.list[t] = {}
  /\ \A u \in FreeUntypeds :
       /\ ~rootless => Children(m, u) = {}
       /\ \A c \in Cnode : m.root[c] # u
       /\ \A o \in objects : o.ut # u
=============================================================================
