------------------------------- MODULE Cspace --------------------------------
(***************************************************************************)
(* Cspace: the two-level capability space of SOS (libsel4cspace) and the   *)
(* mapping of the frames it keeps its own records in (mapping.c,           *)
(* bootstrap.c).                                                           *)
(*                                                                         *)
(* The functions of the C code call each other, so they are operators on   *)
(* the memory m they share, a record with                                  *)
(*   top     the set bits of top_bf: the cnodes that are full              *)
(*   bf      of each cnode, its set bits: the slots that are taken         *)
(*   nodes   n_bot_lvl_nodes; ncn: of each of them, n_cnodes               *)
(*   wm      the watermark; used: the part of it a call has used           *)
(*   cap     of each slot, the capability in it, as the kernel sees it     *)
(*   root    of each cnode, the untyped it was made of, 0 for none         *)
(*   list    of each size, the free untypeds, whose order is left out      *)
(*   structures  the number of spare ut_t                                  *)
(*   vaddr   bootstrap_data.next_free_vaddr, in pages                      *)
(*   tables  the paging structures of SOS; mapped: its mapped pages        *)
(*   ret     what the last call returned: a cptr, an untyped, 0 for NULL   *)
(*   ok      whether the last seL4 operation or helper succeeded           *)
(*   dead    what has stopped SOS, "no" while it runs                       *)
(***************************************************************************)
EXTENDS Integers, Sequences, FiniteSets, FiniteSetsExt, TLC

CONSTANTS
  CNODE_SLOTS,       \* slots of a bottom level cnode
  BOT_LVL_PER_NODE,  \* cnodes one bookkeeping frame describes
  TOP_SLOTS,         \* slots of the top level cnode
  MAPPING_SLOTS,     \* levels of paging structures above a page
  TableEntries,      \* entries of a paging structure
  PageBits,          \* size of a 4K page; 0 is the smallest size (seL4_EndpointBits)
  NPages             \* 4K untypeds

ASSUME CspaceAssumption ==
  /\ CNODE_SLOTS \in Nat /\ CNODE_SLOTS > 1
  /\ {BOT_LVL_PER_NODE, TOP_SLOTS, MAPPING_SLOTS, TableEntries, PageBits, NPages} \subseteq Nat \ {0}

Cnode == 0 .. TOP_SLOTS - 1
CPtr == 0 .. TOP_SLOTS * CNODE_SLOTS - 1
NODE_INDEX(cnode) == cnode \div BOT_LVL_PER_NODE
CNODE_INDEX(cnode) == cnode % BOT_LVL_PER_NODE
TOP_LVL_INDEX(cptr) == cptr \div CNODE_SLOTS
BOT_LVL_INDEX(cptr) == cptr % CNODE_SLOTS

\* An untyped is known by its capability: that of a small one is in a slot of
\* the model, those of the 4K ones are in slots bootstrap has filled.
Untyped4K == -NPages .. -1
SizeOf(m, ut) == IF ut < 0 THEN PageBits ELSE m.cap[ut].bits

\* A capability: the untyped it was made from and its size.
NoCap == [of |-> 0, bits |-> 0]

bf_first_free(n, bits) == Min({i \in 0 .. n : i \notin bits})

-----------------------------------------------------------------------------
\* seL4_Untyped_Retype into a slot: the kernel wants the slot empty and room
\* in the untyped, which it has whole again when nothing made of it is left.
Children(m, ut) == {c \in CPtr : m.cap[c].of = ut}
Room(m, ut) ==
  IF \E c \in Cnode : m.root[c] = ut THEN 0
  ELSE 2 ^ SizeOf(m, ut) - MapThenSumSet(LAMBDA c : 2 ^ m.cap[c].bits, Children(m, ut))

cspace_untyped_retype(m, ut, target, bits) ==
  IF m.cap[target] = NoCap /\ Room(m, ut) >= 2 ^ bits
    THEN [m EXCEPT !.cap[target] = [of |-> ut, bits |-> bits], !.ok = TRUE]
    ELSE [m EXCEPT !.ok = FALSE]

cspace_delete(m, cptr) == [m EXCEPT !.cap[cptr] = NoCap]

\* pop, ut_alloc_4k_untyped and ut_free, of ut.c.
pop(m, bits) ==
  LET ut == Max(m.list[bits]) IN [m EXCEPT !.ret = ut, !.list[bits] = @ \ {ut}]

ut_alloc_4k_untyped(m) ==
  IF m.list[PageBits] = {} THEN [m EXCEPT !.ret = 0] ELSE pop(m, PageBits)

\* An untyped pushed twice would be its own successor in the list.
ut_free(m, ut, bits) ==
  [m EXCEPT !.list[bits] = @ \cup {ut}, !.dead = IF ut \in m.list[bits] THEN "loop" ELSE @]

\* bootstrap_cspace_alloc_4k_ut reads the capability of what it got, NULL or not.
alloc_4k_untyped(m) ==
  LET got(a) == IF a.ret = 0 THEN [a EXCEPT !.dead = "null"] ELSE a
  IN  got(ut_alloc_4k_untyped(m))

retype_helper(m, cptr) ==
  LET retyped(a, r) == IF a.ret = 0 THEN a
                       ELSE IF r.ok THEN r
                       ELSE [ut_free(r, a.ret, PageBits) EXCEPT !.ret = 0]
      got(a) == retyped(a, cspace_untyped_retype(a, a.ret, cptr, PageBits))
  IN  got(alloc_4k_untyped(m))

-----------------------------------------------------------------------------
\* The paging structures a page of SOS still lacks, the highest level first.
Missing(m, page) ==
  {l \in 1 .. MAPPING_SLOTS : <<l, page \div TableEntries ^ l>> \notin m.tables}

\* seL4_ARM_Page_Map of a frame, when no paging structure is missing.
Page_Map(m, page) ==
  IF page \in m.mapped THEN [m EXCEPT !.ok = FALSE]
                       ELSE [m EXCEPT !.mapped = @ \cup {page}, !.ok = TRUE]

\* retype_map_pt, retype_map_pd and retype_map_pud.
retype_map(m, ut, slot, level, page) ==
  LET table == <<level, page \div TableEntries ^ level>>
      retyped(r) == IF r.ok /\ table \notin r.tables
                      THEN [r EXCEPT !.tables = @ \cup {table}]
                      ELSE [r EXCEPT !.ok = FALSE]
  IN  retyped(cspace_untyped_retype(m, ut, slot, PageBits))

\* map_frame_impl with slots of the watermark, from the i-th turn of its loop.
RECURSIVE map_frame_cspace(_, _, _)
map_frame_cspace(m, page, i) ==
  LET missing == Missing(m, page)
      again(r) == IF r.ok THEN map_frame_cspace(r, page, i + 1) ELSE r
      use(u) == IF m.wm[i] = 0 THEN [u EXCEPT !.ok = FALSE]
                ELSE again(retype_map(u, u.ret, m.wm[i], Max(missing), page))
      got(a) == IF a.ret = 0 THEN [a EXCEPT !.ok = FALSE]
                ELSE use([a EXCEPT !.used = @ \cup {i}])
  IN  IF missing = {} THEN Page_Map(m, page)
      ELSE IF i = MAPPING_SLOTS THEN [m EXCEPT !.ok = FALSE]
      ELSE got(ut_alloc_4k_untyped(m))

\* bootstrap_cspace_map_frame with alloc_vaddr.
bootstrap_cspace_map_frame(m) ==
  LET mapped(r) == IF r.ok THEN [r EXCEPT !.vaddr = @ + 1] ELSE r
  IN  mapped(map_frame_cspace(m, m.vaddr, 0))

-----------------------------------------------------------------------------
\* Mutant of NodeMapped: the frame stays when it could not be mapped.
NodeMapped_kept(p, node, ut, frame) ==
  IF p.ok THEN [p EXCEPT !.nodes = @ + 1, !.ncn[node] = 0] ELSE ut_free(p, ut, PageBits)

\* ensure_levels once map_frame has returned, and init_bot_lvl_node.
NodeMapped(p, node, ut, frame) ==
  IF p.ok THEN [p EXCEPT !.nodes = @ + 1, !.ncn[node] = 0]
  ELSE ut_free([cspace_delete(p, frame) EXCEPT !.used = @ \ {MAPPING_SLOTS}], ut, PageBits)

\* The first half of ensure_levels: the frame that describes the cnode.
EnsureNode(m, node) ==
  LET frame == m.wm[MAPPING_SLOTS]
      retyped(t) == IF t.ret = 0 THEN [t EXCEPT !.ok = FALSE]
                    ELSE NodeMapped(bootstrap_cspace_map_frame(t), node, t.ret, frame)
  IN  IF m.nodes > node THEN [m EXCEPT !.ok = TRUE]
      ELSE retyped(retype_helper([m EXCEPT !.used = @ \cup {MAPPING_SLOTS}], frame))

\* The second half: the cnode itself, made of the untyped a.ret.
CnodeMade(a, cnode) ==
  IF a.ret = 0 THEN [a EXCEPT !.ok = FALSE]
  ELSE IF a.root[cnode] # 0 \/ Room(a, a.ret) < 2 ^ PageBits
    THEN [ut_free(a, a.ret, PageBits) EXCEPT !.ok = FALSE]
  ELSE [a EXCEPT !.root[cnode] = a.ret, !.ncn[NODE_INDEX(cnode)] = @ + 1]

ensure_levels(m, cnode) ==
  LET node(n) == IF ~n.ok \/ n.ncn[NODE_INDEX(cnode)] > CNODE_INDEX(cnode) THEN n
                 ELSE CnodeMade(alloc_4k_untyped(n), cnode)
  IN  node(EnsureNode(m, NODE_INDEX(cnode)))

\* Taking the first free slot of a cnode.  The cnode counts as full when only
\* its last slot is left.
Full(bits) == bf_first_free(CNODE_SLOTS, bits) >= CNODE_SLOTS - 1
TakeSlot(m, cnode) ==
  LET bot == bf_first_free(CNODE_SLOTS, m.bf[cnode])
      bits == m.bf[cnode] \cup {bot}
  IN  [m EXCEPT !.bf[cnode] = bits,
                !.top = IF Full(bits) THEN @ \cup {cnode} ELSE @,
                !.ret = cnode * CNODE_SLOTS + bot]

\* cspace_alloc_slot with refill_watermark, which stops at the first slot.
RECURSIVE cspace_alloc_slot(_)
cspace_alloc_slot(m) ==
  LET cnode == bf_first_free(TOP_SLOTS, m.top)
      refilled(t, i, w) == [w EXCEPT !.wm[i] = w.ret, !.ret = t.ret]
      taken(t) == IF t.used = {} THEN t ELSE refilled(t, Min(t.used), cspace_alloc_slot(t))
      ensured(e) == IF e.ok THEN taken(TakeSlot(e, cnode)) ELSE [e EXCEPT !.ret = 0]
  IN  IF m.dead # "no" \/ cnode >= TOP_SLOTS THEN [m EXCEPT !.ret = 0]
      ELSE ensured(ensure_levels([m EXCEPT !.used = {}], cnode))

\* Mutant of cspace_free_slot: the bit is cleared in the wrong bit field.
cspace_free_slot_node(m, cptr) ==
  LET cnode == TOP_LVL_INDEX(cptr)
  IN  IF cptr = 0 THEN m
      ELSE [m EXCEPT !.top = @ \ {cnode}, !.bf[CNODE_INDEX(cnode)] = @ \ {BOT_LVL_INDEX(cptr)}]

cspace_free_slot(m, cptr) ==
  LET cnode == TOP_LVL_INDEX(cptr)
      node == NODE_INDEX(cnode)
      known == m.nodes > node /\ m.ncn[node] > CNODE_INDEX(cnode)
  IN  IF cptr = 0 THEN m
      ELSE [m EXCEPT !.top = @ \ {cnode},
                     !.bf[cnode] = IF known THEN @ \ {BOT_LVL_INDEX(cptr)} ELSE @]
=============================================================================
