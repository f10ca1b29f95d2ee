------------------------------- MODULE Regions -------------------------------
(***************************************************************************)
(* Regions: the list of regions of an address space                        *)
(* (vm/address_space.c), newest first.  A region reaches from vbase to     *)
(* vtop, the end included: a region of size bytes takes size + 1           *)
(* addresses.                                                              *)
(***************************************************************************)
EXTENDS Integers, Sequences

CONSTANT Word   \* one more than the largest address (2^64)

ASSUME WordAssumption == Word \in Nat \ {0}

Addr == 0 .. Word - 1
Region == [vbase : Addr, vtop : Addr, accmode : {"rw", "rx"}]

In(r, vaddr) == r.vbase <= vaddr /\ vaddr <= r.vtop

\* Mutant of Overlaps: a new region may wrap around an old one.
Overlaps_ends(new, r) == In(r, new.vbase) \/ In(r, new.vtop)

\* The tests of valid_new_region for one region of the list.
Overlaps(new, r) ==
  \/ In(r, new.vbase)
  \/ In(r, new.vtop)
  \/ new.vtop >= r.vtop /\ new.vbase <= r.vbase
  \/ new.vtop <= r.vtop /\ new.vbase >= r.vbase

valid_new_region(as, new) == \A i \in DOMAIN as : ~Overlaps(new, as[i])

\* as_seek_region: the place of the first region that holds vaddr, 0 for NULL.
as_seek_region(as, vaddr) ==
  IF \E i \in DOMAIN as : In(as[i], vaddr)
    THEN CHOOSE i \in DOMAIN as :
           In(as[i], vaddr) /\ \A j \in 1 .. i - 1 : ~In(as[j], vaddr)
    ELSE 0

\* Mutant of NewRegion: a word too short.
NewRegion_short(vbase, size, accmode) ==
  [vbase |-> vbase, vtop |-> (vbase + size - 2) % Word, accmode |-> accmode]

NewRegion(vbase, size, accmode) ==
  [vbase |-> vbase, vtop |-> (vbase + size) % Word, accmode |-> accmode]

\* as_define_region: the list afterwards, and whether it returns 0.
Definable(as, vbase, size) == valid_new_region(as, NewRegion(vbase, size, "rw"))
as_define_region(as, vbase, size, accmode) ==
  IF Definable(as, vbase, size) THEN <<NewRegion(vbase, size, accmode)>> \o as ELSE as

\* Mutant of as_destroy_region: the region next to the one that goes is lost.
as_destroy_region_next(as, vaddr) ==
  LET k == as_seek_region(as, vaddr)
  IN  IF k = 0 THEN as ELSE SubSeq(as, k + 1, Len(as))

\* as_destroy_region.  prev stays at the head of the list, so every region
\* between the head and the one that is found goes with it.
as_destroy_region(as, vaddr) ==
  LET k == as_seek_region(as, vaddr)
  IN  CASE k = 0 -> as
        [] k = 1 -> Tail(as)
        [] k > 1 -> <<as[1]>> \o SubSeq(as, k + 1, Len(as))

\* No address is in both.
Apart(r, s) == ~\E a \in Addr : In(r, a) /\ In(s, a)
AllApart(as) == \A i, j \in DOMAIN as : i # j => Apart(as[i], as[j])
=============================================================================
