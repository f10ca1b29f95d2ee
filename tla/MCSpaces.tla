------------------------------- MODULE MCSpaces ------------------------------
(* Three processes and an area for mmap() of eight pages, which holds      *)
(* three small programs but not three large ones.  One program lies where  *)
(* the heap is to be, and beyond the last address.                         *)
EXTENDS Spaces, TLC

Seg(v, n, m) == [vaddr |-> v, size |-> n, accmode |-> m]
SomePrograms == {
  [size |-> 2, segments |-> <<Seg(0, 3, "rx"), Seg(4, 2, "rw")>>],
  [size |-> 3, segments |-> <<Seg(30, 3, "rx"), Seg(26, 2, "rw")>>]}

AnyOrder == Permutations(Proc)
=============================================================================
