-------------------------------- MODULE MCVm --------------------------------
(* Two processes whose programs have one page and that touch one more, in   *)
(* two page tables of one directory; mmap() hands out a block of two pages. *)
EXTENDS Vm, TLC

TwoPids == {1, 2}
VPages == {"text", "heap", "m1", "m2"}
Nodes == {"pd", "pt1", "pt2"}
PathOf == [v \in VPages |-> <<"pd", IF v = "heap" THEN "pt2" ELSE "pt1">>]
DestroyOrder == <<"text", "m1", "m2", "pt1", "heap", "pt2", "pd",
                  "seL4_pages", "pgd", "page_table">>
Program == <<"text">>
HeapPage == {"heap"}
MmapBlock == <<"m1", "m2">>
=============================================================================
