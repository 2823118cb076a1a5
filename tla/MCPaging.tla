------------------------------ MODULE MCPaging ------------------------------
(* Paging with tables of three entries: 27 virtual pages.  As in boot.S the *)
(* first page and the first page of the high branch, the last one of the    *)
(* PML4, are mapped to the same frame, and the middle of the PML4 is empty. *)
EXTENDS Paging

Table(a, b, c) == [e \in Index |-> CASE e = 0 -> a [] e = 1 -> b [] e = 2 -> c]

SmallBoot ==
    [t \in 0 .. 4 |->
        CASE t = 0 -> Table(1, EMPTY, 3)
          [] t = 1 -> Table(2, EMPTY, EMPTY)
          [] t = 2 -> Table(0, EMPTY, EMPTY)
          [] t = 3 -> Table(EMPTY, EMPTY, 4)
          [] t = 4 -> Table(0, EMPTY, EMPTY)]
=============================================================================
