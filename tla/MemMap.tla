------------------------------- MODULE MemMap -------------------------------
(***************************************************************************)
(* The map of free storage: src/src/librt/memalloc.c.                      *)
(*                                                                         *)
(* The list of struct mem_map is kept in the order of its addresses, and   *)
(* every walk along it looks for a neighbour in that order: it is          *)
(* represented by the set of its extents.                                  *)
(***************************************************************************)
EXTENDS Integers

Extent == [addr : Nat, size : Nat \ {0}]

After(e) == e.addr + e.size

(* The elements on both sides of addr, such that (prevp)<(addr)<(curp):    *)
(* sets of at most one element.                                            *)
Prev(map, addr) ==
    {e \in map : e.addr <= addr /\ \A f \in map : f.addr <= addr => f.addr <= e.addr}

Curr(map, addr) ==
    {e \in map : addr < e.addr /\ \A f \in map : addr < f.addr => e.addr <= f.addr}

(* M_BOVFL, M_TOVFL: what is freed is free already, in part.               *)
Overflow(map, size, addr) ==
    \/ \E e \in Prev(map, addr) : After(e) > addr
    \/ \E e \in Curr(map, addr) : addr + size > e.addr

BugMerge(below, above, size, addr) ==   \* M_BMTCH is looked at first, and alone
    IF below # {}
    THEN {[e EXCEPT !.size = @ + size] : e \in below} \cup above
    ELSE IF above # {} THEN {[addr |-> addr, size |-> size + e.size] : e \in above}
         ELSE {[addr |-> addr, size |-> size]}

(* What becomes of the neighbours that touch the extent, if any.           *)
Merge(below, above, size, addr) ==
    CASE below # {} /\ above # {} ->
            {[addr |-> b.addr, size |-> b.size + size + a.size] : b \in below, a \in above}
      [] below # {} /\ above = {} -> {[b EXCEPT !.size = @ + size] : b \in below}
      [] below = {} /\ above # {} -> {[addr |-> addr, size |-> size + a.size] : a \in above}
      [] OTHER -> {[addr |-> addr, size |-> size]}

rt_memfree(map, size, addr) ==
    IF size = 0 \/ Overflow(map, size, addr)
    THEN map
    ELSE LET below == {e \in Prev(map, addr) : After(e) = addr}
             above == {e \in Curr(map, addr) : addr + size = e.addr}
         IN  (map \ (below \cup above)) \cup Merge(below, above, size, addr)

(* rt_memalloc_nosplit: the smallest extent that is large enough, the      *)
(* first of its size, unsplit.  A set of at most one element, which the    *)
(* caller takes off the map.                                               *)
BestFit(map, size) ==
    {e \in map : /\ size <= e.size
                 /\ \A f \in map : size <= f.size =>
                        e.size < f.size \/ (e.size = f.size /\ e.addr <= f.addr)}

(* No extents overlap, and none touch.                                     *)
Apart(map) ==
    \A e, f \in map : e = f \/ After(e) < f.addr \/ After(f) < e.addr
=============================================================================
