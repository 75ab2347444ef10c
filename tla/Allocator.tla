------------------------------- MODULE Allocator -------------------------------
(***************************************************************************)
(* What mm_malloc and mm_free promise their client: every payload lies on  *)
(* mapped pages, on an aligned address, apart from every other payload,    *)
(* and stays so until it is freed.  How free space is found, split and     *)
(* joined is Heap's business; Heap is shown to implement this module.      *)
(***************************************************************************)
EXTENDS RangeList

VARIABLE mapped         \* pages the allocator holds

vars == <<ranges, mapped>>

Covered(rs, pages) == \A p \in rs : \A a \in p.lo .. p.hi : Page(a) \in pages

Bytes(r) == r.lo .. r.hi

\* An aligned place for a payload, apart from every payload held.
Place(r) ==
    /\ r.lo % ALIGNMENT = 0 /\ r.lo \in AddressSpace
    /\ r.hi - r.lo + 1 \in Sizes
    /\ \A p \in ranges : Bytes(p) \cap Bytes(r) = {}

Init == ranges = {} /\ mapped \in SUBSET AllPages

Malloc == \E r \in ranges' :
    /\ Place(r)
    /\ ranges' = ranges \cup {r}
    /\ mapped' \in SUBSET AllPages /\ mapped \subseteq mapped'
    /\ Covered(ranges', mapped')

\* The driver's realloc: a new payload first, then the old one is freed.
Realloc == \E r \in ranges', old \in ranges :
    /\ Place(r)
    /\ ranges' = (ranges \cup {r}) \ {old}
    /\ mapped' \in SUBSET AllPages
    /\ Covered(ranges', mapped')

Free == \E old \in ranges :
    /\ ranges' = ranges \ {old}
    /\ mapped' \in SUBSET AllPages /\ mapped' \subseteq mapped
    /\ Covered(ranges', mapped')

\* The end of a trace: mem_reset, and mm_init for the next one.
Restart == ranges' = {} /\ mapped' \in SUBSET AllPages

Next == Malloc \/ Realloc \/ Free \/ Restart

Spec == Init /\ [][Next]_vars
-----------------------------------------------------------------------------
\* No two payloads share a byte.
PayloadsDisjoint == Disjoint(ranges)

\* No payload lies on a page that has been given back.
PayloadsMapped == Covered(ranges, mapped)
=============================================================================
