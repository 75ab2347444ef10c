------------------------------- MODULE RangeList -------------------------------
(***************************************************************************)
(* The test driver's record of the payloads a trace holds: the range list  *)
(* of Memory_Allocator/mdriver.c, and the checks add_range makes of every  *)
(* address mm_malloc returns.  Addresses are numbers of bytes.             *)
(***************************************************************************)
EXTENDS Integers, FiniteSets

CONSTANTS PAGESIZE,     \* bytes of a page
          NPages,       \* bound: pages of memory, from page 1 on
          Sizes,        \* payload sizes, in bytes, of the traces' requests
          MaxLive       \* bound: payloads held at a time

ASSUME RangeAssumption ==
    /\ PAGESIZE \in Nat \ {0}
    /\ NPages \in Nat
    /\ Sizes \subseteq Nat \ {0}
    /\ MaxLive \in Nat

VARIABLE ranges         \* the range list; its order decides nothing

ALIGNMENT == 16

Page(a) == a \div PAGESIZE

AddressSpace == PAGESIZE .. PAGESIZE * (NPages + 1) - 1

AllPages == 1 .. NPages

range_t(lo, size) == [lo |-> lo, hi |-> lo + size - 1]

\* The overlap test of add_range: one end of the new payload inside an old one.
EndsInside(r, p) == \/ r.lo \in p.lo .. p.hi
                    \/ r.hi \in p.lo .. p.hi

\* The first, every PAGESIZE-th and the last byte lie on mapped pages.
Mapped(r, mapped) ==
    /\ \A i \in 0 .. (r.hi - r.lo) : (i % PAGESIZE = 0) => Page(r.lo + i) \in mapped
    /\ Page(r.hi) \in mapped

Accepts(rs, r, mapped) ==
    /\ r.lo % ALIGNMENT = 0
    /\ Mapped(r, mapped)
    /\ \A p \in rs : ~EndsInside(r, p)

remove_range(rs, lo) == {p \in rs : p.lo # lo}

\* What the checks are for.  They look at the ends of the new payload only, and let
\* one pass that encloses an old one.
Disjoint(rs) ==
    \A p, q \in rs : p # q => (p.lo .. p.hi) \cap (q.lo .. q.hi) = {}
=============================================================================
