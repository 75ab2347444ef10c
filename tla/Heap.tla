---------------------------------- MODULE Heap ----------------------------------
(***************************************************************************)
(* The allocator of Memory_Allocator/mm.c, word by word, over the pages of *)
(* memlib.c, driven by the traces of mdriver.c.                            *)
(*                                                                         *)
(* Memory is a function from the addresses of 8-byte words to their        *)
(* values; what the inside of a free block and a page fresh from the       *)
(* kernel hold is not in it, for nobody reads it.  A block is named by the *)
(* address bp of its payload: its header is the word before bp, its footer *)
(* the last but one word of its size, and while it is free its payload     *)
(* starts with the links of the explicit free list.  Sizes and addresses   *)
(* are size_t: they wrap at SIZE_MOD.                                      *)
(* PAGESIZE, HOMEPG_MULTIPLE and MULTIPLE are 4096, 5 and 51 in the code.  *)
(***************************************************************************)
EXTENDS RangeList, Sequences

CONSTANTS MULTIPLE, HOMEPG_MULTIPLE, \* pages of an extension and of the first chunk
          SIZE_MOD                   \* 2^64: one more than the largest size_t

ASSUME HeapAssumption ==
    /\ MULTIPLE \in Nat \ {0, 1} /\ HOMEPG_MULTIPLE \in Nat \ {0} /\ SIZE_MOD \in Nat
    /\ PAGESIZE % ALIGNMENT = 0 /\ SIZE_MOD % PAGESIZE = 0
    /\ PAGESIZE * (NPages + 1) < SIZE_MOD
    /\ PAGESIZE * HOMEPG_MULTIPLE >= 64    \* PAGE_OVERHEAD and the smallest block

VARIABLES heap,         \* [mem, mapped, home_pg, free_start]
          status        \* "ok", or what the driver reported

NULL == 0
BYTE == 8
OVERHEAD == 16
PAGE_OVERHEAD == 32
GARBAGE == 1            \* a word whose value nobody may rely on
FILL == 17              \* what the driver's memset leaves in a word; here it
                        \* looks like PACK(OVERHEAD, 1), the word of a prologue

\* F(e).  TLC evaluates the argument of an operator anew wherever it is used,
\* a bound variable once.
With(e, F(_)) == CHOOSE r \in {F(x) : x \in {e}} : TRUE

GET(h, a) == IF a \in DOMAIN h.mem THEN h.mem[a] ELSE GARBAGE
PUT(h, a, val) ==
    [h EXCEPT !.mem = [x \in DOMAIN @ \cup {a} |-> IF x = a THEN val ELSE @[x]]]

WordsOf(pages) == {pg * PAGESIZE + BYTE * i : pg \in pages, i \in 0 .. (PAGESIZE \div BYTE) - 1}

\* A write outside of the mapped pages kills the process.
Segv(h) == ~(DOMAIN h.mem \subseteq WordsOf(h.mapped))

PACK(size, alloc) == size + alloc

Wrap(n) == n % SIZE_MOD

HDRP(bp) == Wrap(bp - BYTE)
GET_SIZE(h, a) == GET(h, a) - (GET(h, a) % ALIGNMENT)
GET_ALLOC(h, a) == GET(h, a) % 2
Size(h, bp) == GET_SIZE(h, HDRP(bp))
FTRP(h, bp) == Wrap(bp + Size(h, bp) - OVERHEAD)
NEXT(h, bp) == Wrap(bp + Size(h, bp))
PREV(h, bp) == Wrap(bp - GET_SIZE(h, Wrap(bp - OVERHEAD)))

\* Header and footer of a block, the footer where the new size has it.
Mark(h, bp, size, alloc) ==
    PUT(PUT(h, HDRP(bp), PACK(size, alloc)), Wrap(bp + size - OVERHEAD), PACK(size, alloc))

ALIGN(n) == LET m == Wrap(n + ALIGNMENT - 1) IN m - (m % ALIGNMENT)
PAGE_ALIGN(n) == LET m == Wrap(n + PAGESIZE - 1) IN m - (m % PAGESIZE)

-----------------------------------------------------------------------------
(* The free list: struct free_list is two words, prev and next.            *)

prev(bp) == bp
next(bp) == bp + BYTE

push_free(h, bp) ==
    LET linked == PUT(PUT([h EXCEPT !.free_start = bp], prev(bp), NULL), next(bp), h.free_start)
    IN  IF h.free_start = NULL THEN linked ELSE PUT(linked, prev(h.free_start), bp)

\* Mutant of pop_free: a block in the middle is unlinked one way only.
pop_free_halfway(h, bp) ==
    LET p == GET(h, prev(bp))
        n == GET(h, next(bp))
    IN  CASE p # NULL -> PUT(h, next(p), n)
          [] p = NULL /\ n # NULL -> PUT([h EXCEPT !.free_start = n], prev(n), NULL)
          [] OTHER -> [h EXCEPT !.free_start = NULL]

pop_free(h, bp) ==
    LET p == GET(h, prev(bp))
        n == GET(h, next(bp))
    IN  CASE p # NULL /\ n # NULL -> PUT(PUT(h, next(p), n), prev(n), p)
          [] p # NULL /\ n = NULL -> PUT(h, next(p), NULL)
          [] p = NULL /\ n # NULL -> PUT([h EXCEPT !.free_start = n], prev(n), NULL)
          [] OTHER -> PUT(PUT([h EXCEPT !.free_start = NULL],
                              prev(h.free_start), NULL), next(h.free_start), NULL)

\* No list of blocks is longer: their addresses differ.
MaxBlocks == PAGESIZE * (NPages + 1)

\* The blocks on the list, in its order.
FreeList(h) ==
    LET from[n \in 0 .. MaxBlocks] == [bp \in Nat |->
            IF bp = NULL \/ n = 0 THEN <<>> ELSE <<bp>> \o from[n - 1][GET(h, next(bp))]]
    IN  from[MaxBlocks][h.free_start]

\* First fit, in the order of the list.
FirstFit(h, size) == With(FreeList(h), LAMBDA list :
    LET fits == {n \in DOMAIN list : Size(h, list[n]) >= size}
    IN  IF fits = {} THEN NULL ELSE list[CHOOSE n \in fits : \A m \in fits : n <= m])

-----------------------------------------------------------------------------
(* memlib.c: whole pages, wherever the kernel has room.                    *)

Pages(start, size) == {Page(start) + i : i \in 0 .. (size \div PAGESIZE) - 1}

Places(h, size) == {pg * PAGESIZE : pg \in {pg \in AllPages :
                        Pages(pg * PAGESIZE, size) \subseteq AllPages \ h.mapped}}

mem_map(h, start, size) == [h EXCEPT !.mapped = @ \cup Pages(start, size)]

Restricted(f, S) == [a \in DOMAIN f \cap S |-> f[a]]

\* An address or size that is not of whole mapped pages aborts; that shows as a
\* write outside of the mapped pages.
mem_unmap(h, start, size) ==
    IF start % PAGESIZE = 0 /\ size % PAGESIZE = 0 /\ Pages(start, size) \subseteq h.mapped
    THEN [h EXCEPT !.mapped = @ \ Pages(start, size),
                   !.mem = Restricted(@, WordsOf(h.mapped \ Pages(start, size)))]
    ELSE PUT(h, NULL, GARBAGE)

mem_reset(h) == [h EXCEPT !.mapped = {}, !.mem = <<>>]

-----------------------------------------------------------------------------
(* mm.c.  A call's outcomes are pairs of the heap it leaves and the block  *)
(* it returns; where the kernel places a new chunk decides among them.     *)

Outcome(h, bp) == [h |-> h, bp |-> bp]

extend(h, start, size) ==
    LET h1 == PUT(PUT(mem_map(h, start, size), start, 0), start + BYTE, PACK(OVERHEAD, 1))
        h2 == PUT(PUT(h1, start + OVERHEAD, PACK(OVERHEAD, 1)), start + size - BYTE, PACK(0, 1))
        h3 == Mark(h2, start + 2*OVERHEAD, size - 2*OVERHEAD, 0)
        h4 == With(h3, LAMBDA h0 : push_free(h0, start + 2*OVERHEAD))
    IN  Outcome([h4 EXCEPT !.home_pg = IF @ = NULL THEN start ELSE @], start + 2*OVERHEAD)

set_allocated(h, bp, alloc_size) ==
    LET rest == Wrap(Size(h, bp) - alloc_size)
        after == Wrap(bp + alloc_size)
        size == IF rest >= 2 * OVERHEAD THEN alloc_size ELSE Size(h, bp)
    IN  Outcome(With(pop_free(Mark(h, bp, size, 1), bp), LAMBDA h1 :
                    IF rest >= 2 * OVERHEAD
                    THEN With(Mark(h1, after, rest, 0), LAMBDA h2 : push_free(h2, after))
                    ELSE h1),
                bp)

\* Mutants of coalesce: the block before is not looked at; of three blocks the
\* size of the last is forgotten.
coalesce_forward(h, bp) ==
    LET after == NEXT(h, bp)
        size == Size(h, bp)
    IN  IF GET_ALLOC(h, HDRP(after)) = 1
        THEN Outcome(push_free(h, bp), bp)
        ELSE Outcome(With(Mark(pop_free(h, after), bp, size + Size(h, after), 0),
                          LAMBDA h1 : push_free(h1, bp)), bp)
coalesce_short(h, bp) ==
    LET before == PREV(h, bp)
        after == NEXT(h, bp)
        size == Size(h, bp)
    IN  IF GET_ALLOC(h, FTRP(h, before)) = 1
        THEN coalesce_forward(h, bp)
        ELSE IF GET_ALLOC(h, HDRP(after)) = 1
        THEN Outcome(Mark(h, before, Size(h, before) + size, 0), before)
        ELSE Outcome(Mark(pop_free(h, after), before, Size(h, before) + size, 0), before)

\* Joins the free block bp with its free neighbours.
coalesce(h, bp) ==
    LET before == PREV(h, bp)
        after == NEXT(h, bp)
        prev_alloc == GET_ALLOC(h, FTRP(h, before)) = 1
        next_alloc == GET_ALLOC(h, HDRP(after)) = 1
        size == Size(h, bp)
    IN  CASE prev_alloc /\ next_alloc ->
               Outcome(push_free(h, bp), bp)
          [] prev_alloc /\ ~next_alloc ->
               Outcome(With(Mark(pop_free(h, after), bp, size + Size(h, after), 0),
                            LAMBDA h1 : push_free(h1, bp)), bp)
          [] ~prev_alloc /\ next_alloc ->
               Outcome(Mark(h, before, Size(h, before) + size, 0), before)
          [] OTHER ->
               Outcome(Mark(pop_free(h, after), before,
                            Size(h, before) + size + Size(h, after), 0), before)

\* Mutants of newsize: no rounding; no room for header and footer.
newsize_unaligned(size) == (IF size < OVERHEAD THEN OVERHEAD ELSE size) + OVERHEAD
newsize_bare(size) == ALIGN(IF size < 2 * OVERHEAD THEN 2 * OVERHEAD ELSE size)

newsize(size) == ALIGN(Wrap((IF size < OVERHEAD THEN OVERHEAD ELSE size) + OVERHEAD))

\* Mutant of ExtendSize: the same for every request.
ExtendSize_fixed(n) == PAGESIZE * MULTIPLE

ExtendSize(n) == IF PAGE_ALIGN(n) > PAGESIZE * MULTIPLE
                 THEN Wrap(PAGE_ALIGN(n) * MULTIPLE)
                 ELSE PAGESIZE * MULTIPLE

mm_malloc(h, size) ==
    LET n == newsize(size)
        found == With(FirstFit(h, n), LAMBDA bp :
                     IF bp # NULL THEN {Outcome(h, bp)}
                     ELSE {extend(h, start, ExtendSize(n)) : start \in Places(h, ExtendSize(n))})
    IN  {set_allocated(o.h, o.bp, n) : o \in found}

\* Mutants of mm_free: the chunk goes when its last block is free, or only when
\* the block is alone before it is joined with its neighbours.
mm_free_tail(h, freed) ==
    With(Mark(h, freed, Size(h, freed), 0), LAMBDA h1 :
    With(coalesce(h1, freed), LAMBDA o :
        IF Size(o.h, NEXT(o.h, o.bp)) = 0 /\ Wrap(o.bp - 2*OVERHEAD) # o.h.home_pg
        THEN With(pop_free(o.h, o.bp), LAMBDA h2 :
                 mem_unmap(h2, Wrap(o.bp - 2*OVERHEAD), Size(o.h, o.bp) + PAGE_OVERHEAD))
        ELSE o.h))
mm_free_unjoined(h, freed) ==
    LET alone == /\ Size(h, PREV(h, freed)) = OVERHEAD
                 /\ Size(h, NEXT(h, freed)) = 0
        start == freed - 2*OVERHEAD
    IN  IF alone /\ start # h.home_pg
        THEN mem_unmap(h, start, Size(h, freed) + PAGE_OVERHEAD)
        ELSE coalesce(Mark(h, freed, Size(h, freed), 0), freed).h

mm_free(h, freed) ==
    With(Mark(h, freed, Size(h, freed), 0), LAMBDA h1 :
    With(coalesce(h1, freed), LAMBDA o :
        LET start == Wrap(o.bp - 2*OVERHEAD)
            alone == /\ Size(o.h, PREV(o.h, o.bp)) = OVERHEAD
                     /\ Size(o.h, NEXT(o.h, o.bp)) = 0
        IN  IF alone /\ start # o.h.home_pg
            THEN With(pop_free(o.h, o.bp), LAMBDA h2 :
                     mem_unmap(h2, start, Size(o.h, o.bp) + PAGE_OVERHEAD))
            ELSE o.h))

mm_init(h) ==
    LET size == PAGESIZE * HOMEPG_MULTIPLE
    IN  {extend([h EXCEPT !.home_pg = NULL, !.free_start = NULL], start, size).h :
            start \in Places(h, size)}

-----------------------------------------------------------------------------
(* The driver: eval_mm_valid on every trace of requests.                   *)

vars == <<heap, ranges, status>>

NoPages == [mem |-> <<>>, mapped |-> {}, home_pg |-> NULL, free_start |-> NULL]

\* What a free block holds behind its links is garbage.
Inside(h, bp) == bp + 2*BYTE .. bp + Size(h, bp) - OVERHEAD - 1
Settle(h) == With(h, LAMBDA g : With(FreeList(g), LAMBDA list :
    [g EXCEPT !.mem = Restricted(@, {a \in DOMAIN @ :
                                        \A n \in DOMAIN list : a \notin Inside(g, list[n])})]))

\* memset of the payload.
Fill(h, r) ==
    LET words == {a \in WordsOf(h.mapped) : r.lo < a + BYTE /\ a <= r.hi}
    IN  [h EXCEPT !.mem = [a \in DOMAIN @ \cup words |-> IF a \in words THEN FILL ELSE @[a]]]

Init ==
    /\ ranges = {}
    /\ status = "ok"
    /\ \E h \in mm_init(NoPages) : heap = Settle(h)

Running == status = "ok" /\ ~Segv(heap)

\* The payload is checked, recorded and filled, and old freed in a realloc; a
\* failed check ends the trace, a stray write the process.
Record(o, size, rs, freed) ==
    LET r == range_t(o.bp, size) IN
    IF Segv(o.h) \/ ~Accepts(rs, r, o.h.mapped)
    THEN /\ heap' = o.h
         /\ status' = IF Segv(o.h) THEN status ELSE "malloc_error"
         /\ UNCHANGED ranges
    ELSE /\ heap' = Settle(IF freed = NULL THEN Fill(o.h, r)
                           ELSE With(Fill(o.h, r), LAMBDA h : mm_free(h, freed)))
         /\ ranges' = rs \cup {r}
         /\ UNCHANGED status

Alloc == \E size \in Sizes : \E o \in mm_malloc(heap, size) :
    /\ Running
    /\ Cardinality(ranges) < MaxLive
    /\ Record(o, size, ranges, NULL)

\* The new payload is allocated before the old one is freed.
Realloc == \E size \in Sizes, old \in ranges : \E o \in mm_malloc(heap, size) :
    /\ Running
    /\ Record(o, size, remove_range(ranges, old.lo), old.lo)

Free == \E old \in ranges :
    /\ Running
    /\ ranges' = remove_range(ranges, old.lo)
    /\ heap' = Settle(mm_free(heap, old.lo))
    /\ UNCHANGED status

\* The trace ends, its ranges are cleared and the next one starts.
NextTrace ==
    /\ Running
    /\ ranges' = {}
    /\ \E h \in mm_init(mem_reset(heap)) : heap' = Settle(h)
    /\ UNCHANGED status

Next == Alloc \/ Realloc \/ Free \/ NextTrace

Spec == Init /\ [][Next]_vars

-----------------------------------------------------------------------------
\* The types of the variables.
TypeOK ==
    /\ \A a \in DOMAIN heap.mem : a % BYTE = 0 /\ heap.mem[a] \in 0 .. SIZE_MOD - 1
    /\ heap.mapped \subseteq AllPages
    /\ {heap.home_pg, heap.free_start} \subseteq AddressSpace \cup {NULL}
    /\ status \in {"ok", "malloc_error"}

FreeBlocks == LET list == FreeList(heap) IN {list[n] : n \in DOMAIN list}
LiveBlocks == {r.lo : r \in ranges}
Extent(bp) == bp - BYTE .. bp - BYTE + Size(heap, bp) - 1

Marked(bp, alloc) ==
    /\ GET(heap, HDRP(bp)) = PACK(Size(heap, bp), alloc)
    /\ GET(heap, FTRP(heap, bp)) = PACK(Size(heap, bp), alloc)

IsPrologue(bp) == Size(heap, PREV(heap, bp)) = OVERHEAD
IsEpilogue(bp) == Size(heap, NEXT(heap, bp)) = 0

\* mdriver.c:396 "The payload must not overlap any other payloads": no payload
\* fails the driver's checks.
PayloadsAccepted == status # "malloc_error"

\* No write ever leaves the mapped pages, no page is given back twice, and the
\* driver's checks of every payload succeed.
DriverIsContent == PayloadsAccepted /\ ~Segv(heap)

\* The free list runs, each block once and with matching links both ways,
\* through blocks that are marked free: what pf() of mm.c looks for.
FreeListExact ==
    LET list == FreeList(heap) IN
    \A n \in DOMAIN list :
        /\ Marked(list[n], 0)
        /\ GET(heap, prev(list[n])) = IF n = 1 THEN NULL ELSE list[n-1]
        /\ \A m \in 1 .. n-1 : list[m] # list[n]

\* The blocks handed out and the blocks on the free list lie apart, are large
\* enough for their payloads, and with 32 bytes of padding for each chunk they
\* make up the mapped pages: no byte is lost.
Accounted ==
    LET blocks == FreeBlocks \cup LiveBlocks IN
    /\ \A r \in ranges : Marked(r.lo, 1) /\ Size(heap, r.lo) >= r.hi - r.lo + 1 + OVERHEAD
    /\ \A b, c \in blocks : b # c => Extent(b) \cap Extent(c) = {}
    /\ Cardinality(UNION {Extent(b) : b \in blocks})
         + PAGE_OVERHEAD * Cardinality({b \in blocks : IsEpilogue(b)})
         = PAGESIZE * Cardinality(heap.mapped)

\* No two free blocks lie side by side.
Coalesced == LET free == FreeBlocks IN \A b \in free : NEXT(heap, b) \notin free

\* A chunk without a payload is given back, the home page excepted.
IdlePagesReturned ==
    \A b \in FreeBlocks : IsPrologue(b) /\ IsEpilogue(b) => b - 2*OVERHEAD = heap.home_pg

\* The allocator leaves the client's data alone.
PayloadsIntact ==
    \A r \in ranges : \A a \in r.lo .. r.hi : a % BYTE = 0 => GET(heap, a) = FILL

\* The allocator keeps the promise of module Allocator.
Promise == INSTANCE Allocator WITH mapped <- heap.mapped
KeepsPromise == Promise!Spec
=============================================================================
