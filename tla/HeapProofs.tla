------------------------------- MODULE HeapProofs -------------------------------
(***************************************************************************)
(* The allocator of Memory_Allocator/mm.c is correct, for pages of any     *)
(* number and size and requests of any size that SizeFits admits.          *)
(*                                                                         *)
(* The words of a heap are described by four things: cz, the size of each  *)
(* chunk of pages; sz, the size of each block; fr, the free blocks; and L, *)
(* the free list.  Formed says that the words are those of that            *)
(* description, Whole that no two free blocks are neighbours and no idle   *)
(* chunk is kept, Live that the payloads are where the driver takes them   *)
(* to be, and Good that some description makes all of it true.  Good is    *)
(* inductive.  One lemma per operation of mm.c says how the description    *)
(* changes; the properties that the runs check are read off it.            *)
(***************************************************************************)
EXTENDS Heap, TLAPS, WellFoundedInduction, FiniteSetTheorems, FunctionTheorems

(* The sizes of requests, blocks and extensions.                           *)

\* A number below SIZE_MOD does not wrap.
LEMMA WrapSmall ==
    ASSUME NEW n \in Nat, n < SIZE_MOD
    PROVE  Wrap(n) = n
BY HeapAssumption DEF Wrap

\* ALIGN rounds up to a multiple of 16, short of the end of size_t.
LEMMA AlignBounds ==
    ASSUME NEW n \in Nat, n + 15 < SIZE_MOD
    PROVE  /\ ALIGN(n) \in Nat
           /\ ALIGN(n) % 16 = 0
           /\ n <= ALIGN(n) /\ ALIGN(n) <= n + 15
<1>1. Wrap(n + 15) = n + 15
    BY WrapSmall
<1>2. ALIGN(n) = (n + 15) - ((n + 15) % 16)
    BY <1>1 DEF ALIGN, ALIGNMENT
<1> QED
    BY <1>2

\* The block of a request holds the payload, header and footer, and room for
\* the links of the free list.
THEOREM NewsizeHolds ==
    ASSUME NEW size \in Nat, size + 47 < SIZE_MOD
    PROVE  /\ newsize(size) \in Nat
           /\ newsize(size) % 16 = 0
           /\ newsize(size) >= size + OVERHEAD
           /\ newsize(size) >= 2 * OVERHEAD
           /\ newsize(size) <= size + 31 \/ newsize(size) = 2 * OVERHEAD
<1> DEFINE s == IF size < OVERHEAD THEN OVERHEAD ELSE size
<1>1. /\ s \in Nat /\ s >= size /\ s >= 16 /\ s <= size + 16
      /\ s = size \/ s = 16
    BY DEF OVERHEAD
<1> HIDE DEF s
<1>2. newsize(size) = ALIGN(s + 16)
    <2>0. s + 16 \in Nat /\ s + 16 < SIZE_MOD
        BY <1>1, HeapAssumption
    <2>1. Wrap(s + 16) = s + 16
        BY <2>0, WrapSmall
    <2> QED
        BY <2>1 DEF newsize, s, OVERHEAD
<1>3. /\ ALIGN(s + 16) \in Nat
      /\ ALIGN(s + 16) % 16 = 0
      /\ s + 16 <= ALIGN(s + 16) /\ ALIGN(s + 16) <= s + 31
    <2>1. s + 16 \in Nat /\ (s + 16) + 15 < SIZE_MOD
        BY <1>1, HeapAssumption
    <2> QED
        BY <2>1, <1>1, AlignBounds
<1> QED
    BY <1>1, <1>2, <1>3 DEF OVERHEAD

\* PAGE_ALIGN rounds up to whole pages, short of the end of size_t.
LEMMA PageAlignBounds ==
    ASSUME NEW n \in Nat, n + PAGESIZE <= SIZE_MOD
    PROVE  /\ PAGE_ALIGN(n) \in Nat
           /\ n <= PAGE_ALIGN(n) /\ PAGE_ALIGN(n) <= n + PAGESIZE - 1
<1>0. PAGESIZE \in Nat \ {0}
    BY RangeAssumption
<1>1. Wrap(n + PAGESIZE - 1) = n + PAGESIZE - 1
    <2>1. n + PAGESIZE - 1 \in Nat /\ n + PAGESIZE - 1 < SIZE_MOD
        BY <1>0, HeapAssumption
    <2> QED
        BY <2>1, WrapSmall
<1> DEFINE m == n + PAGESIZE - 1
<1>2. m \in Nat /\ m % PAGESIZE \in 0 .. PAGESIZE - 1
    BY <1>0
<1>3. PAGE_ALIGN(n) = m - (m % PAGESIZE)
    BY <1>1 DEF PAGE_ALIGN
<1> QED
    BY <1>0, <1>2, <1>3

\* A new chunk holds the block it was mapped for just when the block's size is
\* not within 32 bytes below the size of an ordinary extension; in that band
\* the subtraction in set_allocated wraps.  The size of an extension must not
\* wrap, which is for requests below SIZE_MOD \div MULTIPLE, about.
THEOREM ExtensionFits ==
    ASSUME NEW n \in Nat, n + PAGESIZE <= SIZE_MOD, PAGE_ALIGN(n) * MULTIPLE < SIZE_MOD
    PROVE  ExtendSize(n) - PAGE_OVERHEAD >= n
             <=> ~(/\ PAGESIZE * MULTIPLE - PAGE_OVERHEAD < n
                   /\ PAGE_ALIGN(n) <= PAGESIZE * MULTIPLE)
<1>0. PAGESIZE \in Nat \ {0} /\ MULTIPLE \in Nat \ {0, 1} /\ PAGESIZE * MULTIPLE \in Nat
    BY RangeAssumption, HeapAssumption
<1> DEFINE p == PAGE_ALIGN(n)
<1>1. p \in Nat /\ n <= p
    BY PageAlignBounds
<1> HIDE DEF p
<1>2. CASE p > PAGESIZE * MULTIPLE
    <2>1. ExtendSize(n) = p * MULTIPLE
        <3>1. p * MULTIPLE \in Nat /\ p * MULTIPLE < SIZE_MOD
            BY <1>0, <1>1 DEF p
        <3>2. Wrap(p * MULTIPLE) = p * MULTIPLE
            BY ONLY <3>1, WrapSmall
        <3> QED
            BY <1>2, <3>2 DEF ExtendSize, p
    <2>2. p * MULTIPLE >= p + p
        BY <1>0, <1>1
    <2>3. p >= PAGE_OVERHEAD
        <3>1. PAGESIZE >= 16
            BY <1>0, HeapAssumption DEF ALIGNMENT
        <3>2. PAGESIZE * MULTIPLE >= PAGESIZE + PAGESIZE
            BY <1>0
        <3> QED
            BY <3>1, <3>2, <1>0, <1>1, <1>2 DEF PAGE_OVERHEAD
    <2>4. p * MULTIPLE \in Nat
        BY <1>0, <1>1
    <2> QED
        BY <2>1, <2>2, <2>3, <2>4, <1>0, <1>1, <1>2 DEF PAGE_OVERHEAD, p
<1>3. CASE ~(p > PAGESIZE * MULTIPLE)
    <2>1. ExtendSize(n) = PAGESIZE * MULTIPLE
        BY <1>3 DEF ExtendSize, p
    <2> QED
        BY <2>1, <1>0, <1>1, <1>3 DEF PAGE_OVERHEAD, p
<1> QED
    BY <1>2, <1>3

\* What mm_malloc needs of a request: its block fits into the extension that
\* is mapped for it.
SizeFits(size) ==
    /\ size + 47 < SIZE_MOD
    /\ ExtendSize(newsize(size)) >= newsize(size) + PAGE_OVERHEAD

\* Every request fits, but for those within 32 bytes below the size of an
\* ordinary extension and those whose extension would wrap.
THEOREM RequestsFit ==
    ASSUME NEW size \in Nat, size + 47 < SIZE_MOD, newsize(size) + PAGESIZE <= SIZE_MOD,
           PAGE_ALIGN(newsize(size)) * MULTIPLE < SIZE_MOD,
           \/ newsize(size) + PAGE_OVERHEAD <= PAGESIZE * MULTIPLE
           \/ PAGE_ALIGN(newsize(size)) > PAGESIZE * MULTIPLE
    PROVE  SizeFits(size)
<1> DEFINE n == newsize(size)
<1>0. PAGESIZE \in Nat \ {0} /\ MULTIPLE \in Nat \ {0, 1} /\ PAGESIZE * MULTIPLE \in Nat
    BY RangeAssumption, HeapAssumption
<1>1. n \in Nat
    BY NewsizeHolds
<1>2. PAGE_ALIGN(n) \in Nat /\ PAGE_ALIGN(n) * MULTIPLE \in Nat
    BY <1>0, <1>1, PageAlignBounds
<1>3. ExtendSize(n) \in Nat
    <2>1. Wrap(PAGE_ALIGN(n) * MULTIPLE) = PAGE_ALIGN(n) * MULTIPLE
        BY <1>2, WrapSmall
    <2> QED
        BY <1>0, <1>2, <2>1 DEF ExtendSize
<1>4. ~(/\ PAGESIZE * MULTIPLE - PAGE_OVERHEAD < n
        /\ PAGE_ALIGN(n) <= PAGESIZE * MULTIPLE)
    BY <1>0, <1>1, <1>2 DEF PAGE_OVERHEAD
<1>5. ExtendSize(n) - PAGE_OVERHEAD >= n
    BY <1>1, <1>4, ExtensionFits
<1> QED
    BY <1>1, <1>3, <1>5 DEF SizeFits, PAGE_OVERHEAD

\* A heap is a record of its four fields.
IsHeap(h) == h = [mem |-> h.mem, mapped |-> h.mapped,
                  home_pg |-> h.home_pg, free_start |-> h.free_start]

\* Words are on mapped pages, and hold a size_t.
Sound(h) ==
    /\ IsHeap(h)
    /\ h.mapped \subseteq AllPages
    /\ DOMAIN h.mem \subseteq WordsOf(h.mapped)
    /\ \A a \in DOMAIN h.mem : h.mem[a] \in 0 .. SIZE_MOD - 1

\* cz maps the start of each chunk to its size: whole pages, with room for one
\* block, and no two overlap.
Placed(cz) ==
    /\ \A s \in DOMAIN cz :
          /\ s \in Nat /\ s >= 16 /\ s % 16 = 0 /\ s % PAGESIZE = 0
          /\ cz[s] \in Nat /\ cz[s] >= 64 /\ cz[s] % 16 = 0 /\ cz[s] % PAGESIZE = 0
          /\ s + cz[s] < SIZE_MOD
    /\ \A s, t \in DOMAIN cz : s # t => s + cz[s] <= t \/ t + cz[t] <= s

\* The mapped pages are those of the chunks.
Chunked(h, cz) == Placed(cz) /\ h.mapped = UNION {Pages(s, cz[s]) : s \in DOMAIN cz}

\* sz maps each block to its size.  A block lies in a chunk, behind 32 bytes, and
\* the blocks of a chunk leave no gap.
Tiled(cz, sz) ==
    /\ \A b \in DOMAIN sz :
          /\ b \in Nat /\ b % 16 = 0
          /\ sz[b] \in Nat /\ sz[b] >= 32 /\ sz[b] % 16 = 0
          /\ \E s \in DOMAIN cz : s + 32 <= b /\ b + sz[b] <= s + cz[s]
    /\ \A b, c \in DOMAIN sz : b # c => b + sz[b] <= c \/ c + sz[c] <= b
    /\ \A s \in DOMAIN cz : \A x \in s + 32 .. s + cz[s] - 1 :
          \E b \in DOMAIN sz : b <= x /\ x < b + sz[b]

\* The word that heads and ends a block; fr are the blocks marked free.
Tag(sz, fr, b) == sz[b] + (IF b \in fr THEN 0 ELSE 1)

\* Each chunk has its prologue and epilogue, each block its header and footer.
Tagged(h, cz, sz, fr) ==
    /\ \A s \in DOMAIN cz : GET(h, s + 8) = 17 /\ GET(h, s + 16) = 17 /\ GET(h, s + cz[s] - 8) = 1
    /\ \A b \in DOMAIN sz : GET(h, b - 8) = Tag(sz, fr, b) /\ GET(h, b + sz[b] - 16) = Tag(sz, fr, b)
    /\ fr \subseteq DOMAIN sz

\* The free list is L, of n blocks, linked both ways.
Linked(h, L, n) ==
    /\ n \in Nat /\ DOMAIN L = 1 .. n
    /\ \A i \in 1 .. n : L[i] \in Nat \ {0} /\ L[i] % 16 = 0
    /\ \A i, j \in 1 .. n : i # j => L[i] # L[j]
    /\ \A i \in 1 .. n : GET(h, L[i]) = IF i = 1 THEN 0 ELSE L[i - 1]
    /\ \A i \in 1 .. n : GET(h, L[i] + 8) = IF i = n THEN 0 ELSE L[i + 1]
    /\ h.free_start = IF n = 0 THEN 0 ELSE L[1]

\* The blocks that are not free are those of the payloads, each with room for its
\* payload, header and footer, and each payload holds what the driver wrote.
Live(h, rs, sz, fr) ==
    /\ \A r \in rs : /\ r = [lo |-> r.lo, hi |-> r.hi]
                     /\ r.lo \in DOMAIN sz \ fr
                     /\ r.hi \in Int /\ r.hi - r.lo + 1 \in Sizes
                     /\ r.hi + 17 <= r.lo + sz[r.lo]
    /\ \A r, q \in rs : r # q => r.lo # q.lo
    /\ \A b \in DOMAIN sz \ fr : \E r \in rs : r.lo = b
    /\ \A r \in rs : \A a \in r.lo .. r.hi : a % 8 = 0 => GET(h, a) = 17

-----------------------------------------------------------------------------
(* Arithmetic of pages and words.                                          *)

\* The constants.
LEMMA PageSizeFacts ==
    /\ PAGESIZE \in Nat /\ PAGESIZE >= 16 /\ PAGESIZE % 16 = 0
    /\ SIZE_MOD \in Nat /\ NPages \in Nat
    /\ PAGESIZE * (NPages + 1) \in Nat /\ PAGESIZE * (NPages + 1) < SIZE_MOD
BY RangeAssumption, HeapAssumption DEF ALIGNMENT

\* Division with remainder.
LEMMA DivMod ==
    ASSUME NEW a \in Nat, NEW p \in Nat, p > 0
    PROVE  /\ a \div p \in Nat /\ a % p \in 0 .. p - 1
           /\ a = p * (a \div p) + (a % p)
OBVIOUS

\* Quotient and remainder are unique.
LEMMA DivIs ==
    ASSUME NEW p \in Nat, p > 0, NEW q \in Nat, NEW r \in Nat, r < p
    PROVE  (p * q + r) \div p = q /\ (p * q + r) % p = r
<1> DEFINE a == p * q + r
<1>1. a \in Nat
    OBVIOUS
<1>2. /\ a \div p \in Nat /\ a % p \in 0 .. p - 1
      /\ a = p * (a \div p) + (a % p)
    BY <1>1, DivMod
<1> DEFINE d == a \div p
           m == a % p
<1>3. d \in Nat /\ m \in 0 .. p - 1 /\ p * q + r = p * d + m
    BY <1>2
<1> HIDE DEF d, m
<1>4. CASE d > q
    <2>1. p * d >= p * (q + 1)
        BY <1>3, <1>4
    <2> QED
        BY <2>1, <1>3
<1>5. CASE d < q
    <2>1. p * q >= p * (d + 1)
        BY <1>3, <1>5
    <2> QED
        BY <2>1, <1>3
<1>6. d = q
    BY <1>3, <1>4, <1>5
<1>7. m = r
    BY <1>3, <1>6
<1> QED
    BY <1>6, <1>7 DEF d, m

\* A word is on a page just when the page it lies on is.
LEMMA WordIn ==
    ASSUME NEW pages \in SUBSET Nat, NEW a \in Nat
    PROVE  a \in WordsOf(pages) <=> a % 8 = 0 /\ a \div PAGESIZE \in pages
<1> DEFINE p == PAGESIZE
           k == p \div 8
<1>0. p \in Nat /\ p > 0 /\ k \in Nat /\ p = 8 * k
    BY PageSizeFacts
<1> HIDE DEF p, k
<1>1. WordsOf(pages) = {pg * p + 8 * i : pg \in pages, i \in 0 .. k - 1}
    BY DEF WordsOf, p, k, BYTE
<1>2. ASSUME NEW pg \in pages, NEW i \in 0 .. k - 1, a = pg * p + 8 * i
      PROVE  a % 8 = 0 /\ a \div p \in pages
    <2>1. a = p * pg + 8 * i /\ 8 * i \in Nat /\ 8 * i < p
        BY <1>0, <1>2
    <2>2. a \div p = pg
        BY <2>1, <1>0, DivIs
    <2>3. a = 8 * (k * pg + i) + 0 /\ k * pg + i \in Nat
        BY <2>1, <1>0
    <2>4. a % 8 = 0
        BY <2>3
    <2> QED
        BY <2>2, <2>4
<1>3. ASSUME a % 8 = 0, a \div p \in pages
      PROVE  \E pg \in pages, i \in 0 .. k - 1 : a = pg * p + 8 * i
    <2> DEFINE d == a \div p
               m == a % p
    <2>1. d \in Nat /\ m \in 0 .. p - 1 /\ a = p * d + m
        BY <1>0, DivMod
    <2> HIDE DEF m
    <2>2. d \in pages
        BY <1>3
    <2> HIDE DEF d
    <2>3. p * d = 8 * (k * d) /\ k * d \in Nat
        BY <1>0, <2>1
    <2>4. m % 8 = 0
        BY <2>1, <2>3, <1>3
    <2>5. m \div 8 \in 0 .. k - 1 /\ m = 8 * (m \div 8)
        BY <2>4, <2>1, <1>0
    <2>6. a = d * p + 8 * (m \div 8)
        BY <2>1, <2>5, <1>0
    <2> QED
        BY <2>2, <2>5, <2>6
<1> QED
    BY <1>1, <1>2, <1>3 DEF p

\* An address is on the pages of a chunk just when it lies in the chunk.
LEMMA InPages ==
    ASSUME NEW s \in Nat, NEW z \in Nat, s % PAGESIZE = 0, z % PAGESIZE = 0,
           NEW a \in Nat
    PROVE  a \div PAGESIZE \in Pages(s, z) <=> s <= a /\ a < s + z
<1> DEFINE p == PAGESIZE
           ps == s \div p
           pz == z \div p
           d == a \div p
           m == a % p
<1>0. p \in Nat /\ p > 0
    BY PageSizeFacts
<1>1. ps \in Nat /\ s = p * ps
    BY <1>0, DivMod
<1>2. pz \in Nat /\ z = p * pz
    BY <1>0, DivMod
<1>3. d \in Nat /\ m \in 0 .. p - 1 /\ a = p * d + m
    BY <1>0, DivMod
<1>4. Pages(s, z) = {ps + i : i \in 0 .. pz - 1}
    BY DEF Pages, Page
<1> HIDE DEF p, ps, pz, d, m
<1>5. d \in Pages(s, z) <=> ps <= d /\ d < ps + pz
    <2>1. ASSUME ps <= d, d < ps + pz
          PROVE  d \in Pages(s, z)
        <3>1. d = ps + (d - ps) /\ d - ps \in 0 .. pz - 1
            BY <2>1, <1>1, <1>2, <1>3
        <3> QED
            BY <3>1, <1>4
    <2> QED
        BY <2>1, <1>1, <1>2, <1>3, <1>4
<1>6. ps <= d => s <= a
    <2> SUFFICES ASSUME ps <= d PROVE s <= a
        OBVIOUS
    <2>1. p * ps <= p * d
        BY <1>0, <1>1, <1>3
    <2> QED
        BY <2>1, <1>1, <1>3, <1>0
<1>7. d < ps => ~(s <= a)
    <2> SUFFICES ASSUME d < ps PROVE a < s
        BY <1>1, <1>3, <1>0
    <2>1. p * (d + 1) <= p * ps
        BY <1>0, <1>1, <1>3
    <2> QED
        BY <2>1, <1>1, <1>3, <1>0
<1>8. s + z = p * (ps + pz)
    BY <1>1, <1>2, <1>0
<1>9. d < ps + pz => a < s + z
    <2> SUFFICES ASSUME d < ps + pz PROVE a < s + z
        OBVIOUS
    <2>1. p * (d + 1) <= p * (ps + pz)
        BY <1>0, <1>1, <1>2, <1>3
    <2> QED
        BY <2>1, <1>8, <1>3, <1>0
<1>10. ps + pz <= d => ~(a < s + z)
    <2> SUFFICES ASSUME ps + pz <= d PROVE s + z <= a
        BY <1>1, <1>2, <1>3, <1>0
    <2>1. p * (ps + pz) <= p * d
        BY <1>0, <1>1, <1>2, <1>3
    <2> QED
        BY <2>1, <1>8, <1>3, <1>0
<1>11. d \in Nat /\ ps \in Nat /\ pz \in Nat /\ (ps <= d \/ d < ps) /\ (d < ps + pz \/ ps + pz <= d)
    BY <1>1, <1>2, <1>3
<1> QED
    BY <1>5, <1>6, <1>7, <1>9, <1>10, <1>11 DEF d, p

-----------------------------------------------------------------------------
(* Reading after writing.                                                  *)

\* A read after a write.
LEMMA PutGet ==
    ASSUME NEW h, IsHeap(h), NEW a, NEW v
    PROVE  /\ IsHeap(PUT(h, a, v))
           /\ \A x : GET(PUT(h, a, v), x) = IF x = a THEN v ELSE GET(h, x)
           /\ DOMAIN PUT(h, a, v).mem = DOMAIN h.mem \cup {a}
           /\ \A x \in DOMAIN h.mem \cup {a} : PUT(h, a, v).mem[x] = IF x = a THEN v ELSE h.mem[x]
           /\ PUT(h, a, v).mapped = h.mapped
           /\ PUT(h, a, v).home_pg = h.home_pg
           /\ PUT(h, a, v).free_start = h.free_start
<1> DEFINE m == [x \in DOMAIN h.mem \cup {a} |-> IF x = a THEN v ELSE h.mem[x]]
<1>1. PUT(h, a, v) = [h EXCEPT !.mem = m]
    BY DEF PUT
<1>2. PUT(h, a, v) = [mem |-> m, mapped |-> h.mapped,
                      home_pg |-> h.home_pg, free_start |-> h.free_start]
    BY <1>1 DEF IsHeap
<1> QED
    BY <1>2 DEF GET, IsHeap

\* A write of a size_t to a mapped word.
LEMMA PutSound ==
    ASSUME NEW h, Sound(h), NEW a, NEW v,
           a \in WordsOf(h.mapped), v \in 0 .. SIZE_MOD - 1
    PROVE  Sound(PUT(h, a, v))
<1>1. IsHeap(h)
    BY DEF Sound
<1> QED
    BY <1>1, PutGet DEF Sound

\* Every word is a natural number.
LEMMA GetIsNat ==
    ASSUME NEW h, Sound(h), NEW a
    PROVE  GET(h, a) \in Nat
BY PageSizeFacts DEF Sound, GET, GARBAGE

\* A second heap that differs from the first in words only.
Kept(h, g) == g.mapped = h.mapped /\ g.home_pg = h.home_pg

\* An assignment to free_start writes no word.
LEMMA FreeStartIs ==
    ASSUME NEW h, IsHeap(h), NEW bp
    PROVE  LET g == [h EXCEPT !.free_start = bp]
           IN  /\ g.free_start = bp /\ g.mem = h.mem /\ Kept(h, g) /\ IsHeap(g)
               /\ \A x : GET(g, x) = GET(h, x)
               /\ Sound(h) => Sound(g)
<1>1. [h EXCEPT !.free_start = bp] = [mem |-> h.mem, mapped |-> h.mapped,
                      home_pg |-> h.home_pg, free_start |-> bp]
    BY DEF IsHeap
<1> QED
    BY <1>1 DEF GET, IsHeap, Kept, Sound

-----------------------------------------------------------------------------
(* The free list.                                                          *)

\* A word on mapped pages has an aligned address below SIZE_MOD.
LEMMA WordSmall ==
    ASSUME NEW pages \in SUBSET AllPages, NEW a \in WordsOf(pages)
    PROVE  a \in Nat /\ a % 8 = 0 /\ PAGESIZE <= a /\ a < PAGESIZE * (NPages + 1) /\ a < SIZE_MOD
<1>0. pages \in SUBSET Nat
    BY DEF AllPages
<1>1. a \in Nat
    <2>1. PICK pg \in pages, i \in 0 .. (PAGESIZE \div BYTE) - 1 : a = pg * PAGESIZE + BYTE * i
        BY DEF WordsOf
    <2>2. PAGESIZE \div BYTE \in Nat
        BY PageSizeFacts DEF BYTE
    <2>3. pg * PAGESIZE \in Nat /\ BYTE * i \in Nat
        BY <1>0, <2>2, PageSizeFacts DEF BYTE
    <2> QED
        BY <2>1, <2>3
<1>2. a % 8 = 0 /\ a \div PAGESIZE \in pages
    BY <1>0, <1>1, WordIn
<1> DEFINE d == a \div PAGESIZE
           m == a % PAGESIZE
<1>3. d \in 1 .. NPages /\ m \in 0 .. PAGESIZE - 1 /\ a = PAGESIZE * d + m
    BY <1>1, <1>2, PageSizeFacts, DivMod DEF AllPages
<1> HIDE DEF d, m
<1>4. PAGESIZE * d >= PAGESIZE
    BY <1>3, PageSizeFacts
<1>5. PAGESIZE * (d + 1) <= PAGESIZE * (NPages + 1)
    BY <1>3, PageSizeFacts
<1>6. a < PAGESIZE * (d + 1)
    BY <1>3, PageSizeFacts
<1> QED
    BY <1>1, <1>2, <1>3, <1>4, <1>5, <1>6, PageSizeFacts

\* Every word of a chunk is on mapped pages.
LEMMA ChunkWord ==
    ASSUME NEW h, Sound(h), NEW cz, Chunked(h, cz), NEW s \in DOMAIN cz,
           NEW a \in Nat, s <= a, a < s + cz[s]
    PROVE  a \div PAGESIZE \in h.mapped /\ (a % 8 = 0 => a \in WordsOf(h.mapped))
<1>1. a \div PAGESIZE \in Pages(s, cz[s])
    BY InPages DEF Chunked, Placed
<1>2. a \div PAGESIZE \in h.mapped
    BY <1>1 DEF Chunked
<1>3. h.mapped \in SUBSET Nat
    BY DEF Sound, AllPages
<1> QED
    BY <1>2, <1>3, WordIn

\* HDRP does not wrap.
LEMMA HdrpIs ==
    ASSUME NEW b \in Nat, b >= 8, b < SIZE_MOD
    PROVE  HDRP(b) = b - 8
<1>1. b - 8 \in Nat /\ b - 8 < SIZE_MOD
    BY PageSizeFacts
<1> QED
    BY <1>1, WrapSmall DEF HDRP, BYTE

\* Marking a block writes its header and its footer.
LEMMA MarkGet ==
    ASSUME NEW h, Sound(h), NEW b \in Nat, NEW z \in Nat, NEW alloc \in {0, 1},
           b >= 16, z >= 32, b + z < SIZE_MOD,
           b - 8 \in WordsOf(h.mapped), b + z - 16 \in WordsOf(h.mapped)
    PROVE  LET g == Mark(h, b, z, alloc)
           IN  /\ Sound(g) /\ Kept(h, g) /\ g.free_start = h.free_start
               /\ \A x : GET(g, x) = IF x = b - 8 \/ x = b + z - 16 THEN z + alloc ELSE GET(h, x)
<1> DEFINE h1 == PUT(h, b - 8, z + alloc)
           g == PUT(h1, b + z - 16, z + alloc)
<1>0. IsHeap(h)
    BY DEF Sound
<1>1. Mark(h, b, z, alloc) = g
    <2>0. b < SIZE_MOD /\ b + z - 16 \in Nat /\ b + z - 16 < SIZE_MOD
        BY PageSizeFacts
    <2>1. HDRP(b) = b - 8
        BY <2>0, HdrpIs
    <2>2. Wrap(b + z - OVERHEAD) = b + z - 16
        BY <2>0, WrapSmall DEF OVERHEAD
    <2> QED
        BY <2>1, <2>2 DEF Mark, PACK
<1>2. z + alloc \in 0 .. SIZE_MOD - 1
    BY PageSizeFacts
<1>3. Sound(h1) /\ IsHeap(h1)
    BY <1>2, PutSound DEF Sound
<1>4. Kept(h, h1) /\ h1.free_start = h.free_start /\ \A x : GET(h1, x) = IF x = b - 8 THEN z + alloc ELSE GET(h, x)
    BY <1>0, PutGet DEF Kept
<1> HIDE DEF h1
<1>5. b + z - 16 \in WordsOf(h1.mapped)
    BY <1>4 DEF Kept
<1>6. Sound(g)
    BY <1>2, <1>3, <1>5, PutSound
<1>7. Kept(h, g) /\ g.free_start = h.free_start /\ \A x : GET(g, x) = IF x = b + z - 16 THEN z + alloc ELSE GET(h1, x)
    BY <1>3, <1>4, PutGet DEF Kept
<1> HIDE DEF g
<1> QED
    BY <1>1, <1>4, <1>6, <1>7

-----------------------------------------------------------------------------
(* Linking and unlinking.                                                  *)

\* The words of the links of the blocks listed are mapped.
LinksIn(h, L, n) ==
    \A i \in 1 .. n : L[i] \in WordsOf(h.mapped) /\ L[i] + 8 \in WordsOf(h.mapped)

\* Nothing but links was written.
OnlyLinks(h, g, S) ==
    \A x : (\A b \in S : x # b /\ x # b + 8) => GET(g, x) = GET(h, x)

\* The blocks of a list, a list without its k-th block, and one with b in front.
Entries(L, n) == {L[i] : i \in 1 .. n}

Cut(L, n, k) == [i \in 1 .. n - 1 |-> IF i < k THEN L[i] ELSE L[i + 1]]

Cons(b, L, n) == [i \in 1 .. n + 1 |-> IF i = 1 THEN b ELSE L[i - 1]]

\* The list does not care about other words.
LEMMA LinkedFrame ==
    ASSUME NEW h, NEW g, NEW L, NEW n, Linked(h, L, n), g.free_start = h.free_start,
           \A i \in 1 .. n : GET(g, L[i]) = GET(h, L[i]) /\ GET(g, L[i] + 8) = GET(h, L[i] + 8)
    PROVE  Linked(g, L, n)
BY DEF Linked

\* The entries of a list without its k-th block.
LEMMA CutIs ==
    ASSUME NEW h, NEW L, NEW n, Linked(h, L, n), NEW k \in 1 .. n
    PROVE  /\ n - 1 \in Nat /\ DOMAIN Cut(L, n, k) = 1 .. n - 1
           /\ \A i \in 1 .. n - 1 : Cut(L, n, k)[i] = IF i < k THEN L[i] ELSE L[i + 1]
           /\ Entries(Cut(L, n, k), n - 1) = Entries(L, n) \ {L[k]}
<1>1. /\ n - 1 \in Nat /\ DOMAIN Cut(L, n, k) = 1 .. n - 1
      /\ \A i \in 1 .. n - 1 : Cut(L, n, k)[i] = IF i < k THEN L[i] ELSE L[i + 1]
    BY DEF Linked, Cut
<1>0. n \in Nat /\ k \in Nat /\ \A i, j \in 1 .. n : i # j => L[i] # L[j]
    BY DEF Linked
<1>2. ASSUME NEW i \in 1 .. n - 1
      PROVE  Cut(L, n, k)[i] \in Entries(L, n) \ {L[k]}
    <2>1. i \in 1 .. n /\ i + 1 \in 1 .. n
        BY <1>0
    <2>2. PICK j \in 1 .. n : j # k /\ Cut(L, n, k)[i] = L[j]
        <3>1. CASE i < k
            BY <3>1, <2>1, <1>0, <1>1
        <3>2. CASE ~(i < k)
            <4>1. i + 1 # k
                BY <3>2, <1>0
            <4> QED
                BY <4>1, <3>2, <2>1, <1>1
        <3> QED
            BY <3>1, <3>2
    <2> QED
        BY <2>2, <1>0 DEF Entries
<1>3. ASSUME NEW j \in 1 .. n, L[j] # L[k]
      PROVE  \E i \in 1 .. n - 1 : L[j] = Cut(L, n, k)[i]
    <2>1. CASE j < k
        <3>1. j \in 1 .. n - 1
            BY <2>1, <1>0
        <3> QED
            BY <3>1, <2>1, <1>1
    <2>2. CASE j > k
        <3>1. j - 1 \in 1 .. n - 1 /\ ~(j - 1 < k) /\ (j - 1) + 1 = j
            BY <2>2 DEF Linked
        <3> QED
            BY <3>1, <1>1
    <2> QED
        BY <2>1, <2>2, <1>0, <1>3
<1> QED
    BY <1>1, <1>2, <1>3 DEF Entries

\* The entries of a list with b in front.
LEMMA ConsIs ==
    ASSUME NEW h, NEW L, NEW n, Linked(h, L, n), NEW b
    PROVE  /\ n + 1 \in Nat /\ DOMAIN Cons(b, L, n) = 1 .. n + 1
           /\ Cons(b, L, n)[1] = b
           /\ \A i \in 1 .. n : Cons(b, L, n)[i + 1] = L[i]
           /\ \A i \in 2 .. n + 1 : Cons(b, L, n)[i] = L[i - 1]
           /\ Entries(Cons(b, L, n), n + 1) = Entries(L, n) \cup {b}
<1>1. /\ n + 1 \in Nat /\ DOMAIN Cons(b, L, n) = 1 .. n + 1
      /\ Cons(b, L, n)[1] = b
      /\ \A i \in 1 .. n : Cons(b, L, n)[i + 1] = L[i]
      /\ \A i \in 2 .. n + 1 : Cons(b, L, n)[i] = L[i - 1]
    BY DEF Linked, Cons
<1>2. ASSUME NEW i \in 1 .. n + 1
      PROVE  Cons(b, L, n)[i] \in Entries(L, n) \cup {b}
    <2>1. CASE i = 1
        BY <2>1, <1>1
    <2>2. CASE i \in 2 .. n + 1
        <3>1. i - 1 \in 1 .. n
            BY <2>2 DEF Linked
        <3> QED
            BY <2>2, <3>1, <1>1 DEF Entries
    <2> QED
        BY <2>1, <2>2 DEF Linked
<1>3. ASSUME NEW j \in 1 .. n
      PROVE  \E i \in 1 .. n + 1 : L[j] = Cons(b, L, n)[i]
    <2>1. j + 1 \in 1 .. n + 1
        BY DEF Linked
    <2> QED
        BY <2>1, <1>1
<1>4. 1 \in 1 .. n + 1
    BY DEF Linked
<1> QED
    BY <1>1, <1>2, <1>3, <1>4 DEF Entries

\* push_free puts a block in front of the list and writes nothing but links.
LEMMA PushLinks ==
    ASSUME NEW h, Sound(h), NEW L, NEW n, Linked(h, L, n), LinksIn(h, L, n),
           NEW b \in Nat, b % 16 = 0, b \notin Entries(L, n),
           b \in WordsOf(h.mapped), b + 8 \in WordsOf(h.mapped)
    PROVE  LET g == push_free(h, b)
           IN  /\ Sound(g) /\ Kept(h, g)
               /\ Linked(g, Cons(b, L, n), n + 1)
               /\ OnlyLinks(h, g, Entries(L, n) \cup {b})
<1> DEFINE f == h.free_start
           h0 == [h EXCEPT !.free_start = b]
           h1 == PUT(h0, b, 0)
           h2 == PUT(h1, b + 8, f)
           h3 == PUT(h2, f, b)
           g == IF f = 0 THEN h2 ELSE h3
           M == Cons(b, L, n)
<1>0. b \in 0 .. SIZE_MOD - 1 /\ b # 0 /\ f \in 0 .. SIZE_MOD - 1 /\ h.mapped \in SUBSET AllPages
    <2>1. h.mapped \in SUBSET AllPages
        BY DEF Sound
    <2>2. b < SIZE_MOD /\ b >= PAGESIZE
        BY <2>1, WordSmall
    <2>3. n # 0 => L[1] \in Nat /\ L[1] < SIZE_MOD
        <3> SUFFICES ASSUME n # 0 PROVE L[1] \in Nat /\ L[1] < SIZE_MOD
            OBVIOUS
        <3>1. L[1] \in WordsOf(h.mapped)
            BY DEF LinksIn, Linked
        <3> QED
            BY <3>1, <2>1, WordSmall
    <2> QED
        BY <2>1, <2>2, <2>3, PageSizeFacts DEF Linked
<1>1. push_free(h, b) = g
    BY DEF push_free, prev, next, NULL, BYTE
<1>2. h0.free_start = b /\ Kept(h, h0) /\ Sound(h0) /\ \A x : GET(h0, x) = GET(h, x)
    BY FreeStartIs DEF Sound
<1> HIDE DEF h0
<1>3. h1.free_start = b /\ Kept(h, h1) /\ Sound(h1) /\ \A x : GET(h1, x) = IF x = b THEN 0 ELSE GET(h, x)
    <2>1. 0 \in 0 .. SIZE_MOD - 1
        BY PageSizeFacts
    <2> QED
        BY <2>1, <1>2, PutGet, PutSound DEF Sound, Kept
<1> HIDE DEF h1
<1>4. h2.free_start = b /\ Kept(h, h2) /\ Sound(h2)
      /\ \A x : GET(h2, x) = IF x = b + 8 THEN f ELSE IF x = b THEN 0 ELSE GET(h, x)
    BY <1>0, <1>3, PutGet, PutSound DEF Sound, Kept
<1> HIDE DEF h2
<1>5. M[1] = b /\ n + 1 \in Nat /\ DOMAIN M = 1 .. n + 1
      /\ (\A i \in 2 .. n + 1 : M[i] = L[i - 1]) /\ (\A i \in 1 .. n : M[i + 1] = L[i])
    BY ConsIs
<1>6. /\ n \in Nat
      /\ \A i \in 1 .. n : L[i] \in Nat /\ L[i] # 0 /\ L[i] % 16 = 0 /\ L[i] # b
    BY DEF Linked, Entries
<1>6a. /\ \A i, j \in 1 .. n : i # j => L[i] # L[j]
       /\ \A i \in 1 .. n : GET(h, L[i]) = IF i = 1 THEN 0 ELSE L[i - 1]
       /\ \A i \in 1 .. n : GET(h, L[i] + 8) = IF i = n THEN 0 ELSE L[i + 1]
       /\ f = IF n = 0 THEN 0 ELSE L[1]
    BY DEF Linked
<1> HIDE DEF M, f
<1>7. CASE n = 0
    <2>1. f = 0 /\ g = h2
        BY <1>7, <1>6a
    <2>2. Linked(g, M, n + 1)
        BY <2>1, <1>7, <1>4, <1>5, <1>0 DEF Linked
    <2>3. OnlyLinks(h, g, Entries(L, n) \cup {b})
        BY <2>1, <1>4 DEF OnlyLinks
    <2> QED
        BY <1>1, <1>4, <2>1, <2>2, <2>3 DEF M, f
<1>8. CASE n > 0
    <2>1. f = L[1] /\ f # 0 /\ g = h3
        BY <1>8, <1>6, <1>6a
    <2>2. h3.free_start = b /\ Kept(h, h3) /\ Sound(h3)
          /\ \A x : GET(h3, x) = IF x = f THEN b ELSE GET(h2, x)
        <3>1. f \in WordsOf(h2.mapped)
            BY <2>1, <1>8, <1>4, <1>6 DEF LinksIn, Kept
        <3>2. Sound(h2) /\ IsHeap(h2) /\ b \in 0 .. SIZE_MOD - 1
            BY <1>4, <1>0 DEF Sound
        <3>3. Sound(h3)
            BY <3>1, <3>2, PutSound
        <3>4. /\ \A x : GET(h3, x) = IF x = f THEN b ELSE GET(h2, x)
              /\ h3.mapped = h2.mapped /\ h3.home_pg = h2.home_pg /\ h3.free_start = h2.free_start
            BY <3>2, PutGet
        <3> QED
            BY <3>3, <3>4, <1>4 DEF Kept
    <2> HIDE DEF h3
    <2>3. \A x : GET(h3, x) = IF x = f THEN b ELSE IF x = b + 8 THEN f ELSE IF x = b THEN 0 ELSE GET(h, x)
        BY <2>2, <1>4
    <2>4. /\ f \in Nat /\ f % 16 = 0 /\ f # b
        BY <2>1, <1>6, <1>8
    <2>5. \A i \in 1 .. n + 1 : M[i] \in Nat \ {0} /\ M[i] % 16 = 0
        <3>1. ASSUME NEW i \in 2 .. n + 1
              PROVE  M[i] \in Nat \ {0} /\ M[i] % 16 = 0
            <4>1. i - 1 \in 1 .. n /\ M[i] = L[i - 1]
                BY <1>5, <1>6
            <4>2. L[i - 1] \in Nat /\ L[i - 1] # 0 /\ L[i - 1] % 16 = 0
                BY <4>1, <1>6
            <4> QED
                BY <4>1, <4>2
        <3>2. b \in Nat \ {0} /\ b % 16 = 0 /\ M[1] = b
            BY <1>0, <1>5
        <3> QED
            BY <3>1, <3>2, <1>6
    <2>6. \A i, j \in 1 .. n + 1 : i # j => M[i] # M[j]
        <3> SUFFICES ASSUME NEW i \in 1 .. n + 1, NEW j \in 1 .. n + 1, i < j
                     PROVE  M[i] # M[j]
            BY <1>6
        <3>1. j \in 2 .. n + 1 /\ j - 1 \in 1 .. n /\ M[j] = L[j - 1]
            BY <1>5, <1>6
        <3>2. CASE i = 1
            BY <3>1, <3>2, <1>5, <1>6
        <3>3. CASE i # 1
            <4>1. i \in 2 .. n + 1 /\ i - 1 \in 1 .. n /\ M[i] = L[i - 1]
                BY <3>3, <1>5, <1>6
            <4> QED
                BY <4>1, <3>1, <1>6a
        <3> QED
            BY <3>2, <3>3
    <2>7. \A i \in 1 .. n + 1 : GET(h3, M[i]) = IF i = 1 THEN 0 ELSE M[i - 1]
        <3> SUFFICES ASSUME NEW i \in 1 .. n + 1
                     PROVE  GET(h3, M[i]) = IF i = 1 THEN 0 ELSE M[i - 1]
            OBVIOUS
        <3>1. CASE i = 1
            <4>1. M[i] = b /\ b # f /\ b # b + 8
                BY <3>1, <2>4, <1>5
            <4> QED
                BY <4>1, <3>1, <2>3
        <3>2. CASE i = 2
            BY <3>2, <2>3, <2>1, <1>5, <1>6
        <3>3. CASE i > 2
            <4>1. /\ i - 1 \in 1 .. n /\ i - 1 \in 2 .. n + 1 /\ (i - 1) - 1 \in 1 .. n
                  /\ i \in 2 .. n + 1
                BY <3>3, <1>6
            <4>2. M[i] = L[i - 1] /\ M[i - 1] = L[(i - 1) - 1] /\ L[i - 1] # L[1] /\ L[i - 1] # b
                BY <4>1, <3>3, <1>5, <1>6, <1>6a
            <4>3. L[i - 1] # b + 8
                BY <4>1, <1>6
            <4>4. GET(h, L[i - 1]) = L[(i - 1) - 1]
                BY <4>1, <3>3, <1>6a
            <4> QED
                BY <4>2, <4>3, <4>4, <2>3, <2>1, <3>3
        <3> QED
            BY <3>1, <3>2, <3>3, <1>6
    <2>8. \A i \in 1 .. n + 1 : GET(h3, M[i] + 8) = IF i = n + 1 THEN 0 ELSE M[i + 1]
        <3> SUFFICES ASSUME NEW i \in 1 .. n + 1
                     PROVE  GET(h3, M[i] + 8) = IF i = n + 1 THEN 0 ELSE M[i + 1]
            OBVIOUS
        <3>1. CASE i = 1
            <4>1. b + 8 # f
                BY <2>4
            <4> QED
                BY <4>1, <3>1, <2>3, <2>1, <1>5, <1>8, <1>6
        <3>2. CASE i > 1
            <4>1. i - 1 \in 1 .. n /\ i \in 2 .. n + 1 /\ M[i] = L[i - 1]
                BY <3>2, <1>5, <1>6
            <4>2. L[i - 1] + 8 # f /\ L[i - 1] + 8 # b + 8 /\ L[i - 1] + 8 # b
                BY <4>1, <1>6, <2>4
            <4>3. GET(h3, M[i] + 8) = GET(h, L[i - 1] + 8)
                BY <4>1, <4>2, <2>3
            <4>4. GET(h, L[i - 1] + 8) = IF i - 1 = n THEN 0 ELSE L[(i - 1) + 1]
                BY <4>1, <1>6a
            <4>5. i # n + 1 => i \in 1 .. n /\ M[i + 1] = L[i] /\ (i - 1) + 1 = i
                BY <1>5, <1>6
            <4>6. i - 1 = n <=> i = n + 1
                BY <1>6
            <4> QED
                BY <4>3, <4>4, <4>5, <4>6
        <3> QED
            BY <3>1, <3>2, <1>6
    <2>9. Linked(h3, M, n + 1)
        <3>1. h3.free_start = M[1] /\ n + 1 # 0
            BY <2>2, <1>5, <1>6
        <3> QED
            BY <3>1, <2>5, <2>6, <2>7, <2>8, <1>5 DEF Linked
    <2>10. OnlyLinks(h, h3, Entries(L, n) \cup {b})
        <3>1. f \in Entries(L, n)
            BY <2>1, <1>8, <1>6 DEF Entries
        <3> QED
            BY <3>1, <2>3 DEF OnlyLinks
    <2> QED
        BY <1>1, <2>1, <2>2, <2>9, <2>10 DEF M
<1> QED
    BY <1>6, <1>7, <1>8

\* A word written over keeps the heap sound.
LEMMA PutAll ==
    ASSUME NEW h, Sound(h), NEW a \in WordsOf(h.mapped), NEW v \in 0 .. SIZE_MOD - 1
    PROVE  LET g == PUT(h, a, v)
           IN  /\ Sound(g) /\ IsHeap(g) /\ Kept(h, g) /\ g.free_start = h.free_start
               /\ \A x : GET(g, x) = IF x = a THEN v ELSE GET(h, x)
BY PutGet, PutSound DEF Sound, Kept

\* A listed address is a size_t.
LEMMA ListedSmall ==
    ASSUME NEW h, Sound(h), NEW L, NEW n, Linked(h, L, n), LinksIn(h, L, n), NEW i \in 1 .. n
    PROVE  L[i] \in 0 .. SIZE_MOD - 1
<1>1. h.mapped \in SUBSET AllPages /\ L[i] \in WordsOf(h.mapped)
    BY DEF Sound, LinksIn
<1> QED
    BY <1>1, WordSmall, PageSizeFacts

\* What the words of a list with one block less must be for it to be a list.
LEMMA CutLinked ==
    ASSUME NEW h, NEW L, NEW n, Linked(h, L, n), NEW k \in 1 .. n, NEW g,
           g.free_start = IF k > 1 THEN h.free_start ELSE IF n = 1 THEN 0 ELSE L[2],
           \A i \in 1 .. n : i # k => GET(g, L[i]) = IF i = k + 1
                                                     THEN (IF k = 1 THEN 0 ELSE L[k - 1])
                                                     ELSE GET(h, L[i]),
           \A i \in 1 .. n : i # k => GET(g, L[i] + 8) = IF i = k - 1
                                                     THEN (IF k = n THEN 0 ELSE L[k + 1])
                                                     ELSE GET(h, L[i] + 8)
    PROVE  Linked(g, Cut(L, n, k), n - 1)
<1> DEFINE M == Cut(L, n, k)
<1>1. /\ n - 1 \in Nat /\ DOMAIN M = 1 .. n - 1
      /\ \A i \in 1 .. n - 1 : M[i] = IF i < k THEN L[i] ELSE L[i + 1]
    BY CutIs
<1> HIDE DEF M
<1>2. /\ n \in Nat /\ k \in Nat
      /\ \A i \in 1 .. n : L[i] \in Nat \ {0} /\ L[i] % 16 = 0
      /\ \A i, j \in 1 .. n : i # j => L[i] # L[j]
      /\ \A i \in 1 .. n : GET(h, L[i]) = IF i = 1 THEN 0 ELSE L[i - 1]
      /\ \A i \in 1 .. n : GET(h, L[i] + 8) = IF i = n THEN 0 ELSE L[i + 1]
      /\ h.free_start = IF n = 0 THEN 0 ELSE L[1]
    BY DEF Linked
<1>3. \A i \in 1 .. n - 1 : M[i] \in Nat \ {0} /\ M[i] % 16 = 0
    <2> TAKE i \in 1 .. n - 1
    <2>1. i \in 1 .. n /\ i + 1 \in 1 .. n
        BY <1>2
    <2>2. M[i] = L[i] \/ M[i] = L[i + 1]
        BY <1>1
    <2>3. L[i] \in Nat \ {0} /\ L[i] % 16 = 0
        BY <2>1, <1>2
    <2>4. L[i + 1] \in Nat \ {0} /\ L[i + 1] % 16 = 0
        BY <2>1, <1>2
    <2> QED
        BY <2>2, <2>3, <2>4, Zenon
<1>4. \A i, j \in 1 .. n - 1 : i # j => M[i] # M[j]
    <2> SUFFICES ASSUME NEW i \in 1 .. n - 1, NEW j \in 1 .. n - 1, i # j
                 PROVE  M[i] # M[j]
        OBVIOUS
    <2>1. i \in 1 .. n /\ i + 1 \in 1 .. n /\ j \in 1 .. n /\ j + 1 \in 1 .. n
        BY <1>2
    <2>2. /\ (i < k /\ M[i] = L[i]) \/ (~(i < k) /\ M[i] = L[i + 1])
          /\ (j < k /\ M[j] = L[j]) \/ (~(j < k) /\ M[j] = L[j + 1])
        BY <1>1
    <2>3. /\ i + 1 # j + 1 /\ (i < k /\ ~(j < k) => i # j + 1) /\ (j < k /\ ~(i < k) => j # i + 1)
        BY <1>2
    <2> QED
        BY <2>1, <2>2, <2>3, <1>2
<1>5. \A i \in 1 .. n - 1 : GET(g, M[i]) = IF i = 1 THEN 0 ELSE M[i - 1]
    <2> SUFFICES ASSUME NEW i \in 1 .. n - 1
                 PROVE  GET(g, M[i]) = IF i = 1 THEN 0 ELSE M[i - 1]
        OBVIOUS
    <2>1. CASE i < k
        <3>1. i \in 1 .. n /\ i # k /\ i # k + 1 /\ M[i] = L[i]
            BY <2>1, <1>1, <1>2
        <3>2. GET(g, M[i]) = GET(h, L[i])
            BY <3>1
        <3>3. i # 1 => i - 1 \in 1 .. n - 1 /\ M[i - 1] = L[i - 1]
            BY <2>1, <1>1, <1>2
        <3> QED
            BY <3>1, <3>2, <3>3, <1>2
    <2>2. CASE i = k
        <3>1. i + 1 \in 1 .. n /\ i + 1 # k /\ i + 1 = k + 1 /\ M[i] = L[i + 1]
            BY <2>2, <1>1, <1>2
        <3>2. GET(g, M[i]) = IF k = 1 THEN 0 ELSE L[k - 1]
            BY <3>1
        <3>3. i # 1 => i - 1 \in 1 .. n - 1 /\ M[i - 1] = L[i - 1]
            BY <2>2, <1>1, <1>2
        <3> QED
            BY <2>2, <3>2, <3>3
    <2>3. CASE i > k
        <3>1. i + 1 \in 1 .. n /\ i + 1 # k /\ i + 1 # k + 1 /\ i + 1 # 1 /\ M[i] = L[i + 1]
            BY <2>3, <1>1, <1>2
        <3>2. GET(g, M[i]) = L[(i + 1) - 1] /\ (i + 1) - 1 = i
            BY <3>1, <1>2
        <3>3. i # 1 /\ i - 1 \in 1 .. n - 1 /\ M[i - 1] = L[(i - 1) + 1] /\ (i - 1) + 1 = i
            BY <2>3, <1>1, <1>2
        <3> QED
            BY <3>2, <3>3
    <2> QED
        BY <2>1, <2>2, <2>3, <1>2
<1>6. \A i \in 1 .. n - 1 : GET(g, M[i] + 8) = IF i = n - 1 THEN 0 ELSE M[i + 1]
    <2> SUFFICES ASSUME NEW i \in 1 .. n - 1
                 PROVE  GET(g, M[i] + 8) = IF i = n - 1 THEN 0 ELSE M[i + 1]
        OBVIOUS
    <2>0. i # n - 1 => i + 1 \in 1 .. n - 1
        BY <1>2
    <2>1. CASE i < k - 1
        <3>1. i \in 1 .. n /\ i # k /\ i # k - 1 /\ i # n /\ i # n - 1 /\ M[i] = L[i]
            BY <2>1, <1>1, <1>2
        <3>2. GET(g, M[i] + 8) = L[i + 1]
            BY <3>1, <1>2
        <3>3. M[i + 1] = L[i + 1]
            BY <2>0, <3>1, <2>1, <1>1, <1>2
        <3> QED
            BY <3>1, <3>2, <3>3
    <2>2. CASE i = k - 1
        <3>1. i \in 1 .. n /\ i # k /\ M[i] = L[i] /\ (k = n <=> i = n - 1)
            BY <2>2, <1>1, <1>2
        <3>2. GET(g, M[i] + 8) = IF k = n THEN 0 ELSE L[k + 1]
            BY <3>1, <2>2
        <3>3. i # n - 1 => M[i + 1] = L[k + 1]
            BY <2>0, <2>2, <1>1, <1>2
        <3> QED
            BY <3>1, <3>2, <3>3
    <2>3. CASE i >= k
        <3>1. i + 1 \in 1 .. n /\ i + 1 # k /\ i + 1 # k - 1 /\ M[i] = L[i + 1]
              /\ (i + 1 = n <=> i = n - 1)
            BY <2>3, <1>1, <1>2
        <3>2. GET(g, M[i] + 8) = IF i = n - 1 THEN 0 ELSE L[(i + 1) + 1]
            BY <3>1, <1>2
        <3>3. i # n - 1 => M[i + 1] = L[(i + 1) + 1]
            BY <2>0, <2>3, <1>1, <1>2
        <3> QED
            BY <3>2, <3>3
    <2> QED
        BY <2>1, <2>2, <2>3, <1>2
<1>7. g.free_start = IF n - 1 = 0 THEN 0 ELSE M[1]
    <2>1. CASE k > 1
        <3>1. n # 0 /\ n - 1 # 0 /\ 1 \in 1 .. n - 1 /\ M[1] = L[1]
            BY <2>1, <1>1, <1>2
        <3> QED
            BY <2>1, <3>1, <1>2
    <2>2. CASE k = 1
        <3>1. n # 1 => n - 1 # 0 /\ 1 \in 1 .. n - 1 /\ M[1] = L[2]
            BY <2>2, <1>1, <1>2
        <3> QED
            BY <2>2, <3>1
    <2> QED
        BY <2>1, <2>2, <1>2
<1> QED
    BY <1>1, <1>3, <1>4, <1>5, <1>6, <1>7 DEF Linked, M

\* pop_free takes a block off the list, wherever it is, and writes nothing but links.
LEMMA PopLinks ==
    ASSUME NEW h, Sound(h), NEW L, NEW n, Linked(h, L, n), LinksIn(h, L, n),
           NEW k \in 1 .. n
    PROVE  LET g == pop_free(h, L[k])
           IN  /\ Sound(g) /\ Kept(h, g)
               /\ Linked(g, Cut(L, n, k), n - 1)
               /\ OnlyLinks(h, g, Entries(L, n))
<1> DEFINE p == GET(h, L[k])
           q == GET(h, L[k] + 8)
           g == pop_free(h, L[k])
<1>1. /\ n \in Nat /\ k \in Nat
      /\ \A i \in 1 .. n : L[i] \in Nat /\ L[i] # 0 /\ L[i] % 16 = 0
      /\ \A i, j \in 1 .. n : i # j => L[i] # L[j]
      /\ \A i \in 1 .. n : GET(h, L[i]) = IF i = 1 THEN 0 ELSE L[i - 1]
      /\ \A i \in 1 .. n : GET(h, L[i] + 8) = IF i = n THEN 0 ELSE L[i + 1]
      /\ h.free_start = IF n = 0 THEN 0 ELSE L[1]
    BY DEF Linked
<1>2. /\ p = IF k = 1 THEN 0 ELSE L[k - 1]
      /\ q = IF k = n THEN 0 ELSE L[k + 1]
    BY <1>1
<1>3. /\ k # 1 => k - 1 \in 1 .. n
      /\ k # n => k + 1 \in 1 .. n
    BY <1>1
<1>4. /\ k # 1 => p # 0 /\ p = L[k - 1] /\ p \in Nat /\ p % 16 = 0 /\ p \in Entries(L, n)
      /\ k # n => q # 0 /\ q = L[k + 1] /\ q \in Nat /\ q % 16 = 0 /\ q \in Entries(L, n)
      /\ k = 1 => p = 0
      /\ k = n => q = 0
    BY <1>1, <1>2, <1>3 DEF Entries
<1>5. /\ k # 1 => p \in 0 .. SIZE_MOD - 1 /\ p + 8 \in WordsOf(h.mapped)
      /\ k # n => q \in 0 .. SIZE_MOD - 1 /\ q \in WordsOf(h.mapped)
    BY <1>2, <1>3, ListedSmall DEF LinksIn
<1>6. 0 \in 0 .. SIZE_MOD - 1
    BY PageSizeFacts
\* which words of the others are written
<1>7. \A i \in 1 .. n : /\ k # 1 => (L[i] # p + 8) /\ (L[i] = p <=> i = k - 1)
                        /\ k # 1 => (L[i] + 8 = p + 8 <=> i = k - 1)
                        /\ k # n => (L[i] + 8 # q) /\ (L[i] = q <=> i = k + 1)
    <2> TAKE i \in 1 .. n
    <2>1. L[i] \in Nat /\ L[i] % 16 = 0
        BY <1>1
    <2>2. k # 1 => (L[i] # p + 8) /\ (L[i] = p <=> i = k - 1) /\ (L[i] + 8 = p + 8 <=> i = k - 1)
        <3> SUFFICES ASSUME k # 1
                     PROVE  (L[i] # p + 8) /\ (L[i] = p <=> i = k - 1) /\ (L[i] + 8 = p + 8 <=> i = k - 1)
            OBVIOUS
        <3>1. p \in Nat /\ p % 16 = 0 /\ p = L[k - 1] /\ k - 1 \in 1 .. n
            BY <1>3, <1>4
        <3> HIDE DEF p
        <3>2. L[i] # p + 8
            BY <2>1, <3>1
        <3>3. L[i] = p <=> i = k - 1
            BY <3>1, <1>1
        <3> QED
            BY <3>1, <2>1, <3>2, <3>3
    <2>3. k # n => (L[i] + 8 # q) /\ (L[i] = q <=> i = k + 1)
        <3> SUFFICES ASSUME k # n
                     PROVE  (L[i] + 8 # q) /\ (L[i] = q <=> i = k + 1)
            OBVIOUS
        <3>1. q \in Nat /\ q % 16 = 0 /\ q = L[k + 1] /\ k + 1 \in 1 .. n
            BY <1>3, <1>4
        <3> HIDE DEF q
        <3>2. L[i] + 8 # q
            BY <2>1, <3>1
        <3>3. L[i] = q <=> i = k + 1
            BY <3>1, <1>1
        <3> QED
            BY <3>2, <3>3
    <2> QED
        BY <2>2, <2>3
<1> HIDE DEF p, q
<1>8. CASE k # 1 /\ k # n
    <2> DEFINE h1 == PUT(h, p + 8, q)
               h2 == PUT(h1, q, p)
    <2>1. g = h2
        BY <1>8, <1>4 DEF pop_free, prev, next, NULL, BYTE, p, q
    <2>2. Sound(h1) /\ Kept(h, h1) /\ h1.free_start = h.free_start
          /\ \A x : GET(h1, x) = IF x = p + 8 THEN q ELSE GET(h, x)
        BY <1>8, <1>5, PutAll
    <2> HIDE DEF h1
    <2>3. q \in WordsOf(h1.mapped) /\ p \in 0 .. SIZE_MOD - 1
        BY <2>2, <1>8, <1>5 DEF Kept
    <2>4. Sound(h2) /\ Kept(h, h2) /\ h2.free_start = h.free_start
          /\ \A x : GET(h2, x) = IF x = q THEN p ELSE GET(h1, x)
        BY <2>2, <2>3, PutAll DEF Kept
    <2> HIDE DEF h2
    <2>5. \A x : GET(h2, x) = IF x = q THEN p ELSE IF x = p + 8 THEN q ELSE GET(h, x)
        BY <2>2, <2>4
    <2>6. \A i \in 1 .. n : i # k => GET(h2, L[i]) = IF i = k + 1
                                                     THEN (IF k = 1 THEN 0 ELSE L[k - 1])
                                                     ELSE GET(h, L[i])
        BY <2>5, <1>7, <1>8, <1>4
    <2>7. \A i \in 1 .. n : i # k => GET(h2, L[i] + 8) = IF i = k - 1
                                                     THEN (IF k = n THEN 0 ELSE L[k + 1])
                                                     ELSE GET(h, L[i] + 8)
        BY <2>5, <1>7, <1>8, <1>4
    <2>8. h2.free_start = IF k > 1 THEN h.free_start ELSE IF n = 1 THEN 0 ELSE L[2]
        BY <2>4, <1>8, <1>1
    <2>9. Linked(h2, Cut(L, n, k), n - 1)
        BY <2>6, <2>7, <2>8, CutLinked
    <2>10. OnlyLinks(h, h2, Entries(L, n))
        BY <2>5, <1>8, <1>4 DEF OnlyLinks
    <2> QED
        BY <2>1, <2>4, <2>9, <2>10
<1>9. CASE k # 1 /\ k = n
    <2> DEFINE h1 == PUT(h, p + 8, 0)
    <2>1. g = h1
        BY <1>9, <1>4 DEF pop_free, prev, next, NULL, BYTE, p, q
    <2>2. Sound(h1) /\ Kept(h, h1) /\ h1.free_start = h.free_start
          /\ \A x : GET(h1, x) = IF x = p + 8 THEN 0 ELSE GET(h, x)
        BY <1>9, <1>5, <1>6, PutAll
    <2> HIDE DEF h1
    <2>6. \A i \in 1 .. n : i # k => GET(h1, L[i]) = IF i = k + 1
                                                     THEN (IF k = 1 THEN 0 ELSE L[k - 1])
                                                     ELSE GET(h, L[i])
        <3> SUFFICES ASSUME NEW i \in 1 .. n
                     PROVE  i # k + 1 /\ GET(h1, L[i]) = GET(h, L[i])
            OBVIOUS
        <3>1. i # k + 1 /\ L[i] # p + 8
            BY <1>9, <1>7, <1>1
        <3> QED
            BY <3>1, <2>2
    <2>7. \A i \in 1 .. n : i # k => GET(h1, L[i] + 8) = IF i = k - 1
                                                     THEN (IF k = n THEN 0 ELSE L[k + 1])
                                                     ELSE GET(h, L[i] + 8)
        BY <2>2, <1>7, <1>9
    <2>8. h1.free_start = IF k > 1 THEN h.free_start ELSE IF n = 1 THEN 0 ELSE L[2]
        BY <2>2, <1>9, <1>1
    <2>9. Linked(h1, Cut(L, n, k), n - 1)
        BY <2>6, <2>7, <2>8, CutLinked
    <2>10. OnlyLinks(h, h1, Entries(L, n))
        BY <2>2, <1>9, <1>4 DEF OnlyLinks
    <2> QED
        BY <2>1, <2>2, <2>9, <2>10
<1>10. CASE k = 1 /\ k # n
    <2> DEFINE h0 == [h EXCEPT !.free_start = q]
               h1 == PUT(h0, q, 0)
    <2>1. g = h1
        BY <1>10, <1>4 DEF pop_free, prev, next, NULL, BYTE, p, q
    <2>2. Sound(h0) /\ Kept(h, h0) /\ h0.free_start = q /\ \A x : GET(h0, x) = GET(h, x)
        BY FreeStartIs DEF Sound
    <2> HIDE DEF h0
    <2>3. q \in WordsOf(h0.mapped)
        BY <2>2, <1>10, <1>5 DEF Kept
    <2>4. Sound(h1) /\ Kept(h0, h1) /\ h1.free_start = h0.free_start
          /\ \A x : GET(h1, x) = IF x = q THEN 0 ELSE GET(h0, x)
        BY <2>2, <2>3, <1>6, PutAll
    <2> HIDE DEF h1
    <2>5. Kept(h, h1) /\ h1.free_start = q /\ \A x : GET(h1, x) = IF x = q THEN 0 ELSE GET(h, x)
        BY <2>2, <2>4 DEF Kept
    <2>6. \A i \in 1 .. n : i # k => GET(h1, L[i]) = IF i = k + 1
                                                     THEN (IF k = 1 THEN 0 ELSE L[k - 1])
                                                     ELSE GET(h, L[i])
        BY <2>5, <1>7, <1>10
    <2>7. \A i \in 1 .. n : i # k => GET(h1, L[i] + 8) = IF i = k - 1
                                                     THEN (IF k = n THEN 0 ELSE L[k + 1])
                                                     ELSE GET(h, L[i] + 8)
        <3> SUFFICES ASSUME NEW i \in 1 .. n
                     PROVE  i # k - 1 /\ GET(h1, L[i] + 8) = GET(h, L[i] + 8)
            OBVIOUS
        <3>1. i # k - 1 /\ L[i] + 8 # q
            BY <1>10, <1>7, <1>1
        <3> QED
            BY <3>1, <2>5
    <2>8. h1.free_start = IF k > 1 THEN h.free_start ELSE IF n = 1 THEN 0 ELSE L[2]
        BY <2>5, <1>10, <1>4
    <2>9. Linked(h1, Cut(L, n, k), n - 1)
        BY <2>6, <2>7, <2>8, CutLinked
    <2>10. OnlyLinks(h, h1, Entries(L, n))
        BY <2>5, <1>10, <1>4 DEF OnlyLinks
    <2> QED
        BY <2>1, <2>4, <2>5, <2>9, <2>10
<1>11. CASE k = 1 /\ k = n
    <2> DEFINE f == h.free_start
               h0 == [h EXCEPT !.free_start = 0]
               h1 == PUT(h0, f, 0)
               h2 == PUT(h1, f + 8, 0)
    <2>0. f = L[1] /\ f \in Entries(L, n)
        BY <1>11, <1>1 DEF Entries
    <2>1. g = h2
        BY <1>11, <1>4 DEF pop_free, prev, next, NULL, BYTE, p, q
    <2> HIDE DEF f
    <2>2. Sound(h0) /\ Kept(h, h0) /\ h0.free_start = 0 /\ \A x : GET(h0, x) = GET(h, x)
        BY FreeStartIs DEF Sound
    <2> HIDE DEF h0
    <2>3. f \in WordsOf(h0.mapped) /\ f + 8 \in WordsOf(h0.mapped)
        BY <2>0, <2>2, <1>11 DEF Kept, LinksIn
    <2>4. Sound(h1) /\ Kept(h0, h1) /\ h1.free_start = 0
          /\ \A x : GET(h1, x) = IF x = f THEN 0 ELSE GET(h0, x)
        BY <2>2, <2>3, <1>6, PutAll
    <2> HIDE DEF h1
    <2>5. f + 8 \in WordsOf(h1.mapped)
        BY <2>3, <2>4 DEF Kept
    <2>6. Sound(h2) /\ Kept(h1, h2) /\ h2.free_start = 0
          /\ \A x : GET(h2, x) = IF x = f + 8 THEN 0 ELSE GET(h1, x)
        BY <2>4, <2>5, <1>6, PutAll
    <2> HIDE DEF h2
    <2>7. Kept(h, h2)
        BY <2>2, <2>4, <2>6 DEF Kept
    <2>8. \A i \in 1 .. n : i = k
        BY <1>11, <1>1
    <2>9. h2.free_start = IF k > 1 THEN h.free_start ELSE IF n = 1 THEN 0 ELSE L[2]
        BY <2>6, <1>11
    <2>10. Linked(h2, Cut(L, n, k), n - 1)
        BY <2>8, <2>9, CutLinked
    <2>11. OnlyLinks(h, h2, Entries(L, n))
        BY <2>0, <2>2, <2>4, <2>6 DEF OnlyLinks
    <2> QED
        BY <2>1, <2>6, <2>7, <2>10, <2>11
<1> QED
    BY <1>8, <1>9, <1>10, <1>11

-----------------------------------------------------------------------------
(* How blocks tile their chunks.                                           *)

\* A function with one value set, and one with part of its domain left out.
Put(f, x, v) == [y \in DOMAIN f \cup {x} |-> IF y = x THEN v ELSE f[y]]

Without(f, S) == [y \in DOMAIN f \ S |-> f[y]]

\* What Put changes.
LEMMA PutIs ==
    ASSUME NEW f, NEW x, NEW v
    PROVE  /\ DOMAIN Put(f, x, v) = DOMAIN f \cup {x}
           /\ Put(f, x, v)[x] = v
           /\ \A y \in DOMAIN f : y # x => Put(f, x, v)[y] = f[y]
           /\ \A y \in DOMAIN f \cup {x} : Put(f, x, v)[y] = IF y = x THEN v ELSE f[y]
BY DEF Put

\* What Without leaves.
LEMMA WithoutIs ==
    ASSUME NEW f, NEW S
    PROVE  /\ DOMAIN Without(f, S) = DOMAIN f \ S
           /\ \A y \in DOMAIN f \ S : Without(f, S)[y] = f[y]
BY DEF Without

\* The blocks that start inside of the z bytes from b on.
Swallowed(sz, b, z) == {x \in DOMAIN sz : b < x /\ x < b + z}

\* One block in place of all those from b on that lie in z bytes.
Merge(sz, b, z) == Put(Without(sz, Swallowed(sz, b, z)), b, z)

\* Two blocks in place of one, the first of k bytes.
Split(sz, b, k) == Put(Put(sz, b, k), b + k, sz[b] - k)

\* A merge keeps the block and drops the ones it swallows.
LEMMA MergeDomain ==
    ASSUME NEW sz, NEW b \in DOMAIN sz, NEW z, b \in Nat
    PROVE  DOMAIN Merge(sz, b, z) = DOMAIN sz \ Swallowed(sz, b, z) /\ b \in DOMAIN Merge(sz, b, z)
<1>1. b \notin Swallowed(sz, b, z)
    BY DEF Swallowed
<1> QED
    BY <1>1 DEF Merge, Put, Without

\* The sizes after a merge.
LEMMA MergeAt ==
    ASSUME NEW sz, NEW b \in DOMAIN sz, NEW z, b \in Nat
    PROVE  /\ Merge(sz, b, z)[b] = z
           /\ \A x \in DOMAIN sz \ Swallowed(sz, b, z) : x # b => Merge(sz, b, z)[x] = sz[x]
<1>1. b \notin Swallowed(sz, b, z)
    BY DEF Swallowed
<1> QED
    BY <1>1 DEF Merge, Put, Without

\* A split adds one block.
LEMMA SplitDomain ==
    ASSUME NEW sz, NEW b \in DOMAIN sz, NEW k
    PROVE  DOMAIN Split(sz, b, k) = DOMAIN sz \cup {b + k}
BY DEF Split, Put

\* The sizes after a split.
LEMMA SplitAt ==
    ASSUME NEW sz, NEW b \in DOMAIN sz, NEW k \in Nat, k > 0, b \in Nat
    PROVE  /\ Split(sz, b, k)[b] = k
           /\ Split(sz, b, k)[b + k] = sz[b] - k
           /\ \A x \in DOMAIN sz : x # b /\ x # b + k => Split(sz, b, k)[x] = sz[x]
<1>1. b + k # b
    OBVIOUS
<1> QED
    BY <1>1 DEF Split, Put

\* Addresses and sizes of blocks.
LEMMA BlockFacts ==
    ASSUME NEW cz, Placed(cz), NEW sz, Tiled(cz, sz), NEW b \in DOMAIN sz
    PROVE  /\ b \in Nat /\ b % 16 = 0 /\ b >= 48 /\ b < SIZE_MOD
           /\ sz[b] \in Nat /\ sz[b] >= 32 /\ sz[b] % 16 = 0
           /\ b + sz[b] < SIZE_MOD /\ sz[b] < SIZE_MOD - 1
           /\ \E s \in DOMAIN cz : s + 32 <= b /\ b + sz[b] <= s + cz[s]
<1>1. PICK s \in DOMAIN cz : s + 32 <= b /\ b + sz[b] <= s + cz[s]
    BY DEF Tiled
<1>2. s \in Nat /\ s >= 16 /\ cz[s] \in Nat /\ s + cz[s] < SIZE_MOD
    BY DEF Placed
<1>3. b \in Nat /\ b % 16 = 0 /\ sz[b] \in Nat /\ sz[b] >= 32 /\ sz[b] % 16 = 0
    BY DEF Tiled
<1> QED
    BY <1>1, <1>2, <1>3, PageSizeFacts

\* A word of a block is no word of another block, nor one of a chunk's own.
LEMMA OwnWord ==
    ASSUME NEW cz, Placed(cz), NEW sz, Tiled(cz, sz), NEW b \in DOMAIN sz,
           NEW x \in Int, b - 8 <= x, x < b + sz[b] - 8
    PROVE  /\ \A s \in DOMAIN cz : x # s + 8 /\ x # s + 16 /\ x # s + cz[s] - 8
           /\ \A c \in DOMAIN sz : c # b => ~(c - 8 <= x /\ x < c + sz[c] - 8)
<1>1. b \in Nat /\ sz[b] \in Nat
    BY DEF Tiled
<1>2. PICK t \in DOMAIN cz : t + 32 <= b /\ b + sz[b] <= t + cz[t]
    BY DEF Tiled
<1>3. ASSUME NEW s \in DOMAIN cz
      PROVE  x # s + 8 /\ x # s + 16 /\ x # s + cz[s] - 8
    <2>1. s \in Nat /\ t \in Nat /\ cz[s] \in Nat /\ cz[t] \in Nat /\ cz[s] >= 64 /\ cz[t] >= 64
        BY DEF Placed
    <2>2. s = t \/ s + cz[s] <= t \/ t + cz[t] <= s
        BY DEF Placed
    <2>3. s = t => cz[s] = cz[t]
        OBVIOUS
    <2> QED
        BY <1>1, <1>2, <2>1, <2>2, <2>3
<1>4. ASSUME NEW c \in DOMAIN sz, c # b
      PROVE  ~(c - 8 <= x /\ x < c + sz[c] - 8)
    <2>1. c \in Nat /\ sz[c] \in Nat /\ (b + sz[b] <= c \/ c + sz[c] <= b)
        BY <1>4 DEF Tiled
    <2> QED
        BY <1>1, <2>1
<1> QED
    BY <1>3, <1>4

\* What follows a block is a block or the end of the chunk, what precedes it a
\* block or the padding of the chunk.
LEMMA Neighbours ==
    ASSUME NEW cz, Placed(cz), NEW sz, Tiled(cz, sz), NEW b \in DOMAIN sz
    PROVE  \E s \in DOMAIN cz :
             /\ s + 32 <= b /\ b + sz[b] <= s + cz[s]
             /\ \/ b + sz[b] = s + cz[s]
                \/ /\ b + sz[b] \in DOMAIN sz
                   /\ b + sz[b] + sz[b + sz[b]] <= s + cz[s]
             /\ \/ b = s + 32
                \/ \E c \in DOMAIN sz : c + sz[c] = b /\ s + 32 <= c
<1>1. PICK s \in DOMAIN cz : s + 32 <= b /\ b + sz[b] <= s + cz[s]
    BY DEF Tiled
<1>2. /\ s \in Nat /\ cz[s] \in Nat /\ b \in Nat /\ sz[b] \in Nat /\ sz[b] >= 32
      /\ \A t \in DOMAIN cz : t \in Nat /\ cz[t] \in Nat
      /\ \A c \in DOMAIN sz : c \in Nat /\ sz[c] \in Nat /\ sz[c] >= 32
    BY DEF Tiled, Placed
<1>3. \A c \in DOMAIN sz : \A t \in DOMAIN cz : t + 32 <= c /\ c + sz[c] <= t + cz[t] /\ s + 32 <= c + sz[c] - 1 /\ c < s + cz[s]
                       => t = s
    <2> SUFFICES ASSUME NEW c \in DOMAIN sz, NEW t \in DOMAIN cz, t # s,
                        t + 32 <= c, c + sz[c] <= t + cz[t],
                        s + 32 <= c + sz[c] - 1, c < s + cz[s]
                 PROVE  FALSE
        OBVIOUS
    <2>1. t + cz[t] <= s \/ s + cz[s] <= t
        BY DEF Placed
    <2> QED
        BY <2>1, <1>2
<1>4. \/ b + sz[b] = s + cz[s]
      \/ /\ b + sz[b] \in DOMAIN sz
         /\ b + sz[b] + sz[b + sz[b]] <= s + cz[s]
    <2> SUFFICES ASSUME b + sz[b] # s + cz[s]
                 PROVE  b + sz[b] \in DOMAIN sz /\ b + sz[b] + sz[b + sz[b]] <= s + cz[s]
        OBVIOUS
    <2> DEFINE x == b + sz[b]
    <2>1. x \in s + 32 .. s + cz[s] - 1
        BY <1>1, <1>2
    <2>2. PICK c \in DOMAIN sz : c <= x /\ x < c + sz[c]
        BY <2>1 DEF Tiled
    <2>3. c # b
        BY <2>2, <1>2
    <2>4. x <= c \/ c + sz[c] <= b
        BY <2>3 DEF Tiled
    <2>5. c = x
        BY <2>2, <2>4, <1>2
    <2>6. PICK t \in DOMAIN cz : t + 32 <= c /\ c + sz[c] <= t + cz[t]
        BY DEF Tiled
    <2>7. t = s
        BY <2>1, <2>5, <2>6, <1>2, <1>3
    <2> QED
        BY <2>5, <2>6, <2>7
<1>5. b = s + 32 \/ \E c \in DOMAIN sz : c + sz[c] = b /\ s + 32 <= c
    <2> SUFFICES ASSUME b # s + 32
                 PROVE  \E c \in DOMAIN sz : c + sz[c] = b /\ s + 32 <= c
        OBVIOUS
    <2> DEFINE x == b - 1
    <2>1. x \in s + 32 .. s + cz[s] - 1
        BY <1>1, <1>2
    <2>2. PICK c \in DOMAIN sz : c <= x /\ x < c + sz[c]
        BY <2>1 DEF Tiled
    <2>3. c # b
        BY <2>2, <1>2
    <2>4. b + sz[b] <= c \/ c + sz[c] <= b
        BY <2>3 DEF Tiled
    <2>5. c + sz[c] = b
        BY <2>2, <2>4, <1>2
    <2>6. PICK t \in DOMAIN cz : t + 32 <= c /\ c + sz[c] <= t + cz[t]
        BY DEF Tiled
    <2>7. t = s
        BY <2>1, <2>2, <2>5, <2>6, <1>1, <1>2, <1>3
    <2> QED
        BY <2>5, <2>6, <2>7
<1> QED
    BY <1>1, <1>4, <1>5

\* Blocks that follow one another may be merged.
LEMMA MergeTiled ==
    ASSUME NEW cz, Placed(cz), NEW sz, Tiled(cz, sz),
           NEW b \in DOMAIN sz, NEW c \in DOMAIN sz, NEW z \in Nat,
           b <= c, b + z = c + sz[c],
           \E s \in DOMAIN cz : s + 32 <= b /\ b + z <= s + cz[s]
    PROVE  Tiled(cz, Merge(sz, b, z))
<1> DEFINE m == Merge(sz, b, z)
<1>1. /\ \A x \in DOMAIN sz : x \in Nat /\ x % 16 = 0 /\ sz[x] \in Nat /\ sz[x] >= 32 /\ sz[x] % 16 = 0
      /\ \A x, y \in DOMAIN sz : x # y => x + sz[x] <= y \/ y + sz[y] <= x
    BY DEF Tiled
<1>2. /\ DOMAIN m = DOMAIN sz \ Swallowed(sz, b, z)
      /\ b \in DOMAIN m /\ m[b] = z
      /\ \A x \in DOMAIN m : x # b => m[x] = sz[x]
    <2>1. b \in Nat
        BY <1>1
    <2>2. DOMAIN m = DOMAIN sz \ Swallowed(sz, b, z) /\ b \in DOMAIN m
        BY <2>1, MergeDomain
    <2>3. m[b] = z
        BY <2>1, MergeAt
    <2>4. \A x \in DOMAIN sz \ Swallowed(sz, b, z) : x # b => m[x] = sz[x]
        BY <2>1, MergeAt
    <2> HIDE DEF m
    <2> QED
        BY <2>2, <2>3, <2>4
<1>3. \A x \in DOMAIN m : x \in DOMAIN sz /\ ~(b < x /\ x < b + z)
    BY <1>2 DEF Swallowed
<1>4. \A x \in DOMAIN sz : x \in DOMAIN m \/ (b < x /\ x < b + z)
    BY <1>2 DEF Swallowed
<1> HIDE DEF m
<1>5. z >= 32 /\ z % 16 = 0
    <2>1. z = c + sz[c] - b
        BY <1>1
    <2> QED
        BY <2>1, <1>1
<1>6. ASSUME NEW x \in DOMAIN m
      PROVE  /\ x \in Nat /\ x % 16 = 0
             /\ m[x] \in Nat /\ m[x] >= 32 /\ m[x] % 16 = 0
             /\ \E s \in DOMAIN cz : s + 32 <= x /\ x + m[x] <= s + cz[s]
    <2>1. CASE x = b
        BY <2>1, <1>1, <1>2, <1>5
    <2>2. CASE x # b
        <3>1. \E s \in DOMAIN cz : s + 32 <= x /\ x + sz[x] <= s + cz[s]
            BY <1>3 DEF Tiled
        <3> QED
            BY <2>2, <3>1, <1>1, <1>2, <1>3
    <2> QED
        BY <2>1, <2>2
<1>7. ASSUME NEW x \in DOMAIN m, x # b
      PROVE  b + z <= x \/ x + sz[x] <= b
    <2>1. b + sz[b] <= x \/ x + sz[x] <= b
        BY <1>1, <1>3, <1>7
    <2>2. x \in Nat /\ b \in Nat /\ sz[b] \in Nat /\ sz[b] >= 32 /\ ~(b < x /\ x < b + z)
        BY <1>1, <1>3
    <2> QED
        BY <2>1, <2>2
<1>8. ASSUME NEW x \in DOMAIN m, NEW y \in DOMAIN m, x # y
      PROVE  x + m[x] <= y \/ y + m[y] <= x
    <2>1. CASE x = b
        BY <2>1, <1>7, <1>8, <1>2
    <2>2. CASE y = b
        BY <2>2, <1>7, <1>8, <1>2
    <2>3. CASE x # b /\ y # b
        BY <2>3, <1>1, <1>2, <1>3, <1>8
    <2> QED
        BY <2>1, <2>2, <2>3
<1>9. ASSUME NEW s \in DOMAIN cz, NEW x \in s + 32 .. s + cz[s] - 1
      PROVE  \E y \in DOMAIN m : y <= x /\ x < y + m[y]
    <2>1. PICK y \in DOMAIN sz : y <= x /\ x < y + sz[y]
        BY DEF Tiled
    <2>2. CASE y \in DOMAIN m /\ y # b
        BY <2>1, <2>2, <1>2
    <2>3. CASE y = b \/ (b < y /\ y < b + z)
        <3>1. y = c \/ y + sz[y] <= c \/ c + sz[c] <= y
            BY <1>1
        <3>2. s \in Nat /\ x \in Int
            BY DEF Placed
        <3>3. y + sz[y] <= b + z
            <4>1. y \in Nat /\ c \in Nat /\ b \in Nat /\ sz[c] \in Nat /\ sz[y] \in Nat /\ sz[c] >= 32 /\ sz[y] >= 32
                BY <1>1
            <4>2. y = c => sz[y] = sz[c]
                OBVIOUS
            <4>3. CASE y = b
                BY <4>3, <4>1, <4>2, <3>1
            <4>4. CASE b < y /\ y < b + z
                BY <4>4, <4>1, <4>2, <3>1
            <4> QED
                BY <4>3, <4>4, <2>3
        <3>4. b <= x /\ x < b + m[b]
            BY <2>1, <2>3, <3>2, <3>3, <1>1, <1>2
        <3> QED
            BY <3>4, <1>2
    <2> QED
        BY <2>2, <2>3, <1>4
<1> QED
    BY <1>6, <1>8, <1>9 DEF Tiled, m

\* A block may be split when both parts have room for the links.
LEMMA SplitTiled ==
    ASSUME NEW cz, Placed(cz), NEW sz, Tiled(cz, sz), NEW b \in DOMAIN sz,
           NEW k \in Nat, k >= 32, k % 16 = 0, sz[b] - k >= 32
    PROVE  Tiled(cz, Split(sz, b, k)) /\ b + k \notin DOMAIN sz
<1> DEFINE m == Split(sz, b, k)
           r == sz[b] - k
<1>1. /\ \A x \in DOMAIN sz : x \in Nat /\ x % 16 = 0 /\ sz[x] \in Nat /\ sz[x] >= 32 /\ sz[x] % 16 = 0
      /\ \A x, y \in DOMAIN sz : x # y => x + sz[x] <= y \/ y + sz[y] <= x
    BY DEF Tiled
<1>2. b \in Nat /\ b % 16 = 0 /\ sz[b] \in Nat /\ sz[b] % 16 = 0
    BY <1>1
<1>3. r \in Nat /\ r >= 32 /\ r % 16 = 0 /\ b + k + r = b + sz[b] /\ b + k \in Nat /\ (b + k) % 16 = 0
    BY <1>2
<1>4. /\ DOMAIN m = DOMAIN sz \cup {b + k} /\ m[b] = k /\ m[b + k] = r
      /\ \A x \in DOMAIN sz : x # b /\ x # b + k => m[x] = sz[x]
    <2>1. k > 0
        OBVIOUS
    <2>2. DOMAIN m = DOMAIN sz \cup {b + k}
        BY SplitDomain
    <2>3. m[b] = k /\ m[b + k] = r
        BY <2>1, <1>2, SplitAt
    <2>4. \A x \in DOMAIN sz : x # b /\ x # b + k => m[x] = sz[x]
        BY <2>1, <1>2, SplitAt
    <2> HIDE DEF m, r
    <2> QED
        BY <2>2, <2>3, <2>4
<1> HIDE DEF m
<1>5. b + k \notin DOMAIN sz
    <2> SUFFICES ASSUME b + k \in DOMAIN sz PROVE FALSE
        OBVIOUS
    <2>1. b + k # b /\ (b + k) + sz[b + k] > b /\ ~(b + sz[b] <= b + k)
        BY <1>1, <1>2, <1>3
    <2> QED
        BY <2>1, <1>1
<1> HIDE DEF r
<1>6. ASSUME NEW x \in DOMAIN m
      PROVE  /\ x \in Nat /\ x % 16 = 0
             /\ m[x] \in Nat /\ m[x] >= 32 /\ m[x] % 16 = 0
             /\ \E s \in DOMAIN cz : s + 32 <= x /\ x + m[x] <= s + cz[s]
    <2>0. PICK t \in DOMAIN cz : t + 32 <= b /\ b + sz[b] <= t + cz[t]
        BY DEF Tiled
    <2>00. t \in Nat /\ cz[t] \in Nat
        BY DEF Placed
    <2>1. CASE x = b
        BY <2>1, <2>0, <2>00, <1>2, <1>3, <1>4
    <2>2. CASE x = b + k
        BY <2>2, <2>0, <2>00, <1>2, <1>3, <1>4
    <2>3. CASE x # b /\ x # b + k
        <3>1. x \in DOMAIN sz /\ m[x] = sz[x]
            BY <2>3, <1>4
        <3>2. \E s \in DOMAIN cz : s + 32 <= x /\ x + sz[x] <= s + cz[s]
            BY <3>1 DEF Tiled
        <3> QED
            BY <3>1, <3>2, <1>1
    <2> QED
        BY <2>1, <2>2, <2>3
<1>7. ASSUME NEW x \in DOMAIN sz, x # b, x # b + k
      PROVE  /\ x \in Nat /\ m[x] = sz[x] /\ sz[x] \in Nat
             /\ b + sz[b] <= x \/ x + sz[x] <= b
    BY <1>1, <1>4, <1>7
<1>8. ASSUME NEW x \in DOMAIN m, NEW y \in DOMAIN m, x # y
      PROVE  x + m[x] <= y \/ y + m[y] <= x
    <2>1. CASE x = b /\ y = b + k
        BY <2>1, <1>4, <1>2
    <2>2. CASE y = b /\ x = b + k
        BY <2>2, <1>4, <1>2
    <2>3. CASE x \in {b, b + k} /\ y \notin {b, b + k}
        <3>1. y \in DOMAIN sz
            BY <2>3, <1>4
        <3>2. /\ y \in Nat /\ m[y] = sz[y] /\ sz[y] \in Nat
              /\ b + sz[b] <= y \/ y + sz[y] <= b
            BY <3>1, <2>3, <1>7
        <3> QED
            BY <2>3, <3>2, <1>2, <1>3, <1>4
    <2>4. CASE y \in {b, b + k} /\ x \notin {b, b + k}
        <3>1. x \in DOMAIN sz
            BY <2>4, <1>4
        <3>2. /\ x \in Nat /\ m[x] = sz[x] /\ sz[x] \in Nat
              /\ b + sz[b] <= x \/ x + sz[x] <= b
            BY <3>1, <2>4, <1>7
        <3> QED
            BY <2>4, <3>2, <1>2, <1>3, <1>4
    <2>5. CASE x \notin {b, b + k} /\ y \notin {b, b + k}
        BY <2>5, <1>1, <1>4, <1>8
    <2> QED
        BY <2>1, <2>2, <2>3, <2>4, <2>5, <1>8
<1>9. ASSUME NEW s \in DOMAIN cz, NEW x \in s + 32 .. s + cz[s] - 1
      PROVE  \E y \in DOMAIN m : y <= x /\ x < y + m[y]
    <2>1. PICK y \in DOMAIN sz : y <= x /\ x < y + sz[y]
        BY DEF Tiled
    <2>2. s \in Nat /\ cz[s] \in Nat /\ x \in Int
        BY DEF Placed
    <2>3. CASE y # b
        <3>1. y \in DOMAIN m /\ m[y] = sz[y]
            BY <2>3, <1>4, <1>5
        <3> QED
            BY <2>1, <3>1
    <2>4. CASE y = b
        BY <2>1, <2>2, <2>4, <1>2, <1>3, <1>4
    <2> QED
        BY <2>3, <2>4
<1> QED
    BY <1>5, <1>6, <1>8, <1>9 DEF Tiled, m

-----------------------------------------------------------------------------
(* A heap and the description of it.                                       *)

\* The heap h has the chunks cz, the blocks sz of which fr are marked free, and
\* the free list L of n blocks.
Formed(h, cz, sz, fr, L, n) ==
    /\ Sound(h)
    /\ Chunked(h, cz)
    /\ Tiled(cz, sz)
    /\ Tagged(h, cz, sz, fr)
    /\ Linked(h, L, n)
    /\ Entries(L, n) \subseteq DOMAIN sz

\* The payloads of the blocks handed out were not written.
DataKept(h, g, sz, fr) ==
    \A b \in DOMAIN sz \ fr : \A x \in Int : b <= x /\ x < b + sz[b] - 16 => GET(g, x) = GET(h, x)

\* Every word of a block is on mapped pages.
LEMMA WordBlock ==
    ASSUME NEW h, Sound(h), NEW cz, Chunked(h, cz), NEW sz, Tiled(cz, sz), NEW b \in DOMAIN sz,
           NEW x \in Int, x % 8 = 0, b - 8 <= x, x < b + sz[b]
    PROVE  x \in WordsOf(h.mapped)
<1>1. PICK s \in DOMAIN cz : s + 32 <= b /\ b + sz[b] <= s + cz[s]
    BY DEF Tiled
<1>2. s \in Nat /\ cz[s] \in Nat /\ b \in Nat /\ sz[b] \in Nat
    BY DEF Tiled, Chunked, Placed
<1>3. x \in Nat /\ s <= x /\ x < s + cz[s]
    BY <1>1, <1>2
<1> QED
    BY <1>3, ChunkWord

\* So are its header, its footer and its links.
LEMMA BlockWords ==
    ASSUME NEW h, Sound(h), NEW cz, Chunked(h, cz), NEW sz, Tiled(cz, sz), NEW b \in DOMAIN sz
    PROVE  /\ b \in WordsOf(h.mapped) /\ b + 8 \in WordsOf(h.mapped)
           /\ b - 8 \in WordsOf(h.mapped) /\ b + sz[b] - 16 \in WordsOf(h.mapped)
<1>1. b \in Nat /\ b % 16 = 0 /\ sz[b] \in Nat /\ sz[b] % 16 = 0 /\ sz[b] >= 32
    BY DEF Tiled
<1>2. /\ b \in Int /\ b % 8 = 0 /\ b - 8 <= b /\ b < b + sz[b]
      /\ b + 8 \in Int /\ (b + 8) % 8 = 0 /\ b - 8 <= b + 8 /\ b + 8 < b + sz[b]
      /\ b - 8 \in Int /\ (b - 8) % 8 = 0 /\ b - 8 <= b - 8 /\ b - 8 < b + sz[b]
      /\ b + sz[b] - 16 \in Int /\ (b + sz[b] - 16) % 8 = 0 /\ b - 8 <= b + sz[b] - 16 /\ b + sz[b] - 16 < b + sz[b]
    BY <1>1
<1> QED
    BY <1>2, WordBlock

\* So are the links of every listed block.
LEMMA LinksInMapped ==
    ASSUME NEW h, Sound(h), NEW cz, Chunked(h, cz), NEW sz, Tiled(cz, sz),
           NEW L, NEW n, Entries(L, n) \subseteq DOMAIN sz
    PROVE  LinksIn(h, L, n)
<1>1. \A i \in 1 .. n : L[i] \in DOMAIN sz
    BY DEF Entries
<1> QED
    BY <1>1, BlockWords DEF LinksIn

\* What the macros read of a block.
LEMMA SizeIs ==
    ASSUME NEW h, NEW cz, Placed(cz), NEW sz, Tiled(cz, sz), NEW fr, Tagged(h, cz, sz, fr),
           NEW b \in DOMAIN sz
    PROVE  /\ Size(h, b) = sz[b] /\ HDRP(b) = b - 8 /\ FTRP(h, b) = b + sz[b] - 16
           /\ NEXT(h, b) = b + sz[b]
           /\ GET_ALLOC(h, b - 8) = (IF b \in fr THEN 0 ELSE 1)
           /\ GET_ALLOC(h, b + sz[b] - 16) = (IF b \in fr THEN 0 ELSE 1)
           /\ GET_SIZE(h, b + sz[b] - 16) = sz[b]
<1>1. /\ b \in Nat /\ b >= 48 /\ b < SIZE_MOD
      /\ sz[b] \in Nat /\ sz[b] >= 32 /\ sz[b] % 16 = 0
      /\ b + sz[b] < SIZE_MOD
    BY BlockFacts
<1>2. HDRP(b) = b - 8
    BY <1>1, HdrpIs
<1> DEFINE t == IF b \in fr THEN 0 ELSE 1
<1>3. t \in {0, 1} /\ GET(h, b - 8) = sz[b] + t /\ GET(h, b + sz[b] - 16) = sz[b] + t
    BY DEF Tagged, Tag
<1> HIDE DEF t
<1>4. (sz[b] + t) % 16 = t /\ (sz[b] + t) % 2 = t
    <2>1. CASE t = 0
        BY <2>1, <1>1
    <2>2. CASE t = 1
        BY <2>2, <1>1
    <2> QED
        BY <2>1, <2>2, <1>3
<1>5. Size(h, b) = sz[b] /\ GET_SIZE(h, b + sz[b] - 16) = sz[b]
    BY <1>1, <1>2, <1>3, <1>4 DEF Size, GET_SIZE, ALIGNMENT
<1>6. GET_ALLOC(h, b - 8) = t /\ GET_ALLOC(h, b + sz[b] - 16) = t
    BY <1>3, <1>4 DEF GET_ALLOC
<1>7. Wrap(b + sz[b] - 16) = b + sz[b] - 16 /\ Wrap(b + sz[b]) = b + sz[b]
    <2>1. b + sz[b] - 16 \in Nat /\ b + sz[b] - 16 < SIZE_MOD /\ b + sz[b] \in Nat
        BY <1>1, PageSizeFacts
    <2> QED
        BY <2>1, <1>1, WrapSmall
<1> QED
    BY <1>2, <1>5, <1>6, <1>7 DEF FTRP, NEXT, OVERHEAD, t

\* Links are no headers, no footers and nobody's data.
LEMMA LinksTagged ==
    ASSUME NEW h, NEW g, NEW cz, Placed(cz), NEW sz, Tiled(cz, sz), NEW fr, Tagged(h, cz, sz, fr),
           NEW S \in SUBSET DOMAIN sz, OnlyLinks(h, g, S)
    PROVE  Tagged(g, cz, sz, fr)
<1>0. \A b \in DOMAIN sz : b \in Nat /\ sz[b] \in Nat /\ sz[b] >= 32 /\ b % 16 = 0 /\ sz[b] % 16 = 0
    BY DEF Tiled
<1>1. ASSUME NEW s \in DOMAIN cz
      PROVE  GET(g, s + 8) = GET(h, s + 8) /\ GET(g, s + 16) = GET(h, s + 16) /\ GET(g, s + cz[s] - 8) = GET(h, s + cz[s] - 8)
    <2>1. ASSUME NEW b \in S
          PROVE  s + 8 # b /\ s + 8 # b + 8 /\ s + 16 # b /\ s + 16 # b + 8 /\ s + cz[s] - 8 # b /\ s + cz[s] - 8 # b + 8
        <3>1. b \in DOMAIN sz /\ b \in Int /\ b - 8 <= b /\ b < b + sz[b] - 8
              /\ b + 8 \in Int /\ b - 8 <= b + 8 /\ b + 8 < b + sz[b] - 8
            BY <1>0
        <3> QED
            BY <3>1, OwnWord
    <2> QED
        BY <2>1 DEF OnlyLinks
<1>2. ASSUME NEW c \in DOMAIN sz
      PROVE  GET(g, c - 8) = GET(h, c - 8) /\ GET(g, c + sz[c] - 16) = GET(h, c + sz[c] - 16)
    <2>1. ASSUME NEW b \in S
          PROVE  c - 8 # b /\ c - 8 # b + 8 /\ c + sz[c] - 16 # b /\ c + sz[c] - 16 # b + 8
        <3>1. CASE b = c
            BY <3>1, <1>0
        <3>2. CASE b # c
            <4>1. b \in DOMAIN sz /\ b \in Int /\ b - 8 <= b /\ b < b + sz[b] - 8
                  /\ b + 8 \in Int /\ b - 8 <= b + 8 /\ b + 8 < b + sz[b] - 8
                BY <1>0
            <4>2. ~(c - 8 <= b /\ b < c + sz[c] - 8) /\ ~(c - 8 <= b + 8 /\ b + 8 < c + sz[c] - 8)
                BY <4>1, <3>2, OwnWord
            <4>3. c \in Nat /\ sz[c] \in Nat /\ sz[c] >= 32 /\ b \in Nat
                BY <1>0
            <4> QED
                BY <4>2, <4>3
        <3> QED
            BY <3>1, <3>2
    <2> QED
        BY <2>1 DEF OnlyLinks
<1> QED
    BY <1>1, <1>2 DEF Tagged

\* Writing links of free blocks leaves the payloads alone.
LEMMA LinksData ==
    ASSUME NEW h, NEW g, NEW cz, Placed(cz), NEW sz, Tiled(cz, sz), NEW fr,
           NEW S \in SUBSET (DOMAIN sz \cap fr), OnlyLinks(h, g, S)
    PROVE  DataKept(h, g, sz, fr)
<1> SUFFICES ASSUME NEW b \in DOMAIN sz \ fr, NEW x \in Int, b <= x, x < b + sz[b] - 16
             PROVE  GET(g, x) = GET(h, x)
    BY DEF DataKept
<1>1. ASSUME NEW c \in S
      PROVE  x # c /\ x # c + 8
    <2>1. c \in DOMAIN sz /\ c # b
        OBVIOUS
    <2>2. b \in Nat /\ sz[b] \in Nat /\ c \in Nat /\ sz[c] \in Nat /\ sz[c] >= 32
        BY <2>1 DEF Tiled
    <2>3. ~(c - 8 <= x /\ x < c + sz[c] - 8)
        <3>1. b - 8 <= x /\ x < b + sz[b] - 8
            BY <2>2
        <3> QED
            BY <3>1, <2>1, OwnWord
    <2> QED
        BY <2>2, <2>3
<1> QED
    BY <1>1 DEF OnlyLinks

\* push_free keeps the heap formed.
LEMMA OpPush ==
    ASSUME NEW h, NEW cz, NEW sz, NEW fr, NEW L, NEW n, Formed(h, cz, sz, fr, L, n),
           NEW b \in DOMAIN sz, b \notin Entries(L, n)
    PROVE  LET g == push_free(h, b)
           IN  /\ Formed(g, cz, sz, fr, Cons(b, L, n), n + 1)
               /\ Kept(h, g)
               /\ OnlyLinks(h, g, Entries(L, n) \cup {b})
<1> DEFINE g == push_free(h, b)
<1>1. /\ Sound(h) /\ Chunked(h, cz) /\ Tiled(cz, sz) /\ Tagged(h, cz, sz, fr) /\ Linked(h, L, n)
      /\ Entries(L, n) \subseteq DOMAIN sz /\ Placed(cz)
    BY DEF Formed, Chunked
<1>2. LinksIn(h, L, n) /\ b \in WordsOf(h.mapped) /\ b + 8 \in WordsOf(h.mapped) /\ b \in Nat /\ b % 16 = 0
    BY <1>1, LinksInMapped, BlockWords DEF Tiled
<1>3. Sound(g) /\ Kept(h, g) /\ Linked(g, Cons(b, L, n), n + 1) /\ OnlyLinks(h, g, Entries(L, n) \cup {b})
    BY <1>1, <1>2, PushLinks
<1> HIDE DEF g
<1>4. Chunked(g, cz)
    BY <1>1, <1>3 DEF Chunked, Kept
<1>5. Tagged(g, cz, sz, fr)
    <2>1. Entries(L, n) \cup {b} \in SUBSET DOMAIN sz
        BY <1>1
    <2> QED
        BY <2>1, <1>1, <1>3, LinksTagged
<1>6. Entries(Cons(b, L, n), n + 1) \subseteq DOMAIN sz
    BY <1>1, ConsIs
<1> QED
    BY <1>1, <1>3, <1>4, <1>5, <1>6 DEF Formed, g

\* pop_free keeps the heap formed.
LEMMA OpPop ==
    ASSUME NEW h, NEW cz, NEW sz, NEW fr, NEW L, NEW n, Formed(h, cz, sz, fr, L, n),
           NEW k \in 1 .. n
    PROVE  LET g == pop_free(h, L[k])
           IN  /\ Formed(g, cz, sz, fr, Cut(L, n, k), n - 1)
               /\ Kept(h, g)
               /\ OnlyLinks(h, g, Entries(L, n))
<1> DEFINE g == pop_free(h, L[k])
<1>1. /\ Sound(h) /\ Chunked(h, cz) /\ Tiled(cz, sz) /\ Tagged(h, cz, sz, fr) /\ Linked(h, L, n)
      /\ Entries(L, n) \subseteq DOMAIN sz /\ Placed(cz)
    BY DEF Formed, Chunked
<1>2. LinksIn(h, L, n)
    BY <1>1, LinksInMapped
<1>3. Sound(g) /\ Kept(h, g) /\ Linked(g, Cut(L, n, k), n - 1) /\ OnlyLinks(h, g, Entries(L, n))
    BY <1>1, <1>2, PopLinks
<1> HIDE DEF g
<1>4. Chunked(g, cz)
    BY <1>1, <1>3 DEF Chunked, Kept
<1>5. Tagged(g, cz, sz, fr)
    <2>1. Entries(L, n) \in SUBSET DOMAIN sz
        BY <1>1
    <2> QED
        BY <2>1, <1>1, <1>3, LinksTagged
<1>6. Entries(Cut(L, n, k), n - 1) \subseteq DOMAIN sz
    BY <1>1, CutIs
<1> QED
    BY <1>1, <1>3, <1>4, <1>5, <1>6 DEF Formed, g

\* A block marked anew, its size unchanged.
Retag(fr, b, alloc) == IF alloc = 0 THEN fr \cup {b} ELSE fr \ {b}

\* Marking a block, with its own size, keeps the heap formed.
LEMMA OpTag ==
    ASSUME NEW h, NEW cz, NEW sz, NEW fr, NEW L, NEW n, Formed(h, cz, sz, fr, L, n),
           NEW b \in DOMAIN sz, NEW alloc \in {0, 1}
    PROVE  LET g == Mark(h, b, sz[b], alloc)
           IN  /\ Formed(g, cz, sz, Retag(fr, b, alloc), L, n)
               /\ Kept(h, g)
               /\ DataKept(h, g, sz, {})
<1> DEFINE g == Mark(h, b, sz[b], alloc)
           fs == Retag(fr, b, alloc)
<1>1. /\ Sound(h) /\ Chunked(h, cz) /\ Tiled(cz, sz) /\ Tagged(h, cz, sz, fr) /\ Linked(h, L, n)
      /\ Entries(L, n) \subseteq DOMAIN sz /\ Placed(cz)
    BY DEF Formed, Chunked
<1>2. /\ b \in Nat /\ b >= 48 /\ sz[b] \in Nat /\ sz[b] >= 32 /\ b + sz[b] < SIZE_MOD
    BY <1>1, BlockFacts
<1>3. b - 8 \in WordsOf(h.mapped) /\ b + sz[b] - 16 \in WordsOf(h.mapped)
    BY <1>1, BlockWords
<1>4. /\ Sound(g) /\ Kept(h, g) /\ g.free_start = h.free_start
      /\ \A x : GET(g, x) = IF x = b - 8 \/ x = b + sz[b] - 16 THEN sz[b] + alloc ELSE GET(h, x)
    BY <1>1, <1>2, <1>3, MarkGet
<1> HIDE DEF g
<1>5. Chunked(g, cz)
    BY <1>1, <1>4 DEF Chunked, Kept
<1>6. /\ b - 8 \in Int /\ b - 8 <= b - 8 /\ b - 8 < b + sz[b] - 8
      /\ b + sz[b] - 16 \in Int /\ b - 8 <= b + sz[b] - 16 /\ b + sz[b] - 16 < b + sz[b] - 8
    BY <1>2
<1>7. /\ \A s \in DOMAIN cz : b - 8 # s + 8 /\ b - 8 # s + 16 /\ b - 8 # s + cz[s] - 8
      /\ \A s \in DOMAIN cz : b + sz[b] - 16 # s + 8 /\ b + sz[b] - 16 # s + 16 /\ b + sz[b] - 16 # s + cz[s] - 8
      /\ \A c \in DOMAIN sz : c # b => ~(c - 8 <= b - 8 /\ b - 8 < c + sz[c] - 8)
      /\ \A c \in DOMAIN sz : c # b => ~(c - 8 <= b + sz[b] - 16 /\ b + sz[b] - 16 < c + sz[c] - 8)
    BY <1>1, <1>6, OwnWord
<1>8. \A c \in DOMAIN sz : c \in Nat /\ sz[c] \in Nat /\ sz[c] >= 32
    BY <1>1 DEF Tiled
<1>9. ASSUME NEW c \in DOMAIN sz, c # b, NEW x \in Int, c - 8 <= x, x < c + sz[c] - 8
      PROVE  GET(g, x) = GET(h, x)
    <2>1. x # b - 8 /\ x # b + sz[b] - 16
        BY <1>7, <1>9
    <2> QED
        BY <2>1, <1>4
<1>10. Tagged(g, cz, sz, fs)
    <2>1. \A s \in DOMAIN cz : GET(g, s + 8) = 17 /\ GET(g, s + 16) = 17 /\ GET(g, s + cz[s] - 8) = 1
        BY <1>1, <1>4, <1>7 DEF Tagged
    <2>2. fs \subseteq DOMAIN sz
        BY <1>1 DEF Tagged, Retag
    <2>3. Tag(sz, fs, b) = sz[b] + alloc
        BY DEF Tag, Retag
    <2>4. \A c \in DOMAIN sz : c # b => Tag(sz, fs, c) = Tag(sz, fr, c)
        BY DEF Tag, Retag
    <2>5. ASSUME NEW c \in DOMAIN sz
          PROVE  GET(g, c - 8) = Tag(sz, fs, c) /\ GET(g, c + sz[c] - 16) = Tag(sz, fs, c)
        <3>1. CASE c = b
            BY <3>1, <2>3, <1>4
        <3>2. CASE c # b
            <4>1. GET(g, c - 8) = GET(h, c - 8) /\ GET(g, c + sz[c] - 16) = GET(h, c + sz[c] - 16)
                <5>1. /\ c - 8 \in Int /\ c - 8 <= c - 8 /\ c - 8 < c + sz[c] - 8
                      /\ c + sz[c] - 16 \in Int /\ c - 8 <= c + sz[c] - 16 /\ c + sz[c] - 16 < c + sz[c] - 8
                    BY <1>8
                <5> QED
                    BY <5>1, <3>2, <1>9
            <4> QED
                BY <4>1, <3>2, <2>4, <1>1 DEF Tagged
        <3> QED
            BY <3>1, <3>2
    <2> QED
        BY <2>1, <2>2, <2>5 DEF Tagged
<1>11. Linked(g, L, n)
    <2>1. ASSUME NEW i \in 1 .. n
          PROVE  GET(g, L[i]) = GET(h, L[i]) /\ GET(g, L[i] + 8) = GET(h, L[i] + 8)
        <3> DEFINE c == L[i]
        <3>1. c \in DOMAIN sz /\ c \in Nat /\ sz[c] \in Nat /\ sz[c] >= 32 /\ c % 16 = 0 /\ b % 16 = 0 /\ sz[b] % 16 = 0
            BY <1>1, <1>8 DEF Entries, Tiled
        <3> HIDE DEF c
        <3>2. CASE c = b
            <4>1. c # b - 8 /\ c # b + sz[b] - 16 /\ c + 8 # b - 8 /\ c + 8 # b + sz[b] - 16
                BY <3>1, <3>2, <1>2
            <4> QED
                BY <4>1, <1>4 DEF c
        <3>3. CASE c # b
            <4>1. c \in Int /\ c - 8 <= c /\ c < c + sz[c] - 8 /\ c + 8 \in Int /\ c - 8 <= c + 8 /\ c + 8 < c + sz[c] - 8
                BY <3>1
            <4> QED
                BY <4>1, <3>1, <3>3, <1>9 DEF c
        <3> QED
            BY <3>2, <3>3
    <2> QED
        BY <2>1, <1>1, <1>4, LinkedFrame
<1>12. DataKept(h, g, sz, {})
    <2> SUFFICES ASSUME NEW c \in DOMAIN sz, NEW x \in Int, c <= x, x < c + sz[c] - 16
                 PROVE  GET(g, x) = GET(h, x)
        BY DEF DataKept
    <2>1. CASE c = b
        <3>1. x # b - 8 /\ x # b + sz[b] - 16
            BY <2>1, <1>2
        <3> QED
            BY <3>1, <1>4
    <2>2. CASE c # b
        <3>1. c - 8 <= x /\ x < c + sz[c] - 8
            BY <1>8
        <3> QED
            BY <3>1, <2>2, <1>9
    <2> QED
        BY <2>1, <2>2
<1> QED
    BY <1>1, <1>4, <1>5, <1>10, <1>11, <1>12 DEF Formed, g, fs

\* Free blocks side by side made one.
LEMMA OpMerge ==
    ASSUME NEW h, NEW cz, NEW sz, NEW fr, NEW L, NEW n, Formed(h, cz, sz, fr, L, n),
           NEW b \in DOMAIN sz, NEW c \in DOMAIN sz, NEW z \in Nat,
           b <= c, b + z = c + sz[c],
           \E s \in DOMAIN cz : s + 32 <= b /\ b + z <= s + cz[s],
           b \in fr, Swallowed(sz, b, z) \subseteq fr \ Entries(L, n)
    PROVE  LET g == Mark(h, b, z, 0)
           IN  /\ Formed(g, cz, Merge(sz, b, z), fr \ Swallowed(sz, b, z), L, n)
               /\ Kept(h, g)
               /\ DataKept(h, g, sz, fr)
<1> DEFINE g == Mark(h, b, z, 0)
           m == Merge(sz, b, z)
           W == Swallowed(sz, b, z)
           fs == fr \ W
<1>1. /\ Sound(h) /\ Chunked(h, cz) /\ Tiled(cz, sz) /\ Tagged(h, cz, sz, fr) /\ Linked(h, L, n)
      /\ Entries(L, n) \subseteq DOMAIN sz /\ Placed(cz)
    BY DEF Formed, Chunked
<1>2. /\ \A x \in DOMAIN sz : x \in Nat /\ sz[x] \in Nat /\ sz[x] >= 32 /\ x % 16 = 0 /\ sz[x] % 16 = 0
      /\ \A x, y \in DOMAIN sz : x # y => x + sz[x] <= y \/ y + sz[y] <= x
    BY <1>1 DEF Tiled
<1>3. b >= 48 /\ b + z < SIZE_MOD /\ z >= 32 /\ c + sz[c] - 16 = b + z - 16 /\ b \in Nat /\ c \in Nat /\ sz[c] \in Nat
    <2>1. b >= 48 /\ c + sz[c] < SIZE_MOD
        BY <1>1, BlockFacts
    <2> QED
        BY <2>1, <1>2
<1>4. b - 8 \in WordsOf(h.mapped) /\ b + z - 16 \in WordsOf(h.mapped)
    BY <1>1, <1>3, BlockWords
<1>5. /\ Sound(g) /\ Kept(h, g) /\ g.free_start = h.free_start
      /\ \A x : GET(g, x) = IF x = b - 8 \/ x = b + z - 16 THEN z + 0 ELSE GET(h, x)
    <2>1. b >= 16 /\ 0 \in {0, 1}
        BY <1>3
    <2> QED
        BY <2>1, <1>1, <1>3, <1>4, MarkGet
<1> HIDE DEF g
<1>6. Chunked(g, cz)
    BY <1>1, <1>5 DEF Chunked, Kept
<1>7. Tiled(cz, m)
    BY <1>1, MergeTiled
<1>8. DOMAIN m = DOMAIN sz \ W /\ b \in DOMAIN m
    BY <1>3, MergeDomain
<1>9. m[b] = z
    BY <1>3, MergeAt
<1>10. \A x \in DOMAIN sz \ W : x # b => m[x] = sz[x]
    BY <1>3, MergeAt
<1>11. /\ b - 8 \in Int /\ b - 8 <= b - 8 /\ b - 8 < b + sz[b] - 8
       /\ b + z - 16 \in Int /\ c - 8 <= b + z - 16 /\ b + z - 16 < c + sz[c] - 8
    <2>1. c \in Nat /\ sz[c] \in Nat /\ sz[c] >= 32 /\ sz[b] \in Nat /\ sz[b] >= 32
        BY <1>2
    <2> QED
        BY <2>1, <1>3
<1>12. /\ \A s \in DOMAIN cz : b - 8 # s + 8 /\ b - 8 # s + 16 /\ b - 8 # s + cz[s] - 8
    BY <1>1, <1>11, OwnWord
<1>13. \A s \in DOMAIN cz : b + z - 16 # s + 8 /\ b + z - 16 # s + 16 /\ b + z - 16 # s + cz[s] - 8
    BY <1>1, <1>11, OwnWord
\* the blocks that stay lie before or behind
<1>14. ASSUME NEW y \in DOMAIN sz \ W, y # b
       PROVE  y + sz[y] <= b \/ b + z <= y
    <2>1. y \in Nat /\ sz[y] \in Nat /\ sz[b] \in Nat /\ sz[b] >= 32
        BY <1>2
    <2>2. ~(b < y /\ y < b + z)
        BY DEF Swallowed
    <2>3. y + sz[y] <= b \/ b + sz[b] <= y
        BY <1>2, <1>14
    <2> QED
        BY <2>1, <2>2, <2>3, <1>3
<1>15. ASSUME NEW y \in DOMAIN sz \ W, y # b, NEW x \in Int, y - 8 <= x, x < y + sz[y] - 8
       PROVE  GET(g, x) = GET(h, x)
    <2>1. y \in Nat /\ sz[y] \in Nat
        BY <1>2
    <2>2. x # b - 8 /\ x # b + z - 16
        BY <2>1, <1>3, <1>14, <1>15
    <2> QED
        BY <2>2, <1>5
<1> HIDE DEF m, W
<1>16. Tagged(g, cz, m, fs)
    <2>1. \A s \in DOMAIN cz : GET(g, s + 8) = 17 /\ GET(g, s + 16) = 17 /\ GET(g, s + cz[s] - 8) = 1
        BY <1>1, <1>5, <1>12, <1>13 DEF Tagged
    <2>2. fs \subseteq DOMAIN m /\ b \in fs
        BY <1>1, <1>8 DEF Tagged
    <2>3. Tag(m, fs, b) = z + 0
        BY <2>2, <1>9 DEF Tag
    <2>5. ASSUME NEW y \in DOMAIN m
          PROVE  GET(g, y - 8) = Tag(m, fs, y) /\ GET(g, y + m[y] - 16) = Tag(m, fs, y)
        <3>1. CASE y = b
            BY <3>1, <2>3, <1>5, <1>9
        <3>2. CASE y # b
            <4>0. y \in DOMAIN sz \ W /\ m[y] = sz[y] /\ y \in Nat /\ sz[y] \in Nat /\ sz[y] >= 32
                BY <3>2, <1>2, <1>8, <1>10
            <4>1. GET(g, y - 8) = GET(h, y - 8) /\ GET(g, y + sz[y] - 16) = GET(h, y + sz[y] - 16)
                <5>1. /\ y - 8 \in Int /\ y - 8 <= y - 8 /\ y - 8 < y + sz[y] - 8
                      /\ y + sz[y] - 16 \in Int /\ y - 8 <= y + sz[y] - 16 /\ y + sz[y] - 16 < y + sz[y] - 8
                    BY <4>0
                <5> QED
                    BY <5>1, <4>0, <3>2, <1>15
            <4>2. Tag(m, fs, y) = Tag(sz, fr, y)
                BY <4>0 DEF Tag
            <4> QED
                BY <4>0, <4>1, <4>2, <1>1 DEF Tagged
        <3> QED
            BY <3>1, <3>2
    <2> QED
        BY <2>1, <2>2, <2>5 DEF Tagged
<1>17. Linked(g, L, n)
    <2>1. ASSUME NEW i \in 1 .. n
          PROVE  GET(g, L[i]) = GET(h, L[i]) /\ GET(g, L[i] + 8) = GET(h, L[i] + 8)
        <3> DEFINE y == L[i]
        <3>1. y \in DOMAIN sz \ W
            BY <1>1 DEF Entries, W
        <3>2. y \in Nat /\ sz[y] \in Nat /\ sz[y] >= 32 /\ y % 16 = 0 /\ b % 16 = 0
            BY <3>1, <1>2
        <3> HIDE DEF y
        <3>3. CASE y = b
            <4>1. (b + z) % 16 = 0
                <5>1. c % 16 = 0 /\ sz[c] % 16 = 0
                    BY <1>2
                <5> QED
                    BY <5>1, <1>3
            <4>2. y # b - 8 /\ y # b + z - 16 /\ y + 8 # b - 8 /\ y + 8 # b + z - 16
                BY <4>1, <3>2, <3>3, <1>3
            <4> QED
                BY <4>2, <1>5 DEF y
        <3>4. CASE y # b
            <4>1. y \in Int /\ y - 8 <= y /\ y < y + sz[y] - 8 /\ y + 8 \in Int /\ y - 8 <= y + 8 /\ y + 8 < y + sz[y] - 8
                BY <3>2
            <4> QED
                BY <4>1, <3>1, <3>4, <1>15 DEF y
        <3> QED
            BY <3>3, <3>4
    <2> QED
        BY <2>1, <1>1, <1>5, LinkedFrame
<1>18. DataKept(h, g, sz, fr)
    <2> SUFFICES ASSUME NEW y \in DOMAIN sz \ fr, NEW x \in Int, y <= x, x < y + sz[y] - 16
                 PROVE  GET(g, x) = GET(h, x)
        BY DEF DataKept
    <2>1. y \in DOMAIN sz \ W /\ y # b
        BY DEF W
    <2>2. y - 8 <= x /\ x < y + sz[y] - 8
        BY <1>2
    <2> QED
        BY <2>1, <2>2, <1>15
<1>19. Entries(L, n) \subseteq DOMAIN m
    BY <1>1, <1>8 DEF W
<1> QED
    BY <1>5, <1>6, <1>7, <1>16, <1>17, <1>18, <1>19 DEF Formed, g, m, W

-----------------------------------------------------------------------------
(* Joining free blocks.                                                    *)

\* What the words before a block say.
LEMMA PrevIs ==
    ASSUME NEW h, NEW cz, Placed(cz), NEW sz, Tiled(cz, sz), NEW fr, Tagged(h, cz, sz, fr),
           NEW b \in DOMAIN sz
    PROVE  \/ \E c \in DOMAIN sz :
                /\ c + sz[c] = b /\ PREV(h, b) = c /\ Size(h, c) = sz[c]
                /\ GET_ALLOC(h, FTRP(h, c)) = (IF c \in fr THEN 0 ELSE 1)
                /\ \E s \in DOMAIN cz : s + 32 <= c /\ b + sz[b] <= s + cz[s]
           \/ \E s \in DOMAIN cz :
                /\ b = s + 32 /\ b + sz[b] <= s + cz[s]
                /\ PREV(h, b) = b - 16 /\ Size(h, b - 16) = 16
                /\ GET_ALLOC(h, FTRP(h, b - 16)) = 1
<1>1. PICK s \in DOMAIN cz :
             /\ s + 32 <= b /\ b + sz[b] <= s + cz[s]
             /\ b = s + 32 \/ \E c \in DOMAIN sz : c + sz[c] = b /\ s + 32 <= c
    BY Neighbours
<1>2. b \in Nat /\ b >= 48 /\ b < SIZE_MOD /\ sz[b] \in Nat
    BY BlockFacts
<1>3. Wrap(b - OVERHEAD) = b - 16 /\ Wrap(b - 16) = b - 16
    <2>1. b - 16 \in Nat /\ b - 16 < SIZE_MOD
        BY <1>2, PageSizeFacts
    <2> QED
        BY <2>1, WrapSmall DEF OVERHEAD
<1>4. ASSUME NEW c \in DOMAIN sz, c + sz[c] = b, s + 32 <= c
      PROVE  /\ PREV(h, b) = c /\ Size(h, c) = sz[c]
             /\ GET_ALLOC(h, FTRP(h, c)) = (IF c \in fr THEN 0 ELSE 1)
    <2>1. /\ Size(h, c) = sz[c] /\ FTRP(h, c) = c + sz[c] - 16
          /\ GET_ALLOC(h, c + sz[c] - 16) = (IF c \in fr THEN 0 ELSE 1)
          /\ GET_SIZE(h, c + sz[c] - 16) = sz[c]
        BY SizeIs
    <2>2. c \in Nat /\ c < SIZE_MOD /\ sz[c] \in Nat /\ b - 16 = c + sz[c] - 16 /\ b - sz[c] = c
        BY <1>4, BlockFacts
    <2>3. PREV(h, b) = Wrap(b - sz[c])
        BY <1>3, <2>1, <2>2 DEF PREV
    <2>4. PREV(h, b) = c
        BY <2>2, <2>3, WrapSmall
    <2> QED
        BY <2>1, <2>4
<1>5. ASSUME b = s + 32
      PROVE  /\ PREV(h, b) = b - 16 /\ Size(h, b - 16) = 16
             /\ GET_ALLOC(h, FTRP(h, b - 16)) = 1
    <2>0. s \in Nat /\ b - 16 = s + 16 /\ b - 24 = s + 8 /\ s + 16 - 8 = s + 8
        BY <1>5 DEF Placed
    <2>1. GET(h, b - 16) = 17 /\ GET(h, b - 24) = 17
        BY <2>0 DEF Tagged
    <2>2. 17 % 16 = 1 /\ 17 % 2 = 1
        OBVIOUS
    <2>3. GET_SIZE(h, b - 16) = 16 /\ GET_SIZE(h, b - 24) = 16 /\ GET_ALLOC(h, b - 16) = 1
        BY <2>1, <2>2 DEF GET_SIZE, GET_ALLOC, ALIGNMENT
    <2>4. PREV(h, b) = b - 16
        BY <1>3, <2>3 DEF PREV
    <2>5. HDRP(b - 16) = b - 24
        <3>1. b - 16 \in Nat /\ b - 16 >= 8 /\ b - 16 < SIZE_MOD /\ (b - 16) - 8 = b - 24
            BY <1>2, PageSizeFacts
        <3> QED
            BY <3>1, HdrpIs
    <2>6. Size(h, b - 16) = 16
        BY <2>3, <2>5 DEF Size
    <2>7. FTRP(h, b - 16) = b - 16
        <3>1. b - 16 + 16 - 16 = b - 16
            BY <1>2
        <3> QED
            BY <3>1, <2>6, <1>3 DEF FTRP, OVERHEAD
    <2> QED
        BY <2>3, <2>4, <2>6, <2>7
<1>6. CASE b = s + 32
    BY <1>1, <1>5, <1>6
<1>7. CASE \E c \in DOMAIN sz : c + sz[c] = b /\ s + 32 <= c
    BY <1>1, <1>4, <1>7
<1> QED
    BY <1>1, <1>6, <1>7

\* What the word behind a block says.
LEMMA NextIs ==
    ASSUME NEW h, NEW cz, Placed(cz), NEW sz, Tiled(cz, sz), NEW fr, Tagged(h, cz, sz, fr),
           NEW b \in DOMAIN sz
    PROVE  \E e \in Nat :
             /\ e = b + sz[b] /\ NEXT(h, b) = e
             /\ \/ /\ e \in DOMAIN sz
                   /\ Size(h, e) = sz[e]
                   /\ GET_ALLOC(h, HDRP(e)) = (IF e \in fr THEN 0 ELSE 1)
                   /\ \E s \in DOMAIN cz : s + 32 <= b /\ e + sz[e] <= s + cz[s]
                \/ /\ Size(h, e) = 0
                   /\ e \notin DOMAIN sz
                   /\ GET_ALLOC(h, HDRP(e)) = 1
                   /\ \E s \in DOMAIN cz : s + 32 <= b /\ e = s + cz[s]
<1>3. b \in Nat /\ b >= 48 /\ sz[b] \in Nat /\ b + sz[b] < SIZE_MOD /\ sz[b] >= 32
    BY BlockFacts
<1>0. PICK e \in Nat : e = b + sz[b]
    BY <1>3
<1>1. PICK s \in DOMAIN cz :
             /\ s + 32 <= b /\ e <= s + cz[s]
             /\ \/ e = s + cz[s]
                \/ e \in DOMAIN sz /\ e + sz[e] <= s + cz[s]
    BY <1>0, Neighbours
<1>2. NEXT(h, b) = e
    BY <1>0, SizeIs
<1>4. CASE e = s + cz[s]
    <2>0. s \in Nat /\ cz[s] \in Nat
        BY DEF Placed
    <2>1. HDRP(e) = e - 8
        BY <1>0, <1>3, HdrpIs
    <2>2. GET(h, s + cz[s] - 8) = 1 /\ 1 % 16 = 1 /\ 1 % 2 = 1
        BY DEF Tagged
    <2>3. GET(h, e - 8) = 1
        BY <2>0, <2>2, <1>4
    <2>4. Size(h, e) = 0 /\ GET_ALLOC(h, HDRP(e)) = 1
        BY <2>1, <2>2, <2>3 DEF Size, GET_SIZE, GET_ALLOC, ALIGNMENT
    <2>5. e \notin DOMAIN sz
        <3> SUFFICES ASSUME e \in DOMAIN sz PROVE FALSE
            OBVIOUS
        <3>1. PICK t \in DOMAIN cz : t + 32 <= e /\ e + sz[e] <= t + cz[t]
            BY DEF Tiled
        <3>2. /\ sz[e] \in Nat /\ sz[e] >= 32 /\ t \in Nat /\ cz[t] \in Nat
            BY DEF Tiled, Placed
        <3>3. s = t \/ s + cz[s] <= t \/ t + cz[t] <= s
            BY DEF Placed
        <3>4. s = t => cz[s] = cz[t]
            OBVIOUS
        <3> QED
            BY <2>0, <3>1, <3>2, <3>3, <3>4, <1>4
    <2> QED
        BY <1>0, <1>1, <1>2, <1>4, <2>4, <2>5
<1>5. CASE e \in DOMAIN sz /\ e + sz[e] <= s + cz[s]
    <2>1. /\ Size(h, e) = sz[e] /\ HDRP(e) = e - 8
          /\ GET_ALLOC(h, e - 8) = (IF e \in fr THEN 0 ELSE 1)
        BY <1>5, SizeIs
    <2> QED
        BY <1>0, <1>1, <1>2, <1>5, <2>1
<1> QED
    BY <1>1, <1>4, <1>5

\* Merged with the block behind it, a block swallows that one.
LEMMA SwallowOne ==
    ASSUME NEW cz, NEW sz, Tiled(cz, sz), NEW b \in DOMAIN sz, NEW c \in DOMAIN sz, b + sz[b] = c
    PROVE  Swallowed(sz, b, sz[b] + sz[c]) = {c}
<1>1. /\ \A x \in DOMAIN sz : x \in Nat /\ sz[x] \in Nat /\ sz[x] >= 32
      /\ \A x, y \in DOMAIN sz : x # y => x + sz[x] <= y \/ y + sz[y] <= x
    BY DEF Tiled
<1>2. ASSUME NEW x \in DOMAIN sz, b < x, x < b + (sz[b] + sz[c]), x # c
      PROVE  FALSE
    <2>1. x # b /\ x \in Nat /\ sz[x] \in Nat /\ sz[x] >= 32 /\ b \in Nat /\ sz[b] \in Nat /\ sz[c] \in Nat
        BY <1>1, <1>2
    <2>2. b + sz[b] <= x \/ x + sz[x] <= b
        BY <1>1, <2>1
    <2>3. c + sz[c] <= x \/ x + sz[x] <= c
        BY <1>1, <1>2
    <2> QED
        BY <2>1, <2>2, <2>3, <1>2
<1>3. b < c /\ c < b + (sz[b] + sz[c])
    <2>1. b \in Nat /\ sz[b] \in Nat /\ sz[c] \in Nat /\ sz[b] >= 32 /\ sz[c] >= 32
        BY <1>1
    <2> QED
        BY <2>1
<1> QED
    BY <1>2, <1>3 DEF Swallowed

\* Merged with the next two blocks, it swallows both.
LEMMA SwallowTwo ==
    ASSUME NEW cz, NEW sz, Tiled(cz, sz), NEW b \in DOMAIN sz, NEW c \in DOMAIN sz, b + sz[b] = c,
           NEW d \in DOMAIN sz, c + sz[c] = d
    PROVE  Swallowed(sz, b, sz[b] + sz[c] + sz[d]) = {c, d}
<1>1. /\ \A x \in DOMAIN sz : x \in Nat /\ sz[x] \in Nat /\ sz[x] >= 32
      /\ \A x, y \in DOMAIN sz : x # y => x + sz[x] <= y \/ y + sz[y] <= x
    BY DEF Tiled
<1>0. b \in Nat /\ sz[b] \in Nat /\ sz[c] \in Nat /\ sz[d] \in Nat /\ sz[b] >= 32 /\ sz[c] >= 32 /\ sz[d] >= 32
    BY <1>1
<1>2. ASSUME NEW x \in DOMAIN sz, b < x, x < b + (sz[b] + sz[c] + sz[d]), x # c, x # d
      PROVE  FALSE
    <2>1. x # b /\ x \in Nat /\ sz[x] \in Nat /\ sz[x] >= 32
        BY <1>0, <1>1, <1>2
    <2>2. b + sz[b] <= x \/ x + sz[x] <= b
        BY <1>1, <2>1
    <2>3. c + sz[c] <= x \/ x + sz[x] <= c
        BY <1>1, <1>2
    <2>4. d + sz[d] <= x \/ x + sz[x] <= d
        BY <1>1, <1>2
    <2> QED
        BY <1>0, <2>1, <2>2, <2>3, <2>4, <1>2
<1>3. b < c /\ c < b + (sz[b] + sz[c] + sz[d]) /\ b < d /\ d < b + (sz[b] + sz[c] + sz[d])
    BY <1>0
<1> QED
    BY <1>2, <1>3 DEF Swallowed

\* No two free blocks side by side, but for the neighbours of one.
Joined(sz, fr) == \A x, y \in fr : x + sz[x] # y
\* No two free blocks lie side by side, b excepted.
NearJoined(sz, fr, b) == \A x, y \in fr : x + sz[x] = y => x = b \/ y = b

\* The same blocks are handed out, with the same sizes.
SameUsed(sz, fr, sz2, fr2) ==
    /\ DOMAIN sz2 \ fr2 = DOMAIN sz \ fr
    /\ \A x \in DOMAIN sz \ fr : sz2[x] = sz[x]

\* The free blocks but one are the same, or fewer.
SameFree(sz, fr, b, sz2, fr2) == \A x \in fr2 : x # b => x \in fr /\ sz2[x] = sz[x]

\* Merging free blocks changes no other block.
LEMMA MergeKeeps ==
    ASSUME NEW cz, NEW sz, Tiled(cz, sz), NEW fr \in SUBSET DOMAIN sz,
           NEW b \in fr, NEW z, NEW W \in SUBSET fr, W = Swallowed(sz, b, z)
    PROVE  /\ SameUsed(sz, fr, Merge(sz, b, z), fr \ W)
           /\ SameFree(sz, fr, b, Merge(sz, b, z), fr \ W)
           /\ Merge(sz, b, z)[b] = z
           /\ b \in fr \ W
<1>0. b \in DOMAIN sz /\ b \in Nat
    BY DEF Tiled
<1>1. DOMAIN Merge(sz, b, z) = DOMAIN sz \ W /\ b \in DOMAIN Merge(sz, b, z)
    BY <1>0, MergeDomain
<1>2. Merge(sz, b, z)[b] = z
    BY <1>0, MergeAt
<1>3. \A x \in DOMAIN sz \ W : x # b => Merge(sz, b, z)[x] = sz[x]
    BY <1>0, MergeAt
<1>4. b \notin W
    BY <1>0 DEF Swallowed
<1> DEFINE m == Merge(sz, b, z)
<1> HIDE DEF m
<1>5. DOMAIN m \ (fr \ W) = DOMAIN sz \ fr
    BY <1>1 DEF m
<1>6. \A x \in DOMAIN sz \ fr : m[x] = sz[x]
    BY <1>3 DEF m
<1>7. SameUsed(sz, fr, m, fr \ W)
    BY <1>5, <1>6 DEF SameUsed
<1>8. \A x \in fr \ W : x # b => m[x] = sz[x]
    BY <1>3 DEF m
<1> QED
    BY <1>2, <1>4, <1>7, <1>8 DEF m, SameFree

\* What coalesce leaves: all free blocks listed and none side by side, the
\* block it returns among them.
CoalesceLeaves(h, g, cz, sz, fr, b, bp) ==
    /\ Kept(h, g) /\ DataKept(h, g, sz, fr)
    /\ \E sz2, fr2, L2, n2 :
          /\ Formed(g, cz, sz2, fr2, L2, n2)
          /\ Entries(L2, n2) = fr2 /\ Joined(sz2, fr2) /\ bp \in fr2
          /\ SameUsed(sz, fr, sz2, fr2)
          /\ SameFree(sz, fr \ {b}, bp, sz2, fr2)

\* Kept, SameUsed and DataKept compose.
LEMMA KeptTrans ==
    ASSUME NEW h, NEW g, NEW k, Kept(h, g), Kept(g, k)
    PROVE  Kept(h, k)
BY DEF Kept

LEMMA DataKeptTrans ==
    ASSUME NEW h, NEW g, NEW k, NEW sz, NEW fr, DataKept(h, g, sz, fr),
           NEW sz2, NEW fr2, DataKept(g, k, sz2, fr2), SameUsed(sz, fr, sz2, fr2)
    PROVE  DataKept(h, k, sz, fr)
<1> SUFFICES ASSUME NEW b \in DOMAIN sz \ fr, NEW x \in Int, b <= x, x < b + sz[b] - 16
             PROVE  GET(k, x) = GET(h, x)
    BY DEF DataKept
<1>1. GET(g, x) = GET(h, x)
    BY DEF DataKept
<1>2. b \in DOMAIN sz2 \ fr2 /\ sz2[b] = sz[b]
    BY DEF SameUsed
<1>3. GET(k, x) = GET(g, x)
    BY <1>2 DEF DataKept
<1> QED
    BY <1>1, <1>3

LEMMA SameUsedSelf ==
    ASSUME NEW sz, NEW fr
    PROVE  SameUsed(sz, fr, sz, fr)
BY DEF SameUsed

\* coalesce, when neither neighbour is free.
LEMMA CoalescePush ==
    ASSUME NEW h, NEW cz, NEW sz, NEW fr, NEW L, NEW n, Formed(h, cz, sz, fr, L, n),
           NEW b \in fr, Entries(L, n) = fr \ {b}, NearJoined(sz, fr, b),
           \A x \in fr : x + sz[x] # b /\ b + sz[b] # x
    PROVE  CoalesceLeaves(h, push_free(h, b), cz, sz, fr, b, b)
<1> DEFINE g == push_free(h, b)
           M == Cons(b, L, n)
<1>1. /\ Tiled(cz, sz) /\ Placed(cz) /\ fr \subseteq DOMAIN sz
    BY DEF Formed, Chunked, Tagged
<1>2. b \in DOMAIN sz /\ b \notin Entries(L, n)
    BY <1>1
<1>3. Formed(g, cz, sz, fr, M, n + 1) /\ Kept(h, g) /\ OnlyLinks(h, g, Entries(L, n) \cup {b})
    BY <1>2, OpPush
<1> HIDE DEF g, M
<1>4. Entries(M, n + 1) = fr
    <2>1. Linked(h, L, n)
        BY DEF Formed
    <2>2. Entries(M, n + 1) = Entries(L, n) \cup {b}
        BY <2>1, ConsIs DEF M
    <2> QED
        BY <2>2
<1>5. DataKept(h, g, sz, fr)
    <2>1. Entries(L, n) \cup {b} \in SUBSET (DOMAIN sz \cap fr)
        BY <1>1
    <2> QED
        BY <2>1, <1>1, <1>3, LinksData
<1>6. Joined(sz, fr)
    BY DEF Joined, NearJoined
<1> QED
    BY <1>3, <1>4, <1>5, <1>6, SameUsedSelf DEF CoalesceLeaves, SameFree, g

\* The block before is free: it grows, and stays where it is on the list.
LEMMA CoalesceBack ==
    ASSUME NEW h, NEW cz, NEW sz, NEW fr, NEW L, NEW n, Formed(h, cz, sz, fr, L, n),
           NEW b \in fr, Entries(L, n) = fr \ {b}, NearJoined(sz, fr, b),
           NEW p \in fr, p + sz[p] = b,
           \E s \in DOMAIN cz : s + 32 <= p /\ b + sz[b] <= s + cz[s],
           \A x \in fr : b + sz[b] # x
    PROVE  CoalesceLeaves(h, Mark(h, p, sz[p] + sz[b], 0), cz, sz, fr, b, p)
<1> DEFINE z == sz[p] + sz[b]
           g == Mark(h, p, z, 0)
           m == Merge(sz, p, z)
           fs == fr \ {b}
<1>1. /\ Tiled(cz, sz) /\ Placed(cz) /\ fr \subseteq DOMAIN sz
    BY DEF Formed, Chunked, Tagged
<1>2. /\ b \in DOMAIN sz /\ p \in DOMAIN sz /\ b \in Nat /\ p \in Nat /\ sz[b] \in Nat /\ sz[p] \in Nat
      /\ sz[b] >= 32 /\ sz[p] >= 32
    BY <1>1 DEF Tiled
<1>3. z \in Nat /\ p <= b /\ p + z = b + sz[b] /\ p # b
    BY <1>2
<1>4. Swallowed(sz, p, z) = {b}
    BY <1>1, <1>2, SwallowOne
<1> HIDE DEF z
<1>5. Formed(g, cz, m, fs, L, n) /\ Kept(h, g) /\ DataKept(h, g, sz, fr)
    <2>1. Swallowed(sz, p, z) \subseteq fr \ Entries(L, n)
        BY <1>4
    <2>2. \E s \in DOMAIN cz : s + 32 <= p /\ p + z <= s + cz[s]
        BY <1>3
    <2>3. /\ Formed(g, cz, m, fr \ Swallowed(sz, p, z), L, n)
          /\ Kept(h, g) /\ DataKept(h, g, sz, fr)
        BY <1>2, <1>3, <2>1, <2>2, OpMerge
    <2> QED
        BY <2>3, <1>4
<1>6. SameUsed(sz, fr, m, fs) /\ SameFree(sz, fr, p, m, fs) /\ m[p] = z /\ p \in fs
    <2>1. {b} \in SUBSET fr /\ fr \in SUBSET DOMAIN sz /\ {b} = Swallowed(sz, p, z)
        BY <1>1, <1>4
    <2> QED
        BY <2>1, <1>1, MergeKeeps
<1> HIDE DEF g, m
<1>7. Joined(m, fs)
    <2> SUFFICES ASSUME NEW x \in fs, NEW y \in fs, x + m[x] = y PROVE FALSE
        BY DEF Joined
    <2>1. CASE x = p
        BY <2>1, <1>3, <1>6
    <2>2. CASE x # p
        <3>1. x + sz[x] = y /\ x \in fr /\ y \in fr
            BY <2>2, <1>6 DEF SameFree
        <3> QED
            BY <3>1 DEF NearJoined
    <2> QED
        BY <2>1, <2>2
<1>8. SameFree(sz, fr \ {b}, p, m, fs)
    BY <1>6 DEF SameFree
<1>9. Entries(L, n) = fs
    OBVIOUS
<1> HIDE DEF fs
<1> QED
    BY <1>5, <1>6, <1>7, <1>8, <1>9 DEF CoalesceLeaves, g, z

\* The block behind is free: it leaves the list, and the block joined with it
\* enters.
LEMMA CoalesceForth ==
    ASSUME NEW h, NEW cz, NEW sz, NEW fr, NEW L, NEW n, Formed(h, cz, sz, fr, L, n),
           NEW b \in fr, Entries(L, n) = fr \ {b}, NearJoined(sz, fr, b),
           NEW e \in fr, b + sz[b] = e,
           \E s \in DOMAIN cz : s + 32 <= b /\ e + sz[e] <= s + cz[s],
           \A x \in fr : x + sz[x] # b
    PROVE  CoalesceLeaves(h, push_free(Mark(pop_free(h, e), b, sz[b] + sz[e], 0), b), cz, sz, fr, b, b)
<1> DEFINE z == sz[b] + sz[e]
           h1 == pop_free(h, e)
           h2 == Mark(h1, b, z, 0)
           m == Merge(sz, b, z)
           fs == fr \ {e}
<1>1. /\ Tiled(cz, sz) /\ Placed(cz) /\ fr \subseteq DOMAIN sz
    BY DEF Formed, Chunked, Tagged
<1>2. /\ b \in DOMAIN sz /\ e \in DOMAIN sz /\ b \in Nat /\ e \in Nat /\ sz[b] \in Nat /\ sz[e] \in Nat
      /\ sz[b] >= 32 /\ sz[e] >= 32
    BY <1>1 DEF Tiled
<1>3. z \in Nat /\ b <= e /\ b + z = e + sz[e] /\ b # e
    BY <1>2
<1>4. Swallowed(sz, b, z) = {e}
    BY <1>1, <1>2, SwallowOne
<1> HIDE DEF z
<1>5. PICK k \in 1 .. n : L[k] = e
    BY <1>3 DEF Entries
<1> DEFINE M == Cut(L, n, k)
<1>6. Formed(h1, cz, sz, fr, M, n - 1) /\ Kept(h, h1) /\ Entries(M, n - 1) = fr \ {b, e}
      /\ OnlyLinks(h, h1, Entries(L, n))
    <2>1. /\ Formed(h1, cz, sz, fr, M, n - 1) /\ Kept(h, h1)
          /\ OnlyLinks(h, h1, Entries(L, n))
        BY <1>5, OpPop
    <2>2. Linked(h, L, n)
        BY DEF Formed
    <2>3. Entries(M, n - 1) = Entries(L, n) \ {L[k]}
        BY <2>2, CutIs
    <2> QED
        BY <2>1, <2>3, <1>5
<1>7. DataKept(h, h1, sz, fr)
    <2>1. Entries(L, n) \in SUBSET (DOMAIN sz \cap fr)
        BY <1>1
    <2> QED
        BY <2>1, <1>1, <1>6, LinksData
<1> HIDE DEF h1, M
<1>8. Formed(h2, cz, m, fs, M, n - 1) /\ Kept(h1, h2) /\ DataKept(h1, h2, sz, fr)
    <2>1. Swallowed(sz, b, z) \subseteq fr \ Entries(M, n - 1)
        BY <1>4, <1>6
    <2>2. \E s \in DOMAIN cz : s + 32 <= b /\ b + z <= s + cz[s]
        BY <1>3
    <2>3. /\ Formed(h2, cz, m, fr \ Swallowed(sz, b, z), M, n - 1)
          /\ Kept(h1, h2) /\ DataKept(h1, h2, sz, fr)
        BY <1>2, <1>3, <1>6, <2>1, <2>2, OpMerge
    <2> QED
        BY <2>3, <1>4
<1>9. SameUsed(sz, fr, m, fs) /\ SameFree(sz, fr, b, m, fs) /\ m[b] = z /\ b \in fs
    <2>1. {e} \in SUBSET fr /\ fr \in SUBSET DOMAIN sz /\ {e} = Swallowed(sz, b, z)
        BY <1>1, <1>4
    <2> QED
        BY <2>1, <1>1, MergeKeeps
<1> HIDE DEF h2, m
<1>10. ASSUME NEW x \in fs, NEW y \in fs, x + m[x] = y
       PROVE  FALSE
    <2>1. CASE x = b
        <3>1. e + sz[e] = y
            BY <2>1, <1>3, <1>9, <1>10
        <3>2. y # e /\ y # b
            BY <3>1, <1>2, <1>3
        <3> QED
            BY <3>1, <3>2, <1>3 DEF NearJoined
    <2>2. CASE x # b
        <3>1. x + sz[x] = y /\ x \in fr /\ y \in fr
            BY <2>2, <1>9, <1>10 DEF SameFree
        <3> QED
            BY <3>1, <2>2 DEF NearJoined
    <2> QED
        BY <2>1, <2>2
<1>11. CoalesceLeaves(h2, push_free(h2, b), cz, m, fs, b, b)
    <2>1. Entries(M, n - 1) = fs \ {b}
        BY <1>6
    <2>2. NearJoined(m, fs, b)
        BY <1>10 DEF NearJoined
    <2>3. \A x \in fs : x + m[x] # b /\ b + m[b] # x
        BY <1>9, <1>10
    <2> QED
        BY <1>8, <1>9, <2>1, <2>2, <2>3, CoalescePush
<1> DEFINE g == push_free(h2, b)
<1> HIDE DEF g
<1>12. PICK sz2, fr2, L2, n2 :
          /\ Formed(g, cz, sz2, fr2, L2, n2)
          /\ Entries(L2, n2) = fr2 /\ Joined(sz2, fr2) /\ b \in fr2
          /\ SameUsed(m, fs, sz2, fr2)
          /\ SameFree(m, fs \ {b}, b, sz2, fr2)
    BY <1>11 DEF CoalesceLeaves, g
<1>13. Kept(h, g)
    BY <1>6, <1>8, <1>11 DEF Kept, CoalesceLeaves, g
<1>14. DataKept(h, g, sz, fr)
    <2>1. DataKept(h, h2, sz, fr)
        BY <1>7, <1>8, SameUsedSelf, DataKeptTrans
    <2>2. DataKept(h2, g, m, fs)
        BY <1>11 DEF CoalesceLeaves, g
    <2> QED
        BY <2>1, <2>2, <1>9, DataKeptTrans
<1>15. SameUsed(sz, fr, sz2, fr2)
    BY <1>9, <1>12 DEF SameUsed
<1>16. SameFree(sz, fr \ {b}, b, sz2, fr2)
    BY <1>9, <1>12 DEF SameFree
<1>17. CoalesceLeaves(h, g, cz, sz, fr, b, b)
    BY <1>12, <1>13, <1>14, <1>15, <1>16 DEF CoalesceLeaves
<1> QED
    BY <1>17 DEF g, h2, h1, z

\* Both neighbours are free.
LEMMA CoalesceBoth ==
    ASSUME NEW h, NEW cz, NEW sz, NEW fr, NEW L, NEW n, Formed(h, cz, sz, fr, L, n),
           NEW b \in fr, Entries(L, n) = fr \ {b}, NearJoined(sz, fr, b),
           NEW p \in fr, p + sz[p] = b, NEW e \in fr, b + sz[b] = e,
           \E s \in DOMAIN cz : s + 32 <= p /\ e + sz[e] <= s + cz[s]
    PROVE  CoalesceLeaves(h, Mark(pop_free(h, e), p, sz[p] + sz[b] + sz[e], 0), cz, sz, fr, b, p)
<1> DEFINE z == sz[p] + sz[b] + sz[e]
           h1 == pop_free(h, e)
           g == Mark(h1, p, z, 0)
           m == Merge(sz, p, z)
           fs == fr \ {b, e}
<1>1. /\ Tiled(cz, sz) /\ Placed(cz) /\ fr \subseteq DOMAIN sz
    BY DEF Formed, Chunked, Tagged
<1>2. /\ b \in DOMAIN sz /\ e \in DOMAIN sz /\ b \in Nat /\ e \in Nat /\ sz[b] \in Nat /\ sz[e] \in Nat
      /\ sz[b] >= 32 /\ sz[e] >= 32
      /\ p \in DOMAIN sz /\ p \in Nat /\ sz[p] \in Nat /\ sz[p] >= 32
    BY <1>1 DEF Tiled
<1>3. z \in Nat /\ p <= e /\ p + z = e + sz[e] /\ b # e /\ p # b /\ p # e
    BY <1>2
<1>4. Swallowed(sz, p, z) = {b, e}
    BY <1>1, <1>2, SwallowTwo
<1> HIDE DEF z
<1>5. PICK k \in 1 .. n : L[k] = e
    BY <1>3 DEF Entries
<1> DEFINE M == Cut(L, n, k)
<1>6. Formed(h1, cz, sz, fr, M, n - 1) /\ Kept(h, h1) /\ Entries(M, n - 1) = fr \ {b, e}
      /\ OnlyLinks(h, h1, Entries(L, n))
    <2>1. /\ Formed(h1, cz, sz, fr, M, n - 1) /\ Kept(h, h1)
          /\ OnlyLinks(h, h1, Entries(L, n))
        BY <1>5, OpPop
    <2>2. Linked(h, L, n)
        BY DEF Formed
    <2>3. Entries(M, n - 1) = Entries(L, n) \ {L[k]}
        BY <2>2, CutIs
    <2> QED
        BY <2>1, <2>3, <1>5
<1>7. DataKept(h, h1, sz, fr)
    <2>1. Entries(L, n) \in SUBSET (DOMAIN sz \cap fr)
        BY <1>1
    <2> QED
        BY <2>1, <1>1, <1>6, LinksData
<1> HIDE DEF h1, M
<1>8. Formed(g, cz, m, fs, M, n - 1) /\ Kept(h1, g) /\ DataKept(h1, g, sz, fr)
    <2>1. Swallowed(sz, p, z) \subseteq fr \ Entries(M, n - 1)
        BY <1>4, <1>6
    <2>2. \E s \in DOMAIN cz : s + 32 <= p /\ p + z <= s + cz[s]
        BY <1>3
    <2>3. /\ Formed(g, cz, m, fr \ Swallowed(sz, p, z), M, n - 1)
          /\ Kept(h1, g) /\ DataKept(h1, g, sz, fr)
        BY <1>2, <1>3, <1>6, <2>1, <2>2, OpMerge
    <2> QED
        BY <2>3, <1>4
<1>9. SameUsed(sz, fr, m, fs) /\ SameFree(sz, fr, p, m, fs) /\ m[p] = z /\ p \in fs
    <2>1. {b, e} \in SUBSET fr /\ fr \in SUBSET DOMAIN sz /\ {b, e} = Swallowed(sz, p, z)
        BY <1>1, <1>4
    <2> QED
        BY <2>1, <1>1, MergeKeeps
<1> HIDE DEF g, m
<1>10. Joined(m, fs)
    <2> SUFFICES ASSUME NEW x \in fs, NEW y \in fs, x + m[x] = y PROVE FALSE
        BY DEF Joined
    <2>1. CASE x = p
        <3>1. e + sz[e] = y
            BY <2>1, <1>3, <1>9
        <3> QED
            BY <3>1, <1>3 DEF NearJoined
    <2>2. CASE x # p
        <3>1. x + sz[x] = y /\ x \in fr /\ y \in fr
            BY <2>2, <1>9 DEF SameFree
        <3> QED
            BY <3>1 DEF NearJoined
    <2> QED
        BY <2>1, <2>2
<1>11. DataKept(h, g, sz, fr)
    BY <1>7, <1>8, SameUsedSelf, DataKeptTrans
<1>12. Kept(h, g)
    BY <1>6, <1>8, KeptTrans
<1>13. Entries(M, n - 1) = fs
    BY <1>6
<1>14. SameFree(sz, fr \ {b}, p, m, fs)
    BY <1>9 DEF SameFree
<1> HIDE DEF fs
<1> QED
    BY <1>8, <1>9, <1>10, <1>11, <1>12, <1>13, <1>14 DEF CoalesceLeaves, g, z, h1

\* coalesce joins the free block with its free neighbours, and lists it.
LEMMA CoalesceIs ==
    ASSUME NEW h, NEW cz, NEW sz, NEW fr, NEW L, NEW n, Formed(h, cz, sz, fr, L, n),
           NEW b \in fr, Entries(L, n) = fr \ {b}, NearJoined(sz, fr, b)
    PROVE  LET o == coalesce(h, b)
           IN  CoalesceLeaves(h, o.h, cz, sz, fr, b, o.bp)
<1>1. /\ Tiled(cz, sz) /\ Placed(cz) /\ fr \subseteq DOMAIN sz /\ Tagged(h, cz, sz, fr)
    BY DEF Formed, Chunked, Tagged
<1>2. /\ \A x \in DOMAIN sz : x \in Nat /\ sz[x] \in Nat /\ sz[x] >= 32
      /\ \A x, y \in DOMAIN sz : x # y => x + sz[x] <= y \/ y + sz[y] <= x
      /\ b \in DOMAIN sz /\ Size(h, b) = sz[b]
    <2>1. b \in DOMAIN sz
        BY <1>1
    <2>2. Size(h, b) = sz[b]
        BY <2>1, <1>1, SizeIs
    <2> QED
        BY <2>1, <2>2, <1>1 DEF Tiled
<1>3. PICK p : /\ PREV(h, b) = p
               /\ \/ /\ p \in DOMAIN sz /\ p + sz[p] = b /\ Size(h, p) = sz[p]
                     /\ GET_ALLOC(h, FTRP(h, p)) = (IF p \in fr THEN 0 ELSE 1)
                     /\ \E s \in DOMAIN cz : s + 32 <= p /\ b + sz[b] <= s + cz[s]
                  \/ /\ GET_ALLOC(h, FTRP(h, p)) = 1
                     /\ \E s \in DOMAIN cz : b = s + 32
    BY <1>1, <1>2, PrevIs
<1>4. PICK e : /\ e = b + sz[b] /\ NEXT(h, b) = e
               /\ \/ /\ e \in DOMAIN sz /\ Size(h, e) = sz[e]
                     /\ GET_ALLOC(h, HDRP(e)) = (IF e \in fr THEN 0 ELSE 1)
                     /\ \E s \in DOMAIN cz : s + 32 <= b /\ e + sz[e] <= s + cz[s]
                  \/ /\ e \notin DOMAIN sz
                     /\ GET_ALLOC(h, HDRP(e)) = 1
    BY <1>1, <1>2, NextIs
<1> DEFINE pa == GET_ALLOC(h, FTRP(h, p)) = 1
           na == GET_ALLOC(h, HDRP(e)) = 1
           o == coalesce(h, b)
<1>5. pa => \A x \in fr : x + sz[x] # b
    <2> SUFFICES ASSUME pa, NEW x \in fr, x + sz[x] = b PROVE FALSE
        OBVIOUS
    <2>1. x \in DOMAIN sz /\ x \in Nat /\ sz[x] \in Nat /\ sz[x] >= 32 /\ b \in Nat /\ sz[b] \in Nat
        BY <1>1, <1>2
    <2>2. CASE \E s \in DOMAIN cz : b = s + 32
        <3>1. PICK s \in DOMAIN cz : b = s + 32
            BY <2>2
        <3>2. PICK t \in DOMAIN cz : t + 32 <= x /\ x + sz[x] <= t + cz[t]
            BY <2>1, <1>1 DEF Tiled
        <3>3. s \in Nat /\ t \in Nat /\ cz[s] \in Nat /\ cz[t] \in Nat /\ (s = t \/ s + cz[s] <= t \/ t + cz[t] <= s) /\ cz[s] >= 64
            BY <1>1 DEF Placed
        <3> QED
            BY <2>1, <3>1, <3>2, <3>3
    <2>3. CASE p \in DOMAIN sz /\ p + sz[p] = b /\ p \notin fr
        <3>1. p # x /\ p \in Nat /\ sz[p] \in Nat /\ sz[p] >= 32
            BY <2>3, <1>2
        <3>2. p + sz[p] <= x \/ x + sz[x] <= p
            BY <3>1, <2>1, <2>3, <1>2
        <3> QED
            BY <2>1, <2>3, <3>1, <3>2
    <2> QED
        BY <1>3, <2>2, <2>3
<1>6. na => \A x \in fr : b + sz[b] # x
    BY <1>1, <1>4
<1>7. ~pa => /\ p \in fr /\ p + sz[p] = b /\ Size(h, p) = sz[p]
             /\ \E s \in DOMAIN cz : s + 32 <= p /\ b + sz[b] <= s + cz[s]
    BY <1>3
<1>8. ~na => /\ e \in fr /\ b + sz[b] = e /\ Size(h, e) = sz[e]
             /\ \E s \in DOMAIN cz : s + 32 <= b /\ e + sz[e] <= s + cz[s]
    BY <1>4
<1> HIDE DEF pa, na
<1>9. CASE pa /\ na
    <2>1. o = Outcome(push_free(h, b), b)
        BY <1>3, <1>4, <1>9 DEF coalesce, pa, na
    <2>2. CoalesceLeaves(h, push_free(h, b), cz, sz, fr, b, b)
        BY <1>5, <1>6, <1>9, CoalescePush
    <2> QED
        BY <2>1, <2>2 DEF Outcome
<1>10. CASE pa /\ ~na
    <2>1. o = Outcome(push_free(Mark(pop_free(h, e), b, sz[b] + sz[e], 0), b), b)
        BY <1>2, <1>3, <1>4, <1>8, <1>10 DEF coalesce, pa, na, With
    <2>2. CoalesceLeaves(h, push_free(Mark(pop_free(h, e), b, sz[b] + sz[e], 0), b), cz, sz, fr, b, b)
        BY <1>5, <1>8, <1>10, CoalesceForth
    <2> QED
        BY <2>1, <2>2 DEF Outcome
<1>11. CASE ~pa /\ na
    <2>1. o = Outcome(Mark(h, p, sz[p] + sz[b], 0), p)
        BY <1>2, <1>3, <1>4, <1>7, <1>11 DEF coalesce, pa, na
    <2>2. CoalesceLeaves(h, Mark(h, p, sz[p] + sz[b], 0), cz, sz, fr, b, p)
        BY <1>6, <1>7, <1>11, CoalesceBack
    <2> QED
        BY <2>1, <2>2 DEF Outcome
<1>12. CASE ~pa /\ ~na
    <2>1. o = Outcome(Mark(pop_free(h, e), p, sz[p] + sz[b] + sz[e], 0), p)
        BY <1>2, <1>3, <1>4, <1>7, <1>8, <1>12 DEF coalesce, pa, na
    <2>2. \E s \in DOMAIN cz : s + 32 <= p /\ e + sz[e] <= s + cz[s]
        <3>1. PICK s \in DOMAIN cz : s + 32 <= b /\ e + sz[e] <= s + cz[s]
            BY <1>8, <1>12
        <3>2. PICK t \in DOMAIN cz : t + 32 <= p /\ b + sz[b] <= t + cz[t]
            BY <1>7, <1>12
        <3>3. /\ s \in Nat /\ t \in Nat /\ cz[s] \in Nat /\ cz[t] \in Nat
              /\ s = t \/ s + cz[s] <= t \/ t + cz[t] <= s
            BY <1>1 DEF Placed
        <3>4. /\ b \in Nat /\ sz[b] \in Nat /\ sz[b] >= 32 /\ p \in Nat /\ sz[p] \in Nat /\ p + sz[p] = b
              /\ e \in Nat /\ sz[e] \in Nat /\ e = b + sz[b]
            BY <1>1, <1>2, <1>7, <1>8, <1>12
        <3>5. s = t
            BY <3>1, <3>2, <3>3, <3>4
        <3> QED
            BY <3>1, <3>2, <3>5
    <2>3. CoalesceLeaves(h, Mark(pop_free(h, e), p, sz[p] + sz[b] + sz[e], 0), cz, sz, fr, b, p)
        BY <1>7, <1>8, <1>12, <2>2, CoalesceBoth
    <2> QED
        BY <2>1, <2>3 DEF Outcome
<1> QED
    BY <1>9, <1>10, <1>11, <1>12

-----------------------------------------------------------------------------
(* Unmapping a chunk.                                                      *)

\* The pages of two chunks are different ones.
LEMMA PagesApart ==
    ASSUME NEW s \in Nat, NEW y \in Nat, s % PAGESIZE = 0, y % PAGESIZE = 0,
           NEW t \in Nat, NEW z \in Nat, t % PAGESIZE = 0, z % PAGESIZE = 0,
           s + y <= t \/ t + z <= s
    PROVE  Pages(s, y) \cap Pages(t, z) = {}
<1> SUFFICES ASSUME NEW pg \in Pages(s, y), pg \in Pages(t, z) PROVE FALSE
    OBVIOUS
<1>1. pg \in Nat
    BY PageSizeFacts DEF Pages, Page
<1> DEFINE a == PAGESIZE * pg
<1>2. a \in Nat /\ a \div PAGESIZE = pg
    BY <1>1, PageSizeFacts, DivIs
<1> HIDE DEF a
<1>3. s <= a /\ a < s + y
    BY <1>2, InPages
<1>4. t <= a /\ a < t + z
    BY <1>2, InPages
<1> QED
    BY <1>2, <1>3, <1>4

\* A block that makes up a whole chunk has no other beside it.
LEMMA OthersOutside ==
    ASSUME NEW cz, Placed(cz), NEW sz, Tiled(cz, sz), NEW b \in DOMAIN sz,
           NEW s \in DOMAIN cz, b = s + 32, b + sz[b] = s + cz[s],
           NEW c \in DOMAIN sz, c # b
    PROVE  /\ \E t \in DOMAIN cz : t # s /\ t + 32 <= c /\ c + sz[c] <= t + cz[t]
           /\ c + sz[c] <= s \/ s + cz[s] <= c - 32
<1>1. PICK t \in DOMAIN cz : t + 32 <= c /\ c + sz[c] <= t + cz[t]
    BY DEF Tiled
<1>2. /\ b \in Nat /\ c \in Nat /\ sz[b] \in Nat /\ sz[c] \in Nat /\ sz[b] >= 32 /\ sz[c] >= 32
      /\ b + sz[b] <= c \/ c + sz[c] <= b
    BY DEF Tiled
<1>3. s \in Nat /\ t \in Nat /\ cz[s] \in Nat /\ cz[t] \in Nat
    BY DEF Placed
<1>4. t # s
    BY <1>1, <1>2, <1>3
<1>5. s + cz[s] <= t \/ t + cz[t] <= s
    BY <1>4 DEF Placed
<1> QED
    BY <1>1, <1>2, <1>3, <1>4, <1>5

\* mem_unmap takes pages away, and the words on them.
LEMMA UnmapIs ==
    ASSUME NEW h, Sound(h), NEW s \in Nat, NEW z \in Nat, s % PAGESIZE = 0, z % PAGESIZE = 0,
           Pages(s, z) \subseteq h.mapped
    PROVE  LET g == mem_unmap(h, s, z)
           IN  /\ Sound(g)
               /\ g.mapped = h.mapped \ Pages(s, z)
               /\ g.home_pg = h.home_pg /\ g.free_start = h.free_start
               /\ \A x \in Nat : x < s \/ s + z <= x => GET(g, x) = GET(h, x)
<1> DEFINE left == h.mapped \ Pages(s, z)
           m == Restricted(h.mem, WordsOf(left))
           g == mem_unmap(h, s, z)
<1>1. IsHeap(h)
    BY DEF Sound
<1>2. g = [mem |-> m, mapped |-> left, home_pg |-> h.home_pg, free_start |-> h.free_start]
    BY <1>1 DEF mem_unmap, IsHeap
<1>3. DOMAIN m = DOMAIN h.mem \cap WordsOf(left) /\ \A a \in DOMAIN m : m[a] = h.mem[a]
    BY DEF Restricted
<1> HIDE DEF m, g
<1>4. g.mem = m /\ g.mapped = left /\ g.home_pg = h.home_pg /\ g.free_start = h.free_start /\ IsHeap(g)
    BY <1>2 DEF IsHeap
<1>5. Sound(g)
    <2>1. \A a \in DOMAIN m : m[a] \in 0 .. SIZE_MOD - 1
        BY <1>3 DEF Sound
    <2>2. g.mapped \subseteq AllPages
        BY <1>4 DEF Sound
    <2>3. DOMAIN g.mem \subseteq WordsOf(g.mapped)
        BY <1>3, <1>4
    <2> QED
        BY <2>1, <2>2, <2>3, <1>4 DEF Sound
<1>6. ASSUME NEW x \in Nat, x < s \/ s + z <= x
      PROVE  GET(g, x) = GET(h, x)
    <2>1. x \div PAGESIZE \notin Pages(s, z)
        BY <1>6, InPages
    <2>2. x \in DOMAIN h.mem => x \in DOMAIN m
        <3> SUFFICES ASSUME x \in DOMAIN h.mem PROVE x \in WordsOf(left)
            BY <1>3
        <3>1. h.mapped \in SUBSET Nat /\ left \in SUBSET Nat
            BY PageSizeFacts DEF Sound, AllPages
        <3>2. x \in WordsOf(h.mapped)
            BY DEF Sound
        <3>3. x % 8 = 0 /\ x \div PAGESIZE \in h.mapped
            BY <3>1, <3>2, WordIn
        <3> QED
            BY <3>1, <3>3, <2>1, WordIn
    <2> QED
        BY <2>2, <1>3, <1>4 DEF GET
<1> QED
    BY <1>4, <1>5, <1>6 DEF g

\* A chunk whose only block is free and no longer listed is given back.
LEMMA OpDrop ==
    ASSUME NEW h, NEW cz, NEW sz, NEW fr, NEW L, NEW n, Formed(h, cz, sz, fr, L, n),
           NEW b \in fr, b \notin Entries(L, n),
           NEW s \in DOMAIN cz, b = s + 32, b + sz[b] = s + cz[s]
    PROVE  LET g == mem_unmap(h, s, cz[s])
           IN  /\ Formed(g, Without(cz, {s}), Without(sz, {b}), fr \ {b}, L, n)
               /\ g.home_pg = h.home_pg
               /\ DataKept(h, g, sz, fr)
<1> DEFINE g == mem_unmap(h, s, cz[s])
           c1 == Without(cz, {s})
           s1 == Without(sz, {b})
<1>1. /\ Sound(h) /\ Chunked(h, cz) /\ Placed(cz) /\ Tiled(cz, sz) /\ Tagged(h, cz, sz, fr)
      /\ Linked(h, L, n) /\ Entries(L, n) \subseteq DOMAIN sz /\ fr \subseteq DOMAIN sz
    BY DEF Formed, Chunked, Tagged
<1>2. b \in DOMAIN sz
    BY <1>1
<1>3. DOMAIN c1 = DOMAIN cz \ {s} /\ \A t \in DOMAIN cz \ {s} : c1[t] = cz[t]
    BY WithoutIs
<1>4. DOMAIN s1 = DOMAIN sz \ {b} /\ \A c \in DOMAIN sz \ {b} : s1[c] = sz[c]
    BY WithoutIs
<1> HIDE DEF c1, s1
<1>5. \A t \in DOMAIN cz : /\ t \in Nat /\ t >= 16 /\ t % 16 = 0 /\ t % PAGESIZE = 0
                           /\ cz[t] \in Nat /\ cz[t] >= 64 /\ cz[t] % 16 = 0 /\ cz[t] % PAGESIZE = 0
    BY <1>1 DEF Placed
<1>6. \A t, u \in DOMAIN cz : t # u => t + cz[t] <= u \/ u + cz[u] <= t
    BY <1>1 DEF Placed
<1>7. \A c \in DOMAIN sz : c \in Nat /\ sz[c] \in Nat /\ sz[c] >= 32
    BY <1>1 DEF Tiled
<1>8. h.mapped = UNION {Pages(t, cz[t]) : t \in DOMAIN cz}
    BY <1>1 DEF Chunked
<1>9. /\ Sound(g)
      /\ g.mapped = h.mapped \ Pages(s, cz[s])
      /\ g.home_pg = h.home_pg /\ g.free_start = h.free_start
      /\ \A x \in Nat : x < s \/ s + cz[s] <= x => GET(g, x) = GET(h, x)
    <2>1. Pages(s, cz[s]) \subseteq h.mapped
        BY <1>8
    <2> QED
        BY <2>1, <1>1, <1>5, UnmapIs
<1> HIDE DEF g
<1>10. \A c \in DOMAIN sz \ {b} : c + sz[c] <= s \/ s + cz[s] <= c - 32
    BY <1>1, <1>2, OthersOutside
<1>11. \A c \in DOMAIN sz \ {b} : \A x \in Int : c - 8 <= x /\ x < c + sz[c] => GET(g, x) = GET(h, x)
    <2> TAKE c \in DOMAIN sz \ {b}
    <2> TAKE x \in Int
    <2> HAVE c - 8 <= x /\ x < c + sz[c]
    <2>1. x \in Nat
        <3>1. PICK t \in DOMAIN cz : t + 32 <= c
            BY <1>1 DEF Tiled
        <3> QED
            BY <3>1, <1>5, <1>7
    <2>2. x < s \/ s + cz[s] <= x
        BY <1>10, <1>5, <1>7
    <2> QED
        BY <2>1, <2>2, <1>9
<1>12. Placed(c1)
    BY <1>3, <1>1 DEF Placed
<1>13. g.mapped = UNION {Pages(t, c1[t]) : t \in DOMAIN c1}
    <2>1. \A t \in DOMAIN cz \ {s} : Pages(t, cz[t]) \cap Pages(s, cz[s]) = {}
        BY <1>5, <1>6, PagesApart
    <2>2. \A pg : pg \in g.mapped <=> \E t \in DOMAIN cz \ {s} : pg \in Pages(t, cz[t])
        BY <1>8, <1>9, <2>1
    <2>3. \A pg : pg \in g.mapped <=> \E t \in DOMAIN c1 : pg \in Pages(t, c1[t])
        BY <2>2, <1>3
    <2> QED
        BY <2>3
<1>14. Tiled(c1, s1)
    <2>1. \A c \in DOMAIN s1 :
             /\ c \in Nat /\ c % 16 = 0
             /\ s1[c] \in Nat /\ s1[c] >= 32 /\ s1[c] % 16 = 0
             /\ \E t \in DOMAIN c1 : t + 32 <= c /\ c + s1[c] <= t + c1[t]
        <3> TAKE c \in DOMAIN s1
        <3>1. c \in DOMAIN sz /\ c # b /\ s1[c] = sz[c]
            BY <1>4
        <3>2. PICK t \in DOMAIN cz : t # s /\ t + 32 <= c /\ c + sz[c] <= t + cz[t]
            BY <3>1, <1>1, <1>2, OthersOutside
        <3>3. t \in DOMAIN c1 /\ c1[t] = cz[t]
            BY <3>2, <1>3
        <3>4. c \in Nat /\ c % 16 = 0 /\ sz[c] \in Nat /\ sz[c] >= 32 /\ sz[c] % 16 = 0
            BY <3>1, <1>1 DEF Tiled
        <3> QED
            BY <3>1, <3>2, <3>3, <3>4
    <2>2. \A c, d \in DOMAIN s1 : c # d => c + s1[c] <= d \/ d + s1[d] <= c
        BY <1>4, <1>1 DEF Tiled
    <2>3. ASSUME NEW t \in DOMAIN c1, NEW x \in t + 32 .. t + c1[t] - 1
          PROVE  \E c \in DOMAIN s1 : c <= x /\ x < c + s1[c]
        <3>1. t \in DOMAIN cz /\ t # s /\ c1[t] = cz[t]
            BY <1>3
        <3>2. x \in t + 32 .. t + cz[t] - 1
            BY <3>1
        <3>3. PICK c \in DOMAIN sz : c <= x /\ x < c + sz[c]
            BY <3>1, <3>2, <1>1 DEF Tiled
        <3>4. c # b
            BY <3>1, <3>2, <3>3, <1>5, <1>6, <1>7
        <3> QED
            BY <3>3, <3>4, <1>4
    <2> QED
        BY <2>1, <2>2, <2>3 DEF Tiled
<1>15. Tagged(g, c1, s1, fr \ {b})
    <2>1. ASSUME NEW t \in DOMAIN c1
          PROVE  GET(g, t + 8) = 17 /\ GET(g, t + 16) = 17 /\ GET(g, t + c1[t] - 8) = 1
        <3>1. t \in DOMAIN cz /\ t # s /\ c1[t] = cz[t]
            BY <1>3
        <3>2. GET(h, t + 8) = 17 /\ GET(h, t + 16) = 17 /\ GET(h, t + cz[t] - 8) = 1
            BY <3>1, <1>1 DEF Tagged
        <3>3. \A x \in {t + 8, t + 16, t + cz[t] - 8} : x \in Nat /\ (x < s \/ s + cz[s] <= x)
            BY <3>1, <1>5, <1>6
        <3> QED
            BY <3>1, <3>2, <3>3, <1>9
    <2>2. ASSUME NEW c \in DOMAIN s1
          PROVE  GET(g, c - 8) = Tag(s1, fr \ {b}, c) /\ GET(g, c + s1[c] - 16) = Tag(s1, fr \ {b}, c)
        <3>1. c \in DOMAIN sz /\ c # b /\ s1[c] = sz[c]
            BY <1>4
        <3>2. GET(h, c - 8) = Tag(sz, fr, c) /\ GET(h, c + sz[c] - 16) = Tag(sz, fr, c)
            BY <3>1, <1>1 DEF Tagged
        <3>3. GET(g, c - 8) = GET(h, c - 8) /\ GET(g, c + sz[c] - 16) = GET(h, c + sz[c] - 16)
            BY <3>1, <1>7, <1>11
        <3>4. Tag(s1, fr \ {b}, c) = Tag(sz, fr, c)
            BY <3>1 DEF Tag
        <3> QED
            BY <3>1, <3>2, <3>3, <3>4
    <2> QED
        BY <2>1, <2>2, <1>1, <1>4 DEF Tagged
<1>16. Linked(g, L, n)
    <2>1. ASSUME NEW i \in 1 .. n
          PROVE  GET(g, L[i]) = GET(h, L[i]) /\ GET(g, L[i] + 8) = GET(h, L[i] + 8)
        <3>1. L[i] \in DOMAIN sz \ {b}
            BY <1>1 DEF Entries
        <3> QED
            BY <3>1, <1>7, <1>11
    <2> QED
        BY <2>1, <1>1, <1>9, LinkedFrame
<1>17. DataKept(h, g, sz, fr)
    <2> SUFFICES ASSUME NEW c \in DOMAIN sz \ fr, NEW x \in Int, c <= x, x < c + sz[c] - 16
                 PROVE  GET(g, x) = GET(h, x)
        BY DEF DataKept
    <2>1. c \in DOMAIN sz \ {b}
        OBVIOUS
    <2> QED
        BY <2>1, <1>7, <1>11
<1>18. Entries(L, n) \subseteq DOMAIN s1
    BY <1>1, <1>4
<1>19. Formed(g, c1, s1, fr \ {b}, L, n)
    BY <1>9, <1>12, <1>13, <1>14, <1>15, <1>16, <1>18 DEF Formed, Chunked
<1> QED
    BY <1>9, <1>17, <1>19 DEF g, c1, s1

-----------------------------------------------------------------------------
(* mm_free.                                                                *)

\* Block b makes up a chunk.
Lone(cz, sz, b) == \E s \in DOMAIN cz : b = s + 32 /\ b + sz[b] = s + cz[s]

\* Only the home page stands idle.
Idle(h, cz, sz, fr) ==
    \A b \in fr, s \in DOMAIN cz : b = s + 32 /\ b + sz[b] = s + cz[s] => s = h.home_pg

\* The heap between two calls.
Whole(h, cz, sz, fr, L, n) ==
    /\ Formed(h, cz, sz, fr, L, n)
    /\ Entries(L, n) = fr
    /\ Joined(sz, fr)
    /\ Idle(h, cz, sz, fr)
    /\ h.home_pg \in DOMAIN cz

\* What mm_free looks at tells it whether the block makes up its chunk.
LEMMA AloneIs ==
    ASSUME NEW h, NEW cz, Placed(cz), NEW sz, Tiled(cz, sz), NEW fr, Tagged(h, cz, sz, fr),
           NEW b \in DOMAIN sz
    PROVE  Size(h, PREV(h, b)) = 16 /\ Size(h, NEXT(h, b)) = 0 <=> Lone(cz, sz, b)
<1>1. \A c \in DOMAIN sz : c \in Nat /\ sz[c] \in Nat /\ sz[c] >= 32
    BY DEF Tiled
<1>2. \A t \in DOMAIN cz : t \in Nat /\ cz[t] \in Nat /\ cz[t] >= 64
    BY DEF Placed
<1>3. \A t, u \in DOMAIN cz : t # u => t + cz[t] <= u \/ u + cz[u] <= t
    BY DEF Placed
<1>4. \A c, d \in DOMAIN sz : c # d => c + sz[c] <= d \/ d + sz[d] <= c
    BY DEF Tiled
<1>5. ASSUME Size(h, PREV(h, b)) = 16, Size(h, NEXT(h, b)) = 0 PROVE Lone(cz, sz, b)
    <2>1. PICK s \in DOMAIN cz : b = s + 32
        <3>1. \/ \E c \in DOMAIN sz : PREV(h, b) = c /\ Size(h, c) = sz[c]
              \/ \E s \in DOMAIN cz : b = s + 32
            BY PrevIs
        <3> QED
            BY <3>1, <1>1, <1>5
    <2>2. PICK t \in DOMAIN cz : t + 32 <= b /\ b + sz[b] = t + cz[t]
        <3>1. PICK e \in Nat :
             /\ e = b + sz[b] /\ NEXT(h, b) = e
             /\ \/ /\ e \in DOMAIN sz
                   /\ Size(h, e) = sz[e]
                   /\ GET_ALLOC(h, HDRP(e)) = (IF e \in fr THEN 0 ELSE 1)
                   /\ \E s1 \in DOMAIN cz : s1 + 32 <= b /\ e + sz[e] <= s1 + cz[s1]
                \/ /\ Size(h, e) = 0
                   /\ e \notin DOMAIN sz
                   /\ GET_ALLOC(h, HDRP(e)) = 1
                   /\ \E s1 \in DOMAIN cz : s1 + 32 <= b /\ e = s1 + cz[s1]
            BY NextIs
        <3>2. \E s1 \in DOMAIN cz : s1 + 32 <= b /\ e = s1 + cz[s1]
            BY <3>1, <1>1, <1>5
        <3> QED
            BY <3>1, <3>2
    <2>3. s = t
        BY <2>1, <2>2, <1>1, <1>2, <1>3
    <2> QED
        BY <2>1, <2>2, <2>3 DEF Lone
<1>6. ASSUME Lone(cz, sz, b) PROVE Size(h, PREV(h, b)) = 16 /\ Size(h, NEXT(h, b)) = 0
    <2>1. PICK s \in DOMAIN cz : b = s + 32 /\ b + sz[b] = s + cz[s]
        BY <1>6 DEF Lone
    <2>2. \A c \in DOMAIN sz : c # b => c + sz[c] <= s \/ s + cz[s] <= c - 32
        BY <2>1, OthersOutside
    <2>3. Size(h, PREV(h, b)) = 16
        <3>1. ASSUME NEW c \in DOMAIN sz, c + sz[c] = b PROVE FALSE
            BY <3>1, <2>1, <2>2, <1>1, <1>2
        <3>2. \/ \E c \in DOMAIN sz : c + sz[c] = b
              \/ PREV(h, b) = b - 16 /\ Size(h, b - 16) = 16
            BY PrevIs
        <3> QED
            BY <3>1, <3>2
    <2>4. Size(h, NEXT(h, b)) = 0
        <3>1. ASSUME b + sz[b] \in DOMAIN sz PROVE FALSE
            <4> DEFINE e == b + sz[b]
            <4>1. e \in DOMAIN sz /\ e # b /\ e = s + cz[s]
                BY <3>1, <2>1, <1>1
            <4> HIDE DEF e
            <4> QED
                BY <4>1, <2>1, <2>2, <1>1, <1>2
        <3>2. \E e \in Nat : /\ e = b + sz[b] /\ NEXT(h, b) = e
                             /\ e \in DOMAIN sz \/ Size(h, e) = 0
            BY NextIs
        <3> QED
            BY <3>1, <3>2
    <2> QED
        BY <2>3, <2>4
<1> QED
    BY <1>5, <1>6

\* What mm_free leaves: the other blocks handed out and their data, in a heap as
\* it is between two calls.
FreeLeaves(h, g, sz, fr) ==
    /\ DataKept(h, g, sz, fr)
    /\ \E cz2, sz2, fr2, L2, n2 : Whole(g, cz2, sz2, fr2, L2, n2) /\ SameUsed(sz, fr, sz2, fr2)

\* The cases of mm_free.
LEMMA FreeUnfolds ==
    ASSUME NEW h, NEW b
    PROVE  LET h1 == Mark(h, b, Size(h, b), 0)
               o == coalesce(h1, b)
               start == Wrap(o.bp - 32)
           IN  mm_free(h, b) =
                   IF /\ Size(o.h, PREV(o.h, o.bp)) = 16 /\ Size(o.h, NEXT(o.h, o.bp)) = 0
                      /\ start # o.h.home_pg
                   THEN mem_unmap(pop_free(o.h, o.bp), start, Size(o.h, o.bp) + 32)
                   ELSE o.h
BY DEF mm_free, With, OVERHEAD, PAGE_OVERHEAD

\* The chunk of the joined block is given back.
LEMMA FreeDrops ==
    ASSUME NEW h, NEW cz, NEW sz, NEW fr, NEW L, NEW n, Formed(h, cz, sz, fr, L, n),
           Entries(L, n) = fr, Joined(sz, fr), h.home_pg \in DOMAIN cz,
           NEW b \in fr, NEW s \in DOMAIN cz, b = s + 32, b + sz[b] = s + cz[s],
           s # h.home_pg,
           \A x \in fr, t \in DOMAIN cz : x # b /\ x = t + 32 /\ x + sz[x] = t + cz[t] => t = h.home_pg
    PROVE  FreeLeaves(h, mem_unmap(pop_free(h, b), s, cz[s]), sz, fr)
<1>1. PICK k \in 1 .. n : L[k] = b
    BY DEF Entries
<1> DEFINE h2 == pop_free(h, b)
           M == Cut(L, n, k)
           g == mem_unmap(h2, s, cz[s])
           c1 == Without(cz, {s})
           s1 == Without(sz, {b})
           f1 == fr \ {b}
<1>2. /\ Formed(h2, cz, sz, fr, M, n - 1)
      /\ Kept(h, h2)
      /\ OnlyLinks(h, h2, Entries(L, n))
    BY <1>1, OpPop
<1>3. Entries(M, n - 1) = f1
    <2>1. Linked(h, L, n)
        BY DEF Formed
    <2> QED
        BY <2>1, <1>1, CutIs
<1>4. /\ Placed(cz) /\ Tiled(cz, sz) /\ fr \subseteq DOMAIN sz
    BY DEF Formed, Chunked, Tagged
<1>5. DataKept(h, h2, sz, fr)
    <2>1. Entries(L, n) \in SUBSET (DOMAIN sz \cap fr)
        BY <1>4
    <2> QED
        BY <2>1, <1>2, <1>4, LinksData
<1> HIDE DEF h2, M
<1>6. b \notin Entries(M, n - 1)
    BY <1>3
<1>7. /\ Formed(g, c1, s1, f1, M, n - 1)
      /\ g.home_pg = h2.home_pg
      /\ DataKept(h2, g, sz, fr)
    <2>1. Formed(h2, cz, sz, fr, M, n - 1)
        BY <1>2
    <2> DEFINE q == n - 1
    <2> HIDE DEF q
    <2>2. Formed(h2, cz, sz, fr, M, q) /\ b \notin Entries(M, q)
        BY <2>1, <1>6 DEF q
    <2>3. /\ Formed(mem_unmap(h2, s, cz[s]), Without(cz, {s}), Without(sz, {b}), fr \ {b}, M, q)
          /\ mem_unmap(h2, s, cz[s]).home_pg = h2.home_pg
          /\ DataKept(h2, mem_unmap(h2, s, cz[s]), sz, fr)
        BY ONLY <2>2, OpDrop, b \in fr, s \in DOMAIN cz, b = s + 32, b + sz[b] = s + cz[s]
    <2> QED
        BY <2>3 DEF q
<1>8. DOMAIN c1 = DOMAIN cz \ {s} /\ \A t \in DOMAIN cz \ {s} : c1[t] = cz[t]
    BY WithoutIs
<1>9. DOMAIN s1 = DOMAIN sz \ {b} /\ \A c \in DOMAIN sz \ {b} : s1[c] = sz[c]
    BY WithoutIs
<1> HIDE DEF g, c1, s1
<1>10. g.home_pg = h.home_pg
    BY <1>2, <1>7 DEF Kept
<1>11. Joined(s1, f1)
    BY <1>4, <1>9 DEF Joined
<1>12. Idle(g, c1, s1, f1)
    BY <1>4, <1>8, <1>9, <1>10 DEF Idle
<1>13. SameUsed(sz, fr, s1, f1)
    BY <1>9, <1>4 DEF SameUsed
<1>14. g.home_pg \in DOMAIN c1
    BY <1>8, <1>10
<1> HIDE DEF f1
<1>15. Whole(g, c1, s1, f1, M, n - 1)
    BY <1>3, <1>7, <1>11, <1>12, <1>14 DEF Whole
<1>16. DataKept(h, g, sz, fr)
    BY <1>5, <1>7, SameUsedSelf, DataKeptTrans
<1> QED
    BY <1>13, <1>15, <1>16 DEF FreeLeaves, g, h2

\* mm_free frees the block and leaves every other payload in place.
LEMMA FreeIs ==
    ASSUME NEW h, NEW cz, NEW sz, NEW fr, NEW L, NEW n, Whole(h, cz, sz, fr, L, n),
           NEW b \in DOMAIN sz \ fr
    PROVE  FreeLeaves(h, mm_free(h, b), sz, fr \cup {b})
<1> DEFINE h1 == Mark(h, b, Size(h, b), 0)
           f1 == fr \cup {b}
           o == coalesce(h1, b)
<1>1. /\ Formed(h, cz, sz, fr, L, n) /\ Entries(L, n) = fr /\ Joined(sz, fr)
      /\ Idle(h, cz, sz, fr) /\ h.home_pg \in DOMAIN cz
    BY DEF Whole
<1>2. Placed(cz) /\ Tiled(cz, sz) /\ Tagged(h, cz, sz, fr)
    BY <1>1 DEF Formed, Chunked
<1>3. Size(h, b) = sz[b]
    BY <1>2, SizeIs
<1>4. Formed(h1, cz, sz, f1, L, n) /\ Kept(h, h1) /\ DataKept(h, h1, sz, {})
    BY <1>1, <1>3, OpTag DEF Retag
<1>5. DataKept(h, h1, sz, f1)
    BY <1>4 DEF DataKept
<1>6. NearJoined(sz, f1, b)
    BY <1>1 DEF NearJoined, Joined
<1>7. Entries(L, n) = f1 \ {b} /\ f1 \ {b} = fr /\ b \in f1
    BY <1>1
<1> HIDE DEF h1, f1
<1>8. CoalesceLeaves(h1, o.h, cz, sz, f1, b, o.bp)
    BY <1>4, <1>6, <1>7, CoalesceIs
<1> DEFINE k == o.h
           p == o.bp
           start == Wrap(p - 32)
<1>9. mm_free(h, b) =
        IF /\ Size(k, PREV(k, p)) = 16 /\ Size(k, NEXT(k, p)) = 0
           /\ start # k.home_pg
        THEN mem_unmap(pop_free(k, p), start, Size(k, p) + 32)
        ELSE k
    BY FreeUnfolds DEF h1
<1> HIDE DEF o, k, p
<1>10. Kept(h1, k) /\ DataKept(h1, k, sz, f1)
    BY <1>8 DEF CoalesceLeaves, k, p
<1>11. PICK sz2, fr2, L2, n2 :
          /\ Formed(k, cz, sz2, fr2, L2, n2)
          /\ Entries(L2, n2) = fr2 /\ Joined(sz2, fr2) /\ p \in fr2
          /\ SameUsed(sz, f1, sz2, fr2)
          /\ SameFree(sz, f1 \ {b}, p, sz2, fr2)
    BY <1>8 DEF CoalesceLeaves, k, p
<1>12. k.home_pg = h.home_pg /\ k.home_pg \in DOMAIN cz
    BY <1>1, <1>4, <1>10 DEF Kept
<1>13. DataKept(h, k, sz, f1)
    BY <1>5, <1>10, SameUsedSelf, DataKeptTrans
<1>14. Tiled(cz, sz2) /\ Tagged(k, cz, sz2, fr2) /\ p \in DOMAIN sz2
    BY <1>11 DEF Formed, Tagged
<1>15. \A x \in fr2, t \in DOMAIN cz : x # p /\ x = t + 32 /\ x + sz2[x] = t + cz[t] => t = k.home_pg
    <2>1. \A x \in fr2 : x # p => x \in fr /\ sz2[x] = sz[x]
        BY <1>11, <1>7 DEF SameFree
    <2> QED
        BY <2>1, <1>1, <1>12 DEF Idle
<1>16. Size(k, PREV(k, p)) = 16 /\ Size(k, NEXT(k, p)) = 0 <=> Lone(cz, sz2, p)
    BY <1>2, <1>14, AloneIs
<1>17. ASSUME NEW s \in DOMAIN cz, p = s + 32, p + sz2[p] = s + cz[s]
       PROVE  start = s /\ Size(k, p) + 32 = cz[s]
    <2>1. s \in Nat /\ cz[s] \in Nat /\ s < SIZE_MOD
        BY <1>2, PageSizeFacts DEF Placed
    <2>2. Size(k, p) = sz2[p]
        BY <1>2, <1>14, SizeIs
    <2>0. p \in Nat /\ sz2[p] \in Nat
        BY <1>14 DEF Tiled
    <2>3. p - 32 = s
        BY <1>17, <2>1
    <2>4. start = s
        BY <2>1, <2>3, WrapSmall
    <2> QED
        BY <2>0, <2>1, <2>2, <2>4, <1>17
<1>18. CASE Lone(cz, sz2, p) /\ start # k.home_pg
    <2>1. PICK s \in DOMAIN cz : p = s + 32 /\ p + sz2[p] = s + cz[s]
        BY <1>18 DEF Lone
    <2>2. start = s /\ Size(k, p) + 32 = cz[s]
        BY <2>1, <1>17
    <2> HIDE DEF start
    <2>3. FreeLeaves(k, mem_unmap(pop_free(k, p), s, cz[s]), sz2, fr2)
        BY <2>1, <2>2, <1>11, <1>12, <1>15, <1>18, FreeDrops
    <2>4. mm_free(h, b) = mem_unmap(pop_free(k, p), s, cz[s])
        BY <2>2, <1>9, <1>16, <1>18
    <2> DEFINE g == mm_free(h, b)
    <2>5. FreeLeaves(k, g, sz2, fr2)
        BY <2>3, <2>4
    <2> HIDE DEF g
    <2>6. PICK cz3, sz3, fr3, L3, n3 :
              Whole(g, cz3, sz3, fr3, L3, n3) /\ SameUsed(sz2, fr2, sz3, fr3)
        BY <2>5 DEF FreeLeaves
    <2>7. SameUsed(sz, f1, sz3, fr3)
        BY <2>6, <1>11 DEF SameUsed
    <2>8. DataKept(h, g, sz, f1)
        BY <2>5, <1>11, <1>13, DataKeptTrans DEF FreeLeaves
    <2> QED
        BY <2>6, <2>7, <2>8 DEF FreeLeaves, f1, g
<1>19. CASE ~(Lone(cz, sz2, p) /\ start # k.home_pg)
    <2>1. mm_free(h, b) = k
        BY <1>9, <1>16, <1>19
    <2>2. Idle(k, cz, sz2, fr2)
        <3> SUFFICES ASSUME NEW x \in fr2, NEW t \in DOMAIN cz, x = t + 32, x + sz2[x] = t + cz[t]
                     PROVE  t = k.home_pg
            BY DEF Idle
        <3>1. CASE x # p
            BY <3>1, <1>15
        <3>2. CASE x = p
            BY <3>2, <1>17, <1>19 DEF Lone
        <3> QED
            BY <3>1, <3>2
    <2>3. Whole(k, cz, sz2, fr2, L2, n2)
        BY <2>2, <1>11, <1>12 DEF Whole
    <2> QED
        BY <2>1, <2>3, <1>11, <1>13 DEF FreeLeaves, f1
<1> QED
    BY <1>18, <1>19

-----------------------------------------------------------------------------
(* Mapping a chunk.                                                        *)

\* Pages are aligned.
LEMMA Sixteens ==
    ASSUME NEW a \in Nat, a % PAGESIZE = 0
    PROVE  a % 16 = 0
<1> DEFINE q == a \div PAGESIZE
           k == PAGESIZE \div 16
<1>1. q \in Nat /\ a = PAGESIZE * q
    BY PageSizeFacts, DivMod
<1>2. k \in Nat /\ PAGESIZE = 16 * k
    BY PageSizeFacts, DivMod
<1> HIDE DEF q, k
<1>3. a = 16 * (k * q) + 0 /\ k * q \in Nat
    BY <1>1, <1>2
<1> QED
    BY <1>3, DivIs

\* Where the kernel places a chunk.
LEMMA PlaceIs ==
    ASSUME NEW h, Sound(h), NEW cz, Chunked(h, cz), NEW size \in Nat, size % PAGESIZE = 0,
           size >= 64, NEW s \in Places(h, size)
    PROVE  /\ s \in Nat /\ s >= 16 /\ s % 16 = 0 /\ s % PAGESIZE = 0
           /\ size % 16 = 0 /\ s + size < SIZE_MOD
           /\ Pages(s, size) \subseteq AllPages
           /\ s \notin DOMAIN cz
           /\ \A t \in DOMAIN cz : t + cz[t] <= s \/ s + size <= t
<1> DEFINE p == PAGESIZE
<1>0. p \in Nat /\ p >= 16 /\ SIZE_MOD \in Nat /\ NPages \in Nat
      /\ p * (NPages + 1) \in Nat /\ p * (NPages + 1) < SIZE_MOD
    BY PageSizeFacts
<1>1. PICK pg \in AllPages : s = pg * p /\ Pages(s, size) \subseteq AllPages \ h.mapped
    BY DEF Places
<1>2. pg \in Nat /\ pg >= 1
    BY <1>0, <1>1 DEF AllPages
<1> HIDE DEF p
<1>3. s \in Nat /\ s >= p
    BY <1>0, <1>1, <1>2
<1>4. s % p = 0
    <2>1. s = p * pg + 0 /\ p > 0
        BY <1>0, <1>1, <1>2
    <2>2. \A r \in Nat : r < p => (p * pg + r) % p = r
        BY <2>1, <1>0, <1>2, DivIs
    <2>3. (p * pg + 0) % p = 0
        BY <2>1, <2>2
    <2> QED
        BY <2>1, <2>3
<1>5. s % 16 = 0 /\ size % 16 = 0
    BY <1>3, <1>4, Sixteens DEF p
<1>6. s + size < SIZE_MOD
    <2> DEFINE a == s + size - 1
    <2>1. a \in Nat /\ s <= a /\ a < s + size
        BY <1>3
    <2> HIDE DEF a
    <2>2. a \div p \in Pages(s, size)
        BY <2>1, <1>3, <1>4, InPages DEF p
    <2>3. a \div p <= NPages /\ a \div p \in Nat
        BY <2>2, <1>1, <1>0 DEF AllPages
    <2>4. a = p * (a \div p) + (a % p) /\ a % p \in 0 .. p - 1
        BY <2>1, <1>0, DivMod
    <2> DEFINE d == a \div p
               m == a % p
    <2>5. d \in Nat /\ d <= NPages /\ m \in Nat /\ m < p /\ a = p * d + m
        BY <2>3, <2>4, <1>0
    <2> HIDE DEF d, m
    <2>6. p * d <= p * NPages
        BY <2>5, <1>0
    <2>7. p * (NPages + 1) = p * NPages + p
        BY <1>0
    <2>8. a < p * (NPages + 1)
        BY <2>5, <2>6, <2>7, <1>0
    <2> QED
        BY <2>8, <1>0, <1>3 DEF a
<1>7. ASSUME NEW t \in DOMAIN cz PROVE t + cz[t] <= s \/ s + size <= t
    <2>1. t \in Nat /\ cz[t] \in Nat /\ cz[t] >= 64 /\ t % PAGESIZE = 0 /\ cz[t] % PAGESIZE = 0
        BY DEF Chunked, Placed
    <2> SUFFICES ASSUME s < t + cz[t], t < s + size PROVE FALSE
        BY <2>1, <1>3
    <2> DEFINE a == IF s <= t THEN t ELSE s
    <2>2. a \in Nat /\ s <= a /\ a < s + size /\ t <= a /\ a < t + cz[t]
        BY <2>1, <1>3
    <2> HIDE DEF a
    <2>3. a \div PAGESIZE \in Pages(s, size)
        BY <2>2, <1>3, <1>4, InPages DEF p
    <2>4. a \div PAGESIZE \in Pages(t, cz[t])
        BY <2>1, <2>2, InPages
    <2>5. Pages(t, cz[t]) \subseteq h.mapped
        BY DEF Chunked
    <2> QED
        BY <2>3, <2>4, <2>5, <1>1
<1>8. s \notin DOMAIN cz
    <2> SUFFICES ASSUME s \in DOMAIN cz PROVE FALSE
        OBVIOUS
    <2>1. cz[s] \in Nat /\ cz[s] >= 64
        BY DEF Chunked, Placed
    <2> QED
        BY <2>1, <1>7, <1>3
<1>9. s >= 16
    BY <1>0, <1>3
<1>10. Pages(s, size) \subseteq AllPages
    BY <1>1
<1> QED
    BY <1>3, <1>4, <1>5, <1>6, <1>7, <1>8, <1>9, <1>10 DEF p

\* mem_map adds pages and writes no word.
LEMMA MapIs ==
    ASSUME NEW h, Sound(h), NEW s, NEW size, Pages(s, size) \subseteq AllPages
    PROVE  LET g == mem_map(h, s, size)
           IN  /\ Sound(g) /\ g.mapped = h.mapped \cup Pages(s, size)
               /\ g.home_pg = h.home_pg /\ g.free_start = h.free_start
               /\ \A x : GET(g, x) = GET(h, x)
<1> DEFINE g == mem_map(h, s, size)
           more == h.mapped \cup Pages(s, size)
<1>1. g = [mem |-> h.mem, mapped |-> more, home_pg |-> h.home_pg, free_start |-> h.free_start]
    BY DEF mem_map, Sound, IsHeap
<1> HIDE DEF g
<1>2. g.mem = h.mem /\ g.mapped = more /\ g.home_pg = h.home_pg /\ g.free_start = h.free_start
      /\ IsHeap(g)
    BY <1>1 DEF IsHeap
<1>3. WordsOf(h.mapped) \subseteq WordsOf(more)
    BY DEF WordsOf
<1>4. DOMAIN g.mem \subseteq WordsOf(g.mapped)
    BY <1>2, <1>3 DEF Sound
<1>5. g.mapped \subseteq AllPages
    BY <1>2 DEF Sound
<1>6. \A a \in DOMAIN g.mem : g.mem[a] \in 0 .. SIZE_MOD - 1
    BY <1>2 DEF Sound
<1>7. \A x : GET(g, x) = GET(h, x)
    BY <1>2 DEF GET
<1> QED
    BY <1>2, <1>4, <1>5, <1>6, <1>7 DEF g, Sound

\* Another home page changes nothing else.
LEMMA HomeIs ==
    ASSUME NEW h, NEW cz, NEW sz, NEW fr, NEW L, NEW n, Formed(h, cz, sz, fr, L, n), NEW s
    PROVE  LET g == [h EXCEPT !.home_pg = s]
           IN  /\ Formed(g, cz, sz, fr, L, n) /\ g.home_pg = s
               /\ \A x : GET(g, x) = GET(h, x)
<1> DEFINE g == [h EXCEPT !.home_pg = s]
<1>1. g = [mem |-> h.mem, mapped |-> h.mapped, home_pg |-> s, free_start |-> h.free_start]
    BY DEF Formed, Sound, IsHeap
<1> HIDE DEF g
<1>2. g.mem = h.mem /\ g.mapped = h.mapped /\ g.home_pg = s /\ g.free_start = h.free_start
      /\ IsHeap(g)
    BY <1>1 DEF IsHeap
<1>3. \A x : GET(g, x) = GET(h, x)
    BY <1>2 DEF GET
<1>4. Sound(g)
    BY <1>2 DEF Formed, Sound
<1>5. Chunked(g, cz)
    BY <1>2 DEF Formed, Chunked
<1>6. Tagged(g, cz, sz, fr)
    BY <1>3 DEF Formed, Tagged
<1>7. Linked(g, L, n)
    BY <1>2, <1>3 DEF Formed, Linked
<1>8. Formed(g, cz, sz, fr, L, n)
    BY <1>4, <1>5, <1>6, <1>7 DEF Formed
<1> QED
    BY <1>2, <1>3, <1>8 DEF g

\* A new chunk and its only block.
LEMMA NewTiled ==
    ASSUME NEW cz, Placed(cz), NEW sz, Tiled(cz, sz), NEW s \in Nat, NEW size \in Nat,
           s >= 16, s % 16 = 0, s % PAGESIZE = 0,
           size >= 64, size % 16 = 0, size % PAGESIZE = 0, s + size < SIZE_MOD,
           s \notin DOMAIN cz,
           \A t \in DOMAIN cz : t + cz[t] <= s \/ s + size <= t
    PROVE  LET b == s + 32
           IN  /\ Placed(Put(cz, s, size))
               /\ Tiled(Put(cz, s, size), Put(sz, b, size - 32))
               /\ b \notin DOMAIN sz
               /\ \A c \in DOMAIN sz : c + sz[c] <= s \/ s + size <= c - 32
<1> DEFINE b == s + 32
           c1 == Put(cz, s, size)
           s1 == Put(sz, b, size - 32)
<1>1. DOMAIN c1 = DOMAIN cz \cup {s}
    BY PutIs
<1>2. c1[s] = size /\ \A t \in DOMAIN cz : c1[t] = cz[t]
    BY DEF Put
<1>3. DOMAIN s1 = DOMAIN sz \cup {b}
    BY DEF Put
<1>4. s1[b] = size - 32 /\ \A c \in DOMAIN sz : c # b => s1[c] = sz[c]
    BY DEF Put
<1>5. \A t \in DOMAIN cz : t \in Nat /\ cz[t] \in Nat /\ cz[t] >= 64
    BY DEF Placed
<1>6. \A c \in DOMAIN sz : c \in Nat /\ sz[c] \in Nat /\ sz[c] >= 32
                           /\ \E t \in DOMAIN cz : t + 32 <= c /\ c + sz[c] <= t + cz[t]
    BY DEF Tiled
<1>7. \A c \in DOMAIN sz : c + sz[c] <= s \/ s + size <= c - 32
    BY <1>5, <1>6
<1>8. b \notin DOMAIN sz
    <2> SUFFICES ASSUME b \in DOMAIN sz PROVE FALSE
        OBVIOUS
    <2> QED
        BY <1>6, <1>7
<1>9. b \in Nat /\ b % 16 = 0 /\ b = s + 32 /\ size - 32 \in Nat /\ size - 32 >= 32 /\ (size - 32) % 16 = 0
    OBVIOUS
<1> HIDE DEF b, c1, s1
<1>10. Placed(c1)
    <2>1. ASSUME NEW t \in DOMAIN c1
          PROVE  /\ t \in Nat /\ t >= 16 /\ t % 16 = 0 /\ t % PAGESIZE = 0
                 /\ c1[t] \in Nat /\ c1[t] >= 64 /\ c1[t] % 16 = 0 /\ c1[t] % PAGESIZE = 0
                 /\ t + c1[t] < SIZE_MOD
        BY <1>1, <1>2 DEF Placed
    <2>2. ASSUME NEW t \in DOMAIN c1, NEW u \in DOMAIN c1, t # u
          PROVE  t + c1[t] <= u \/ u + c1[u] <= t
        <3>1. CASE t = s
            BY <3>1, <2>2, <1>1, <1>2
        <3>2. CASE u = s
            BY <3>2, <2>2, <1>1, <1>2
        <3>3. CASE t # s /\ u # s
            BY <3>3, <2>2, <1>1, <1>2 DEF Placed
        <3> QED
            BY <3>1, <3>2, <3>3
    <2> QED
        BY <2>1, <2>2 DEF Placed
<1>11. Tiled(c1, s1)
    <2>1. ASSUME NEW c \in DOMAIN s1
          PROVE  /\ c \in Nat /\ c % 16 = 0
                 /\ s1[c] \in Nat /\ s1[c] >= 32 /\ s1[c] % 16 = 0
                 /\ \E t \in DOMAIN c1 : t + 32 <= c /\ c + s1[c] <= t + c1[t]
        <3>1. CASE c = b
            <4>1. s \in DOMAIN c1 /\ s + 32 <= c /\ c + s1[c] <= s + c1[s]
                BY <3>1, <1>1, <1>2, <1>4, <1>9
            <4> QED
                BY <4>1, <3>1, <1>4, <1>9
        <3>2. CASE c # b
            <4>1. c \in DOMAIN sz /\ s1[c] = sz[c]
                BY <3>2, <1>3, <1>4
            <4>2. PICK t \in DOMAIN cz : t + 32 <= c /\ c + sz[c] <= t + cz[t]
                BY <4>1, <1>6
            <4>3. t \in DOMAIN c1 /\ c1[t] = cz[t]
                BY <1>1, <1>2
            <4>4. c \in Nat /\ c % 16 = 0 /\ sz[c] \in Nat /\ sz[c] >= 32 /\ sz[c] % 16 = 0
                BY <4>1 DEF Tiled
            <4> QED
                BY <4>1, <4>2, <4>3, <4>4
        <3> QED
            BY <3>1, <3>2
    <2>2. ASSUME NEW c \in DOMAIN s1, NEW d \in DOMAIN s1, c # d
          PROVE  c + s1[c] <= d \/ d + s1[d] <= c
        <3>1. CASE c = b
            <4>1. d \in DOMAIN sz /\ s1[d] = sz[d] /\ s1[c] = size - 32
                BY <3>1, <2>2, <1>3, <1>4
            <4> QED
                BY <4>1, <3>1, <1>6, <1>7, <1>9
        <3>2. CASE d = b
            <4>1. c \in DOMAIN sz /\ s1[c] = sz[c] /\ s1[d] = size - 32
                BY <3>2, <2>2, <1>3, <1>4
            <4> QED
                BY <4>1, <3>2, <1>6, <1>7, <1>9
        <3>3. CASE c # b /\ d # b
            BY <3>3, <2>2, <1>3, <1>4 DEF Tiled
        <3> QED
            BY <3>1, <3>2, <3>3
    <2>3. ASSUME NEW t \in DOMAIN c1, NEW x \in t + 32 .. t + c1[t] - 1
          PROVE  \E c \in DOMAIN s1 : c <= x /\ x < c + s1[c]
        <3>1. CASE t = s
            <4>1. b \in DOMAIN s1 /\ b <= x /\ x < b + s1[b]
                BY <3>1, <1>2, <1>3, <1>4, <1>9
            <4> QED
                BY <4>1
        <3>2. CASE t # s
            <4>1. t \in DOMAIN cz /\ x \in t + 32 .. t + cz[t] - 1
                BY <3>2, <1>1, <1>2
            <4>2. PICK c \in DOMAIN sz : c <= x /\ x < c + sz[c]
                BY <4>1 DEF Tiled
            <4>3. c \in DOMAIN s1 /\ s1[c] = sz[c]
                BY <4>2, <1>3, <1>4, <1>8
            <4> QED
                BY <4>2, <4>3
        <3> QED
            BY <3>1, <3>2
    <2> QED
        BY <2>1, <2>2, <2>3 DEF Tiled
<1> QED
    BY <1>7, <1>8, <1>10, <1>11 DEF b, c1, s1

\* The words of a new chunk, and its only block, before that is listed.
Chunk(h, s, size) ==
    Mark(PUT(PUT(PUT(PUT(mem_map(h, s, size), s, 0), s + 8, 17), s + 16, 17), s + size - 8, 1),
         s + 32, size - 32, 0)

\* extend, step by step.
LEMMA ExtendUnfolds ==
    ASSUME NEW h, NEW s, NEW size
    PROVE  LET g == push_free(Chunk(h, s, size), s + 32)
           IN  /\ extend(h, s, size).bp = s + 32
               /\ extend(h, s, size).h = [g EXCEPT !.home_pg = IF @ = NULL THEN s ELSE @]
<1>1. 2 * 16 = 32 /\ 16 + 1 = 17 /\ 0 + 1 = 1
    OBVIOUS
<1> QED
    BY <1>1 DEF extend, Outcome, With, Chunk, BYTE, OVERHEAD, PACK

\* The words of a new chunk.
LEMMA ChunkIs ==
    ASSUME NEW h, Sound(h), NEW s \in Nat, NEW size \in Nat,
           s >= 16, s % 16 = 0, s % PAGESIZE = 0,
           size >= 64, size % 16 = 0, size % PAGESIZE = 0, s + size < SIZE_MOD,
           Pages(s, size) \subseteq AllPages
    PROVE  LET g == Chunk(h, s, size)
           IN  /\ Sound(g)
               /\ g.mapped = h.mapped \cup Pages(s, size)
               /\ g.home_pg = h.home_pg /\ g.free_start = h.free_start
               /\ \A x \in Int : x < s \/ s + size <= x => GET(g, x) = GET(h, x)
               /\ GET(g, s + 8) = 17 /\ GET(g, s + 16) = 17 /\ GET(g, s + size - 8) = 1
               /\ GET(g, s + 24) = size - 32 /\ GET(g, s + size - 16) = size - 32
<1> DEFINE h0 == mem_map(h, s, size)
           h1 == PUT(h0, s, 0)
           h2 == PUT(h1, s + 8, 17)
           h3 == PUT(h2, s + 16, 17)
           h4 == PUT(h3, s + size - 8, 1)
           g == Mark(h4, s + 32, size - 32, 0)
           W == WordsOf(h.mapped \cup Pages(s, size))
<1>0. SIZE_MOD \in Nat
    BY PageSizeFacts
<1>1. /\ Sound(h0) /\ h0.mapped = h.mapped \cup Pages(s, size)
      /\ h0.home_pg = h.home_pg /\ h0.free_start = h.free_start
      /\ \A x : GET(h0, x) = GET(h, x)
    BY MapIs
<1>2. \A a \in Nat : a % 8 = 0 /\ s <= a /\ a < s + size => a \in W
    <2> SUFFICES ASSUME NEW a \in Nat, a % 8 = 0, s <= a, a < s + size PROVE a \in W
        OBVIOUS
    <2>1. a \div PAGESIZE \in Pages(s, size)
        BY InPages
    <2>2. h.mapped \cup Pages(s, size) \in SUBSET Nat
        BY PageSizeFacts DEF Sound, AllPages
    <2> QED
        BY <2>1, <2>2, WordIn
<1>3. /\ s \in W /\ s + 8 \in W /\ s + 16 \in W /\ s + size - 8 \in W
      /\ s + 24 \in W /\ s + size - 16 \in W
    <2>1. /\ s % 8 = 0 /\ (s + 8) % 8 = 0 /\ (s + 16) % 8 = 0 /\ (s + 24) % 8 = 0
          /\ (s + size - 8) % 8 = 0 /\ (s + size - 16) % 8 = 0
        OBVIOUS
    <2>2. \A a \in {s, s + 8, s + 16, s + size - 8, s + 24, s + size - 16} :
             a \in Nat /\ s <= a /\ a < s + size
        OBVIOUS
    <2> QED
        BY <1>2, <2>1, <2>2
<1> HIDE DEF W, h0
<1>4. W = WordsOf(h0.mapped)
    BY <1>1 DEF W
<1>5. Sound(h1) /\ Kept(h0, h1) /\ h1.free_start = h0.free_start
      /\ \A x : GET(h1, x) = IF x = s THEN 0 ELSE GET(h0, x)
    <2>1. s \in WordsOf(h0.mapped) /\ 0 \in 0 .. SIZE_MOD - 1
        BY <1>0, <1>3, <1>4
    <2> QED
        BY <1>1, <2>1, PutAll
<1> HIDE DEF h1
<1>6. Sound(h2) /\ Kept(h1, h2) /\ h2.free_start = h1.free_start
      /\ \A x : GET(h2, x) = IF x = s + 8 THEN 17 ELSE GET(h1, x)
    <2>1. s + 8 \in WordsOf(h1.mapped) /\ 17 \in 0 .. SIZE_MOD - 1
        BY <1>0, <1>3, <1>4, <1>5 DEF Kept
    <2> QED
        BY <1>5, <2>1, PutAll
<1> HIDE DEF h2
<1>7. Sound(h3) /\ Kept(h2, h3) /\ h3.free_start = h2.free_start
      /\ \A x : GET(h3, x) = IF x = s + 16 THEN 17 ELSE GET(h2, x)
    <2>1. s + 16 \in WordsOf(h2.mapped) /\ 17 \in 0 .. SIZE_MOD - 1
        BY <1>0, <1>3, <1>4, <1>5, <1>6 DEF Kept
    <2> QED
        BY <1>6, <2>1, PutAll
<1> HIDE DEF h3
<1>8. Sound(h4) /\ Kept(h3, h4) /\ h4.free_start = h3.free_start
      /\ \A x : GET(h4, x) = IF x = s + size - 8 THEN 1 ELSE GET(h3, x)
    <2>1. s + size - 8 \in WordsOf(h3.mapped) /\ 1 \in 0 .. SIZE_MOD - 1
        BY <1>0, <1>3, <1>4, <1>5, <1>6, <1>7 DEF Kept
    <2> QED
        BY <1>7, <2>1, PutAll
<1> HIDE DEF h4
<1> DEFINE b == s + 32
           z == size - 32
<1>9. b \in Nat /\ z \in Nat /\ b >= 16 /\ z >= 32 /\ b + z < SIZE_MOD
      /\ b - 8 = s + 24 /\ b + z - 16 = s + size - 16
    OBVIOUS
<1>10. b - 8 \in WordsOf(h4.mapped) /\ b + z - 16 \in WordsOf(h4.mapped)
    BY <1>3, <1>4, <1>5, <1>6, <1>7, <1>8, <1>9 DEF Kept
<1> HIDE DEF b, z
<1>11. /\ Sound(g) /\ Kept(h4, g) /\ g.free_start = h4.free_start
       /\ \A x : GET(g, x) = IF x = b - 8 \/ x = b + z - 16 THEN z + 0 ELSE GET(h4, x)
    <2>1. /\ Sound(Mark(h4, b, z, 0)) /\ Kept(h4, Mark(h4, b, z, 0))
          /\ Mark(h4, b, z, 0).free_start = h4.free_start
          /\ \A x : GET(Mark(h4, b, z, 0), x) = IF x = b - 8 \/ x = b + z - 16 THEN z + 0 ELSE GET(h4, x)
        BY <1>8, <1>9, <1>10, MarkGet
    <2> QED
        BY <2>1 DEF b, z
<1>12. g.mapped = h.mapped \cup Pages(s, size) /\ g.home_pg = h.home_pg /\ g.free_start = h.free_start
    BY <1>1, <1>5, <1>6, <1>7, <1>8, <1>11 DEF Kept
<1>13. \A x : GET(g, x) = IF x = s + 24 \/ x = s + size - 16 THEN z ELSE
                          IF x = s + size - 8 THEN 1 ELSE
                          IF x = s + 16 THEN 17 ELSE
                          IF x = s + 8 THEN 17 ELSE
                          IF x = s THEN 0 ELSE GET(h, x)
    BY <1>1, <1>5, <1>6, <1>7, <1>8, <1>9, <1>11
<1>14. z = size - 32
    BY DEF z
<1> HIDE DEF g
<1>15. \A x \in Int : x < s \/ s + size <= x => GET(g, x) = GET(h, x)
    BY <1>13
<1>16. /\ GET(g, s + 8) = 17 /\ GET(g, s + 16) = 17 /\ GET(g, s + size - 8) = 1
       /\ GET(g, s + 24) = size - 32 /\ GET(g, s + size - 16) = size - 32
    BY <1>13, <1>14
<1> QED
    BY <1>11, <1>12, <1>15, <1>16 DEF g, h0, h1, h2, h3, h4, Chunk

\* The description of a heap with one chunk more.
LEMMA ChunkFormed ==
    ASSUME NEW h, NEW cz, NEW sz, NEW fr, NEW L, NEW n, Formed(h, cz, sz, fr, L, n),
           Entries(L, n) = fr,
           NEW size \in Nat, size % PAGESIZE = 0, size >= 64, NEW s \in Places(h, size)
    PROVE  LET b == s + 32
               g == Chunk(h, s, size)
           IN  /\ Formed(g, Put(cz, s, size), Put(sz, b, size - 32), fr \cup {b}, L, n)
               /\ g.home_pg = h.home_pg
               /\ b \notin DOMAIN sz
               /\ DataKept(h, g, sz, fr)
<1> DEFINE b == s + 32
           g == Chunk(h, s, size)
           c1 == Put(cz, s, size)
           s1 == Put(sz, b, size - 32)
           f1 == fr \cup {b}
<1>1. /\ Sound(h) /\ Chunked(h, cz) /\ Placed(cz) /\ Tiled(cz, sz) /\ Tagged(h, cz, sz, fr)
      /\ Linked(h, L, n) /\ Entries(L, n) \subseteq DOMAIN sz /\ fr \subseteq DOMAIN sz
    BY DEF Formed, Chunked, Tagged
<1>2. /\ s \in Nat /\ s >= 16 /\ s % 16 = 0 /\ s % PAGESIZE = 0
      /\ size % 16 = 0 /\ s + size < SIZE_MOD
      /\ Pages(s, size) \subseteq AllPages
      /\ s \notin DOMAIN cz
      /\ \A t \in DOMAIN cz : t + cz[t] <= s \/ s + size <= t
    BY <1>1, PlaceIs
<1>3. /\ Placed(c1)
      /\ Tiled(c1, s1)
      /\ b \notin DOMAIN sz
      /\ \A c \in DOMAIN sz : c + sz[c] <= s \/ s + size <= c - 32
    BY <1>1, <1>2, NewTiled
<1>4. /\ Sound(g)
      /\ g.mapped = h.mapped \cup Pages(s, size)
      /\ g.home_pg = h.home_pg /\ g.free_start = h.free_start
      /\ \A x \in Int : x < s \/ s + size <= x => GET(g, x) = GET(h, x)
      /\ GET(g, s + 8) = 17 /\ GET(g, s + 16) = 17 /\ GET(g, s + size - 8) = 1
      /\ GET(g, s + 24) = size - 32 /\ GET(g, s + size - 16) = size - 32
    BY <1>1, <1>2, ChunkIs
<1>5. DOMAIN c1 = DOMAIN cz \cup {s}
    BY DEF Put
<1>6. c1[s] = size /\ \A t \in DOMAIN cz : c1[t] = cz[t]
    BY <1>2 DEF Put
<1>7. DOMAIN s1 = DOMAIN sz \cup {b}
    BY DEF Put
<1>8. s1[b] = size - 32 /\ \A c \in DOMAIN sz : s1[c] = sz[c]
    BY <1>3 DEF Put
<1>9. \A t \in DOMAIN cz : t \in Nat /\ cz[t] \in Nat /\ cz[t] >= 64
    BY <1>1 DEF Placed
<1>10. \A c \in DOMAIN sz : c \in Nat /\ sz[c] \in Nat /\ sz[c] >= 32
    BY <1>1 DEF Tiled
<1>11. b \in Nat /\ b = s + 32 /\ b \in f1
    BY <1>2
<1> HIDE DEF b, g, c1, s1
<1>12. g.mapped = UNION {Pages(t, c1[t]) : t \in DOMAIN c1}
    <2>1. \A pg : pg \in h.mapped <=> \E t \in DOMAIN cz : pg \in Pages(t, cz[t])
        BY <1>1 DEF Chunked
    <2>2. \A pg : pg \in g.mapped <=> \E t \in DOMAIN c1 : pg \in Pages(t, c1[t])
        BY <2>1, <1>4, <1>5, <1>6
    <2> QED
        BY <2>2
<1>13. \A c \in DOMAIN sz : \A x \in Int : c - 8 <= x /\ x < c + sz[c] => GET(g, x) = GET(h, x)
    <2> TAKE c \in DOMAIN sz
    <2> TAKE x \in Int
    <2> HAVE c - 8 <= x /\ x < c + sz[c]
    <2>1. x < s \/ s + size <= x
        BY <1>2, <1>3, <1>10
    <2> QED
        BY <2>1, <1>4
<1>14. Tagged(g, c1, s1, f1)
    <2>1. ASSUME NEW t \in DOMAIN c1
          PROVE  GET(g, t + 8) = 17 /\ GET(g, t + 16) = 17 /\ GET(g, t + c1[t] - 8) = 1
        <3>1. CASE t = s
            BY <3>1, <1>4, <1>6
        <3>2. CASE t # s
            <4>1. t \in DOMAIN cz /\ c1[t] = cz[t]
                BY <3>2, <1>5, <1>6
            <4>2. GET(h, t + 8) = 17 /\ GET(h, t + 16) = 17 /\ GET(h, t + cz[t] - 8) = 1
                BY <4>1, <1>1 DEF Tagged
            <4>3. \A x \in {t + 8, t + 16, t + cz[t] - 8} : x \in Int /\ (x < s \/ s + size <= x)
                BY <4>1, <1>2, <1>9
            <4> QED
                BY <4>1, <4>2, <4>3, <1>4
        <3> QED
            BY <3>1, <3>2
    <2>2. ASSUME NEW c \in DOMAIN s1
          PROVE  GET(g, c - 8) = Tag(s1, f1, c) /\ GET(g, c + s1[c] - 16) = Tag(s1, f1, c)
        <3>1. CASE c = b
            <4>1. c - 8 = s + 24 /\ c + s1[c] - 16 = s + size - 16 /\ Tag(s1, f1, c) = size - 32
                BY <3>1, <1>2, <1>8, <1>11 DEF Tag
            <4> QED
                BY <4>1, <1>4
        <3>2. CASE c # b
            <4>1. c \in DOMAIN sz /\ s1[c] = sz[c]
                BY <3>2, <1>7, <1>8
            <4>2. GET(h, c - 8) = Tag(sz, fr, c) /\ GET(h, c + sz[c] - 16) = Tag(sz, fr, c)
                BY <4>1, <1>1 DEF Tagged
            <4>3. GET(g, c - 8) = GET(h, c - 8) /\ GET(g, c + sz[c] - 16) = GET(h, c + sz[c] - 16)
                BY <4>1, <1>10, <1>13
            <4>4. Tag(s1, f1, c) = Tag(sz, fr, c)
                BY <4>1, <3>2 DEF Tag
            <4> QED
                BY <4>1, <4>2, <4>3, <4>4
        <3> QED
            BY <3>1, <3>2
    <2> QED
        BY <2>1, <2>2, <1>1, <1>7 DEF Tagged
<1>15. Linked(g, L, n)
    <2>1. ASSUME NEW i \in 1 .. n
          PROVE  GET(g, L[i]) = GET(h, L[i]) /\ GET(g, L[i] + 8) = GET(h, L[i] + 8)
        <3>1. L[i] \in DOMAIN sz
            BY <1>1 DEF Entries
        <3> QED
            BY <3>1, <1>10, <1>13
    <2> QED
        BY <2>1, <1>1, <1>4, LinkedFrame
<1>16. DataKept(h, g, sz, fr)
    <2> SUFFICES ASSUME NEW c \in DOMAIN sz \ fr, NEW x \in Int, c <= x, x < c + sz[c] - 16
                 PROVE  GET(g, x) = GET(h, x)
        BY DEF DataKept
    <2> QED
        BY <1>10, <1>13
<1>17. Entries(L, n) \subseteq DOMAIN s1
    BY <1>1, <1>7
<1>18. Formed(g, c1, s1, f1, L, n)
    BY <1>3, <1>4, <1>12, <1>14, <1>15, <1>17 DEF Formed, Chunked
<1> QED
    BY <1>3, <1>4, <1>16, <1>18 DEF b, g, c1, s1

\* What looking for a free block leaves: block b is free and large enough, the
\* blocks handed out and their data are the same, and where b was not yet taken
\* the heap is as between two calls.
Found(h, g, sz, fr, b, k) ==
    /\ DataKept(h, g, sz, fr)
    /\ \E cz1, sz1, fr1, L1, n1 :
          /\ Formed(g, cz1, sz1, fr1, L1, n1) /\ Entries(L1, n1) = fr1
          /\ Joined(sz1, fr1)
          /\ \A x \in fr1, t \in DOMAIN cz1 :
                x # b /\ x = t + 32 /\ x + sz1[x] = t + cz1[t] => t = g.home_pg
          /\ g.home_pg \in DOMAIN cz1
          /\ b \in fr1 /\ sz1[b] >= k
          /\ SameUsed(sz, fr, sz1, fr1)

\* extend adds a free block of the chunk's size, but for 32 bytes, to the list.
LEMMA ExtendIs ==
    ASSUME NEW h, NEW cz, NEW sz, NEW fr, NEW L, NEW n, Formed(h, cz, sz, fr, L, n),
           Entries(L, n) = fr, Joined(sz, fr), Idle(h, cz, sz, fr),
           (h.home_pg = 0 /\ cz = <<>>) \/ (h.home_pg # 0 /\ h.home_pg \in DOMAIN cz),
           NEW size \in Nat, size % PAGESIZE = 0, size >= 64, NEW s \in Places(h, size)
    PROVE  /\ extend(h, s, size).bp = s + 32
           /\ Found(h, extend(h, s, size).h, sz, fr, s + 32, size - 32)
           /\ extend(h, s, size).h.home_pg = IF h.home_pg = 0 THEN s ELSE h.home_pg
<1> DEFINE b == s + 32
           h1 == Chunk(h, s, size)
           h2 == push_free(h1, b)
           home == IF h.home_pg = 0 THEN s ELSE h.home_pg
           g == [h2 EXCEPT !.home_pg = home]
           c1 == Put(cz, s, size)
           s1 == Put(sz, b, size - 32)
           f1 == fr \cup {b}
           M == Cons(b, L, n)
<1>0. /\ Sound(h) /\ Chunked(h, cz) /\ Placed(cz) /\ Tiled(cz, sz)
      /\ Linked(h, L, n) /\ fr \subseteq DOMAIN sz
    BY DEF Formed, Chunked, Tagged
<1>1. /\ Formed(h1, c1, s1, f1, L, n)
      /\ h1.home_pg = h.home_pg
      /\ b \notin DOMAIN sz
      /\ DataKept(h, h1, sz, fr)
    BY ChunkFormed
<1>2. /\ s \in Nat /\ s >= 16 /\ s % 16 = 0 /\ s % PAGESIZE = 0
      /\ size % 16 = 0 /\ s + size < SIZE_MOD
      /\ s \notin DOMAIN cz
      /\ \A t \in DOMAIN cz : t + cz[t] <= s \/ s + size <= t
    BY <1>0, PlaceIs
<1>3. \A c \in DOMAIN sz : c + sz[c] <= s \/ s + size <= c - 32
    BY <1>0, <1>2, NewTiled
<1>4. DOMAIN c1 = DOMAIN cz \cup {s}
    BY DEF Put
<1>5. c1[s] = size /\ \A t \in DOMAIN cz : c1[t] = cz[t]
    BY <1>2 DEF Put
<1>6. DOMAIN s1 = DOMAIN sz \cup {b}
    BY DEF Put
<1>7. s1[b] = size - 32 /\ \A c \in DOMAIN sz : s1[c] = sz[c]
    BY <1>1 DEF Put
<1>8. \A c \in DOMAIN sz : c \in Nat /\ sz[c] \in Nat /\ sz[c] >= 32
    BY <1>0 DEF Tiled
<1>9. b \in Nat /\ b = s + 32
    BY <1>2
<1> HIDE DEF b, c1, s1, h1
<1>10. /\ Formed(h2, c1, s1, f1, M, n + 1) /\ Kept(h1, h2)
       /\ OnlyLinks(h1, h2, Entries(L, n) \cup {b})
    <2>1. b \in DOMAIN s1 /\ b \notin Entries(L, n)
        BY <1>0, <1>1, <1>6
    <2> QED
        BY <2>1, <1>1, OpPush
<1>11. Entries(M, n + 1) = f1
    BY <1>0, ConsIs
<1>12. DataKept(h1, h2, s1, f1)
    <2>1. Placed(c1) /\ Tiled(c1, s1) /\ f1 \subseteq DOMAIN s1
        BY <1>1 DEF Formed, Chunked, Tagged
    <2>2. Entries(L, n) \cup {b} \in SUBSET (DOMAIN s1 \cap f1)
        BY <2>1
    <2> QED
        BY <2>1, <2>2, <1>10, LinksData
<1>13. SameUsed(sz, fr, s1, f1)
    BY <1>0, <1>1, <1>6, <1>7 DEF SameUsed
<1>14. DataKept(h, h2, sz, fr)
    BY <1>1, <1>12, <1>13, DataKeptTrans
<1> HIDE DEF h2, M, home
<1>15. /\ Formed(g, c1, s1, f1, M, n + 1) /\ g.home_pg = home
       /\ \A x : GET(g, x) = GET(h2, x)
    <2> DEFINE m == n + 1
    <2> HIDE DEF m, f1
    <2>1. Formed(h2, c1, s1, f1, M, m)
        BY <1>10 DEF m
    <2>2. Formed(g, c1, s1, f1, M, m)
        BY ONLY <2>1, HomeIs
    <2>3. g.home_pg = home /\ \A x : GET(g, x) = GET(h2, x)
        BY ONLY <2>1, HomeIs
    <2> QED
        BY <2>2, <2>3 DEF m
<1>16. extend(h, s, size).bp = b /\ extend(h, s, size).h = g
    <2>1. h2.home_pg = h.home_pg
        BY <1>1, <1>10 DEF Kept
    <2>2. extend(h, s, size).bp = b /\ extend(h, s, size).h = [h2 EXCEPT !.home_pg = IF @ = NULL THEN s ELSE @]
        BY ExtendUnfolds DEF h2, h1, b
    <2> QED
        BY <2>1, <2>2 DEF home, NULL
<1> HIDE DEF g
<1>17. DataKept(h, g, sz, fr)
    BY <1>14, <1>15 DEF DataKept
<1>18. Joined(s1, f1)
    <2> SUFFICES ASSUME NEW x \in f1, NEW y \in f1, x + s1[x] = y PROVE FALSE
        BY DEF Joined
    <2>1. CASE x = b
        BY <2>1, <1>0, <1>2, <1>3, <1>7, <1>8, <1>9
    <2>2. CASE x # b /\ y = b
        BY <2>2, <1>0, <1>2, <1>3, <1>7, <1>8, <1>9
    <2>3. CASE x # b /\ y # b
        BY <2>3, <1>0, <1>7 DEF Joined
    <2> QED
        BY <2>1, <2>2, <2>3
<1>19. home \in DOMAIN c1
    BY <1>4 DEF home
<1>20. \A x \in f1, t \in DOMAIN c1 :
          x # b /\ x = t + 32 /\ x + s1[x] = t + c1[t] => t = g.home_pg
    <2> SUFFICES ASSUME NEW x \in f1, NEW t \in DOMAIN c1, x # b, x = t + 32, x + s1[x] = t + c1[t]
                 PROVE  t = home
        BY <1>15
    <2>1. x \in fr /\ t \in DOMAIN cz
        BY <1>4, <1>9
    <2>2. x + sz[x] = t + cz[t]
        BY <2>1, <1>0, <1>5, <1>7
    <2>3. t = h.home_pg
        BY <2>1, <2>2 DEF Idle
    <2>4. h.home_pg # 0
        BY <2>1
    <2> QED
        BY <2>3, <2>4 DEF home
<1>21. b \in f1 /\ s1[b] >= size - 32
    BY <1>7
<1> HIDE DEF f1
<1>22. Found(h, g, sz, fr, b, size - 32)
    BY <1>11, <1>13, <1>15, <1>17, <1>18, <1>19, <1>20, <1>21 DEF Found
<1> QED
    BY <1>15, <1>16, <1>22 DEF b, home

-----------------------------------------------------------------------------
(* set_allocated.                                                          *)

\* Block b in two, the first part handed out: where header and footers lie.
LEMMA TagSplit ==
    ASSUME NEW h, NEW cz, Placed(cz), NEW sz, Tiled(cz, sz), NEW fr, Tagged(h, cz, sz, fr),
           NEW b \in DOMAIN sz, NEW k \in Nat, k >= 32, k % 16 = 0, sz[b] - k >= 32,
           NEW e, e = b + k, NEW q,
           \A x : GET(q, x) = IF x = e - 8 \/ x = b + sz[b] - 16 THEN sz[b] - k
                              ELSE IF x = b - 8 \/ x = e - 16 THEN k + 1 ELSE GET(h, x)
    PROVE  /\ Tagged(q, cz, Split(sz, b, k), (fr \ {b}) \cup {e})
           /\ \A c \in DOMAIN sz : c # b => \A x \in Int : c - 8 <= x /\ x < c + sz[c] - 8
                                                => GET(q, x) = GET(h, x)
<1> DEFINE s1 == Split(sz, b, k)
           f1 == (fr \ {b}) \cup {e}
<1>1. b \in Nat /\ sz[b] \in Nat /\ e \in Nat /\ \A c \in DOMAIN sz : c \in Nat /\ sz[c] \in Nat /\ sz[c] >= 32
    BY DEF Tiled
<1>2. DOMAIN s1 = DOMAIN sz \cup {e}
    BY DEF Split, Put
<1>3. s1[b] = k /\ s1[e] = sz[b] - k
    BY <1>1, SplitAt
<1>4. \A x \in DOMAIN sz : x # b /\ x # e => s1[x] = sz[x]
    BY <1>1, SplitAt
<1>5. e \notin DOMAIN sz /\ e # b
    BY <1>1, SplitTiled
<1> HIDE DEF s1
<1>6. \A x \in {e - 8, b + sz[b] - 16, b - 8, e - 16} : x \in Int /\ b - 8 <= x /\ x < b + sz[b] - 8
    BY <1>1
<1>7. ASSUME NEW c \in DOMAIN sz, c # b, NEW x \in Int, c - 8 <= x, x < c + sz[c] - 8
      PROVE  GET(q, x) = GET(h, x)
    <2>1. x \notin {e - 8, b + sz[b] - 16, b - 8, e - 16}
        BY <1>6, <1>7, OwnWord
    <2> QED
        BY <2>1
<1>8. ASSUME NEW t \in DOMAIN cz
      PROVE  GET(q, t + 8) = 17 /\ GET(q, t + 16) = 17 /\ GET(q, t + cz[t] - 8) = 1
    <2>1. GET(h, t + 8) = 17 /\ GET(h, t + 16) = 17 /\ GET(h, t + cz[t] - 8) = 1
        BY DEF Tagged
    <2>2. \A x \in {e - 8, b + sz[b] - 16, b - 8, e - 16} :
             x # t + 8 /\ x # t + 16 /\ x # t + cz[t] - 8
        BY <1>6, OwnWord
    <2> QED
        BY <2>1, <2>2
<1>9. ASSUME NEW c \in DOMAIN s1
      PROVE  GET(q, c - 8) = Tag(s1, f1, c) /\ GET(q, c + s1[c] - 16) = Tag(s1, f1, c)
    <2>1. CASE c = b
        <3>1. Tag(s1, f1, c) = k + 1 /\ c + s1[c] - 16 = e - 16
            BY <2>1, <1>1, <1>3, <1>5 DEF Tag
        <3>2. b - 8 # e - 8 /\ b - 8 # b + sz[b] - 16 /\ e - 16 # e - 8 /\ e - 16 # b + sz[b] - 16
            BY <1>1
        <3> QED
            BY <2>1, <3>1, <3>2
    <2>2. CASE c = e
        <3>1. Tag(s1, f1, c) = sz[b] - k /\ c + s1[c] - 16 = b + sz[b] - 16
            BY <2>2, <1>1, <1>3 DEF Tag
        <3> QED
            BY <2>2, <3>1
    <2>3. CASE c # b /\ c # e
        <3>1. c \in DOMAIN sz /\ s1[c] = sz[c]
            BY <2>3, <1>2, <1>4
        <3>2. GET(h, c - 8) = Tag(sz, fr, c) /\ GET(h, c + sz[c] - 16) = Tag(sz, fr, c)
            BY <3>1 DEF Tagged
        <3>3. GET(q, c - 8) = GET(h, c - 8) /\ GET(q, c + sz[c] - 16) = GET(h, c + sz[c] - 16)
            BY <3>1, <2>3, <1>1, <1>7
        <3>4. Tag(s1, f1, c) = Tag(sz, fr, c)
            BY <3>1, <2>3 DEF Tag
        <3> QED
            BY <3>1, <3>2, <3>3, <3>4
    <2> QED
        BY <2>1, <2>2, <2>3
<1>10. f1 \subseteq DOMAIN s1
    BY <1>2 DEF Tagged
<1>11. Tagged(q, cz, s1, f1)
    BY <1>8, <1>9, <1>10 DEF Tagged
<1> QED
    BY <1>7, <1>11 DEF s1

\* What taking a block leaves: the other blocks handed out and their data, and b.
AllocLeaves(h, g, sz, fr, b, k) ==
    /\ DataKept(h, g, sz, fr)
    /\ \E cz2, sz2, fr2, L2, n2 :
          /\ Whole(g, cz2, sz2, fr2, L2, n2)
          /\ b \in DOMAIN sz2 \ fr2 /\ sz2[b] >= k
          /\ SameUsed(sz, fr, sz2, fr2 \cup {b})

\* The cases of set_allocated.
LEMMA SetUnfolds ==
    ASSUME NEW h, NEW b, NEW k
    PROVE  LET rest == Wrap(Size(h, b) - k)
               after == Wrap(b + k)
               h1 == pop_free(Mark(h, b, k, 1), b)
           IN  /\ set_allocated(h, b, k).bp = b
               /\ rest >= 32 => set_allocated(h, b, k).h = push_free(Mark(h1, after, rest, 0), after)
               /\ ~(rest >= 32) => set_allocated(h, b, k).h = pop_free(Mark(h, b, Size(h, b), 1), b)
<1>1. 2 * OVERHEAD = 32
    BY DEF OVERHEAD
<1> DEFINE rest == Wrap(Size(h, b) - k)
<1>2. set_allocated(h, b, k).bp = b
    BY DEF set_allocated, Outcome
<1>3. CASE rest >= 32
    BY <1>1, <1>2, <1>3 DEF set_allocated, Outcome, With
<1>4. CASE ~(rest >= 32)
    BY <1>1, <1>2, <1>4 DEF set_allocated, Outcome, With
<1> QED
    BY <1>3, <1>4

\* set_allocated, when the block is handed out whole.
LEMMA SetWhole ==
    ASSUME NEW h, NEW cz, NEW sz, NEW fr, NEW L, NEW n, Formed(h, cz, sz, fr, L, n),
           Entries(L, n) = fr, Joined(sz, fr), h.home_pg \in DOMAIN cz,
           NEW b \in fr,
           \A x \in fr, t \in DOMAIN cz : x # b /\ x = t + 32 /\ x + sz[x] = t + cz[t] => t = h.home_pg,
           NEW k \in Nat, sz[b] >= k
    PROVE  AllocLeaves(h, pop_free(Mark(h, b, sz[b], 1), b), sz, fr, b, k)
<1> DEFINE h1 == Mark(h, b, sz[b], 1)
           g == pop_free(h1, b)
           f1 == fr \ {b}
<1>1. PICK i \in 1 .. n : L[i] = b
    BY DEF Entries
<1> DEFINE M == Cut(L, n, i)
<1>2. /\ Placed(cz) /\ Tiled(cz, sz) /\ fr \subseteq DOMAIN sz /\ Linked(h, L, n)
    BY DEF Formed, Chunked, Tagged
<1>3. b \in DOMAIN sz
    BY <1>2
<1>4. Formed(h1, cz, sz, f1, L, n) /\ Kept(h, h1) /\ DataKept(h, h1, sz, {})
    BY <1>3, OpTag DEF Retag
<1>5. DataKept(h, h1, sz, fr)
    BY <1>4 DEF DataKept
<1> HIDE DEF h1, f1
<1>6. /\ Formed(g, cz, sz, f1, M, n - 1) /\ Kept(h1, g) /\ OnlyLinks(h1, g, Entries(L, n))
    BY <1>1, <1>4, OpPop
<1>7. Entries(M, n - 1) = f1
    BY <1>1, <1>2, CutIs DEF f1
<1> HIDE DEF g, M
<1>8. DataKept(h1, g, sz, fr)
    <2>1. Entries(L, n) \in SUBSET (DOMAIN sz \cap fr)
        BY <1>2
    <2> QED
        BY <2>1, <1>2, <1>6, LinksData
<1>9. DataKept(h, g, sz, fr)
    BY <1>5, <1>8, SameUsedSelf, DataKeptTrans
<1>10. g.home_pg = h.home_pg
    BY <1>4, <1>6 DEF Kept
<1>11. Joined(sz, f1)
    BY DEF Joined, f1
<1>12. Idle(g, cz, sz, f1)
    BY <1>10 DEF Idle, f1
<1>13. SameUsed(sz, fr, sz, f1 \cup {b})
    BY <1>3 DEF f1, SameUsed
<1>14. b \in DOMAIN sz \ f1
    BY <1>3 DEF f1
<1>15. Whole(g, cz, sz, f1, M, n - 1)
    BY <1>6, <1>7, <1>10, <1>11, <1>12 DEF Whole
<1> QED
    BY <1>9, <1>13, <1>14, <1>15 DEF AllocLeaves, g, h1

\* The heap's words while a block is split: marked k used, unlinked, the rest
\* marked free, and linked.
LEMMA SplitWords ==
    ASSUME NEW h, NEW cz, NEW sz, NEW fr, NEW L, NEW n, Formed(h, cz, sz, fr, L, n),
           Entries(L, n) = fr, NEW i \in 1 .. n, NEW b, b = L[i],
           NEW k \in Nat, k >= 32, k % 16 = 0, sz[b] - k >= 32,
           NEW e, e = b + k
    PROVE  LET g == push_free(Mark(pop_free(Mark(h, b, k, 1), b), e, sz[b] - k, 0), e)
               M == Cut(L, n, i)
           IN  /\ Sound(g) /\ Kept(h, g)
               /\ Linked(g, Cons(e, M, n - 1), n)
               /\ \A x : (\A c \in fr \cup {e} : x # c /\ x # c + 8) =>
                     GET(g, x) = IF x = e - 8 \/ x = b + sz[b] - 16 THEN sz[b] - k
                                 ELSE IF x = b - 8 \/ x = e - 16 THEN k + 1 ELSE GET(h, x)
<1> DEFINE h1 == Mark(h, b, k, 1)
           h2 == pop_free(h1, b)
           h3 == Mark(h2, e, sz[b] - k, 0)
           g == push_free(h3, e)
           M == Cut(L, n, i)
           z == sz[b] - k
<1>1. /\ Sound(h) /\ Chunked(h, cz) /\ Placed(cz) /\ Tiled(cz, sz) /\ Tagged(h, cz, sz, fr)
      /\ Linked(h, L, n) /\ fr \subseteq DOMAIN sz
    BY DEF Formed, Chunked, Tagged
<1>2. b \in fr /\ b \in DOMAIN sz
    BY <1>1 DEF Entries
<1>3. /\ b \in Nat /\ b % 16 = 0 /\ b >= 48 /\ b < SIZE_MOD
      /\ sz[b] \in Nat /\ sz[b] >= 32 /\ sz[b] % 16 = 0
      /\ b + sz[b] < SIZE_MOD
    BY <1>1, <1>2, BlockFacts
<1>4. e \in Nat /\ e % 16 = 0 /\ e >= b + 32 /\ z \in Nat /\ z >= 32 /\ e + z = b + sz[b]
    BY <1>3
<1>5. e \notin DOMAIN sz
    BY <1>1, <1>2, SplitTiled
<1>6. \A x \in Int : x % 8 = 0 /\ b - 8 <= x /\ x < b + sz[b] => x \in WordsOf(h.mapped)
    BY <1>1, <1>2, WordBlock
<1>7. /\ b - 8 \in WordsOf(h.mapped) /\ e - 16 \in WordsOf(h.mapped)
      /\ e - 8 \in WordsOf(h.mapped) /\ b + sz[b] - 16 \in WordsOf(h.mapped)
      /\ e \in WordsOf(h.mapped) /\ e + 8 \in WordsOf(h.mapped)
    <2>1. /\ (b - 8) % 8 = 0 /\ (e - 16) % 8 = 0 /\ (e - 8) % 8 = 0 /\ (b + sz[b] - 16) % 8 = 0
          /\ e % 8 = 0 /\ (e + 8) % 8 = 0
        BY <1>3, <1>4
    <2>2. \A x \in {b - 8, e - 16, e - 8, b + sz[b] - 16, e, e + 8} :
             x \in Int /\ b - 8 <= x /\ x < b + sz[b]
        BY <1>3, <1>4
    <2> QED
        BY <1>6, <2>1, <2>2
<1>8. LinksIn(h, L, n)
    BY <1>1, LinksInMapped
\* None of the marks falls on a link.
<1>9. ASSUME NEW c \in fr, NEW x \in {b - 8, e - 16, e - 8, b + sz[b] - 16}
      PROVE  (x # c + 8 /\ x # c) \/ c = b
    <2>1. x \in Int /\ b - 8 <= x /\ x < b + sz[b] - 8
        BY <1>3, <1>4
    <2>2. \A d \in DOMAIN sz : d # b => ~(d - 8 <= x /\ x < d + sz[d] - 8)
        BY <1>1, <1>2, <2>1, OwnWord
    <2>3. c \in DOMAIN sz /\ c \in Nat /\ sz[c] \in Nat /\ sz[c] >= 32
        BY <1>1 DEF Tiled
    <2> QED
        BY <2>2, <2>3
<1>10. \A x \in {b - 8, e - 16} : x # b /\ x # b + 8
    BY <1>3, <1>4
<1>11. b \in Nat /\ k \in Nat /\ b >= 16 /\ b + k < SIZE_MOD /\ b + k - 16 \in WordsOf(h.mapped)
    BY <1>3, <1>4, <1>7, PageSizeFacts
<1> HIDE DEF h1
<1>12. /\ Sound(h1) /\ Kept(h, h1) /\ h1.free_start = h.free_start
       /\ \A x : GET(h1, x) = IF x = b - 8 \/ x = e - 16 THEN k + 1 ELSE GET(h, x)
    <2>1. 1 \in {0, 1}
        OBVIOUS
    <2> QED
        BY <2>1, <1>1, <1>7, <1>11, MarkGet DEF h1
<1>13. Linked(h1, L, n)
    <2>1. ASSUME NEW j \in 1 .. n
          PROVE  GET(h1, L[j]) = GET(h, L[j]) /\ GET(h1, L[j] + 8) = GET(h, L[j] + 8)
        <3>1. L[j] \in fr
            BY DEF Entries
        <3>2. \A x \in {b - 8, e - 16} : x # L[j] /\ x # L[j] + 8
            BY <3>1, <1>9, <1>10
        <3> QED
            BY <3>2, <1>12
    <2> QED
        BY <2>1, <1>1, <1>12, LinkedFrame
<1>14. LinksIn(h1, L, n)
    BY <1>8, <1>12 DEF LinksIn, Kept
<1> HIDE DEF h2, M
<1>15. /\ Sound(h2) /\ Kept(h1, h2)
       /\ Linked(h2, M, n - 1)
       /\ OnlyLinks(h1, h2, Entries(L, n))
    BY <1>12, <1>13, <1>14, PopLinks DEF h2, M
<1>16. n - 1 \in Nat /\ Entries(M, n - 1) = fr \ {b}
    BY <1>1, CutIs DEF M
<1>17. h2.mapped = h.mapped /\ h2.home_pg = h.home_pg
    BY <1>12, <1>15 DEF Kept
<1> HIDE DEF z
<1>18. /\ Sound(h3) /\ Kept(h2, h3) /\ h3.free_start = h2.free_start
       /\ \A x : GET(h3, x) = IF x = e - 8 \/ x = b + sz[b] - 16 THEN z ELSE GET(h2, x)
    <2>1. /\ e >= 16 /\ e + z < SIZE_MOD
          /\ e - 8 \in WordsOf(h2.mapped) /\ e + z - 16 \in WordsOf(h2.mapped)
        BY <1>3, <1>4, <1>7, <1>17
    <2>2. 0 \in {0, 1} /\ z + 0 = z /\ e \in Nat /\ z \in Nat /\ z >= 32
        BY <1>4
    <2>4. Sound(h2)
        BY <1>15
    <2>3. /\ Sound(Mark(h2, e, z, 0)) /\ Kept(h2, Mark(h2, e, z, 0))
          /\ Mark(h2, e, z, 0).free_start = h2.free_start
          /\ \A x : GET(Mark(h2, e, z, 0), x) = IF x = e - 8 \/ x = e + z - 16 THEN z + 0 ELSE GET(h2, x)
        BY ONLY <2>1, <2>2, <2>4, MarkGet
    <2>5. e + z - 16 = b + sz[b] - 16
        BY <1>3, <1>4
    <2>6. h3 = Mark(h2, e, z, 0)
        BY DEF z
    <2> QED
        BY <2>2, <2>3, <2>5, <2>6
<1> HIDE DEF h3
<1> DEFINE m == n - 1
<1> HIDE DEF m
<1>19. Linked(h2, M, m) /\ Entries(M, m) = fr \ {b} /\ m \in Nat
    BY <1>15, <1>16 DEF m
<1>20. Linked(h3, M, m)
    <2>1. ASSUME NEW j \in 1 .. m
          PROVE  GET(h3, M[j]) = GET(h2, M[j]) /\ GET(h3, M[j] + 8) = GET(h2, M[j] + 8)
        <3>1. M[j] \in fr /\ M[j] # b
            BY <1>19 DEF Entries
        <3>2. \A x \in {e - 8, b + sz[b] - 16} : x # M[j] /\ x # M[j] + 8
            BY <3>1, <1>9
        <3> QED
            BY <3>2, <1>18
    <2> QED
        BY <2>1, <1>18, <1>19, LinkedFrame
<1>21. LinksIn(h3, M, m)
    <2>1. \A j \in 1 .. m : M[j] \in DOMAIN sz
        BY <1>1, <1>19 DEF Entries
    <2>2. \A c \in DOMAIN sz : c \in WordsOf(h.mapped) /\ c + 8 \in WordsOf(h.mapped)
        BY <1>1, BlockWords
    <2>3. h3.mapped = h.mapped
        BY <1>17, <1>18 DEF Kept
    <2> QED
        BY <2>1, <2>2, <2>3 DEF LinksIn
<1> HIDE DEF g
<1>22. /\ Sound(g) /\ Kept(h3, g)
       /\ Linked(g, Cons(e, M, m), m + 1)
       /\ OnlyLinks(h3, g, Entries(M, m) \cup {e})
    <2>1. e \notin Entries(M, m) /\ e \in WordsOf(h3.mapped) /\ e + 8 \in WordsOf(h3.mapped)
        BY <1>1, <1>5, <1>7, <1>17, <1>18, <1>19 DEF Kept
    <2>2. e \in Nat /\ e % 16 = 0 /\ Sound(h3)
        BY <1>4, <1>18
    <2>3. /\ Sound(push_free(h3, e)) /\ Kept(h3, push_free(h3, e))
          /\ Linked(push_free(h3, e), Cons(e, M, m), m + 1)
          /\ OnlyLinks(h3, push_free(h3, e), Entries(M, m) \cup {e})
        BY ONLY <2>1, <2>2, <1>20, <1>21, PushLinks
    <2> QED
        BY <2>3 DEF g
<1>23. Kept(h, g)
    BY <1>17, <1>18, <1>22 DEF Kept
<1>24. Linked(g, Cons(e, M, n - 1), n)
    <2>1. m + 1 = n /\ m = n - 1
        BY <1>1 DEF m, Linked
    <2> QED
        BY <2>1, <1>22
<1>25. ASSUME NEW x, \A c \in fr \cup {e} : x # c /\ x # c + 8
       PROVE  GET(g, x) = IF x = e - 8 \/ x = b + sz[b] - 16 THEN z
                          ELSE IF x = b - 8 \/ x = e - 16 THEN k + 1 ELSE GET(h, x)
    <2>1. GET(g, x) = GET(h3, x)
        BY <1>19, <1>22, <1>25 DEF OnlyLinks
    <2>2. GET(h2, x) = GET(h1, x)
        BY <1>15, <1>25 DEF OnlyLinks
    <2> QED
        BY <2>1, <2>2, <1>12, <1>18
<1> QED
    BY <1>22, <1>23, <1>24, <1>25 DEF g, h1, h2, h3, M, z

\* The entries of a list with b in front.
LEMMA ConsEntries ==
    ASSUME NEW b, NEW M, NEW m \in Nat
    PROVE  Entries(Cons(b, M, m), m + 1) = Entries(M, m) \cup {b}
<1> DEFINE K == Cons(b, M, m)
<1>1. /\ K[1] = b /\ \A i \in 1 .. m : K[i + 1] = M[i]
      /\ \A i \in 1 .. m + 1 : i # 1 => K[i] = M[i - 1]
    BY DEF Cons
<1> HIDE DEF K
<1>2. ASSUME NEW x \in Entries(K, m + 1) PROVE x \in Entries(M, m) \cup {b}
    <2>1. PICK i \in 1 .. m + 1 : x = K[i]
        BY DEF Entries
    <2>2. CASE i = 1
        BY <2>1, <2>2, <1>1
    <2>3. CASE i # 1
        <3>1. i - 1 \in 1 .. m /\ x = M[i - 1]
            BY <2>1, <2>3, <1>1
        <3> QED
            BY <3>1 DEF Entries
    <2> QED
        BY <2>2, <2>3
<1>3. ASSUME NEW x \in Entries(M, m) PROVE x \in Entries(K, m + 1)
    <2>1. PICK i \in 1 .. m : x = M[i]
        BY DEF Entries
    <2>2. i + 1 \in 1 .. m + 1 /\ x = K[i + 1]
        BY <2>1, <1>1
    <2> QED
        BY <2>2 DEF Entries
<1>4. b \in Entries(K, m + 1)
    <2>1. 1 \in 1 .. m + 1
        OBVIOUS
    <2> QED
        BY <2>1, <1>1 DEF Entries
<1> QED
    BY <1>2, <1>3, <1>4 DEF K

\* set_allocated, when the rest of the block stays free.
LEMMA SetSplit ==
    ASSUME NEW h, NEW cz, NEW sz, NEW fr, NEW L, NEW n, Formed(h, cz, sz, fr, L, n),
           Entries(L, n) = fr, Joined(sz, fr), h.home_pg \in DOMAIN cz,
           NEW b \in fr,
           \A x \in fr, t \in DOMAIN cz : x # b /\ x = t + 32 /\ x + sz[x] = t + cz[t] => t = h.home_pg,
           NEW k \in Nat, k >= 32, k % 16 = 0, sz[b] - k >= 32,
           NEW e, e = b + k
    PROVE  AllocLeaves(h, push_free(Mark(pop_free(Mark(h, b, k, 1), b), e, sz[b] - k, 0), e),
                       sz, fr, b, k)
<1> DEFINE g == push_free(Mark(pop_free(Mark(h, b, k, 1), b), e, sz[b] - k, 0), e)
           z == sz[b] - k
           s1 == Split(sz, b, k)
           f1 == (fr \ {b}) \cup {e}
<1>1. PICK i \in 1 .. n : L[i] = b
    BY DEF Entries
<1> DEFINE M == Cut(L, n, i)
           K == Cons(e, M, n - 1)
<1>2. /\ Sound(h) /\ Chunked(h, cz) /\ Placed(cz) /\ Tiled(cz, sz) /\ Tagged(h, cz, sz, fr)
      /\ Linked(h, L, n) /\ fr \subseteq DOMAIN sz
    BY DEF Formed, Chunked, Tagged
<1>3. b \in DOMAIN sz
    BY <1>2
<1>4. /\ b \in Nat /\ b % 16 = 0 /\ b >= 48 /\ b < SIZE_MOD
      /\ sz[b] \in Nat /\ sz[b] >= 32 /\ sz[b] % 16 = 0
      /\ b + sz[b] < SIZE_MOD
    BY <1>2, <1>3, BlockFacts
<1>5. e \in Nat /\ e > b /\ z \in Nat /\ z >= 32 /\ e + z = b + sz[b]
    BY <1>4
<1>6. Tiled(cz, s1) /\ e \notin DOMAIN sz
    BY <1>2, <1>3, SplitTiled
<1>0. s1 = Put(Put(sz, b, k), e, z)
    BY DEF Split
<1>7. DOMAIN s1 = DOMAIN sz \cup {e}
    BY <1>0, <1>3 DEF Put
<1>8. s1[b] = k /\ s1[e] = z
    <2>1. b # e
        BY <1>3, <1>6
    <2> QED
        BY <1>0, <1>3, <2>1 DEF Put
<1>9. \A x \in DOMAIN sz : x # b => s1[x] = sz[x]
    BY <1>3, <1>4, <1>6, SplitAt
<1>10. \A c, d \in DOMAIN sz : c # d => c + sz[c] <= d \/ d + sz[d] <= c
    BY <1>2 DEF Tiled
<1>11. \A c \in DOMAIN sz : c \in Nat /\ sz[c] \in Nat /\ sz[c] >= 32
    BY <1>2 DEF Tiled
<1> HIDE DEF s1, g, K, z
<1>12. /\ Sound(g) /\ Kept(h, g)
       /\ Linked(g, K, n)
       /\ \A x : (\A c \in fr \cup {e} : x # c /\ x # c + 8) =>
             GET(g, x) = IF x = e - 8 \/ x = b + sz[b] - 16 THEN z
                         ELSE IF x = b - 8 \/ x = e - 16 THEN k + 1 ELSE GET(h, x)
    BY <1>1, SplitWords DEF g, K, z
<1>13. Entries(K, n) = f1
    <2>1. n - 1 \in Nat /\ (n - 1) + 1 = n
        BY <1>2 DEF Linked
    <2>2. Entries(M, n - 1) = fr \ {b}
        BY <1>1, <1>2, CutIs
    <2> HIDE DEF M
    <2> DEFINE m == n - 1
    <2> HIDE DEF m
    <2>3. Entries(Cons(e, M, m), m + 1) = Entries(M, m) \cup {e}
        BY <2>1, ConsEntries DEF m
    <2> QED
        BY <2>1, <2>2, <2>3 DEF m, K
<1> HIDE DEF M
\* A heap with the tags of the split and the links of before.
<1>14. PICK q : \A x : GET(q, x) = IF x = e - 8 \/ x = b + sz[b] - 16 THEN z
                                   ELSE IF x = b - 8 \/ x = e - 16 THEN k + 1 ELSE GET(h, x)
    <2> DEFINE D == DOMAIN h.mem \cup {e - 8, b + sz[b] - 16, b - 8, e - 16}
               m == [x \in D |-> IF x = e - 8 \/ x = b + sz[b] - 16 THEN z
                                 ELSE IF x = b - 8 \/ x = e - 16 THEN k + 1 ELSE GET(h, x)]
               q0 == [mem |-> m]
    <2>1. q0.mem = m
        OBVIOUS
    <2>2. DOMAIN m = D
        OBVIOUS
    <2>3. \A x \in D : m[x] = IF x = e - 8 \/ x = b + sz[b] - 16 THEN z
                              ELSE IF x = b - 8 \/ x = e - 16 THEN k + 1 ELSE GET(h, x)
        OBVIOUS
    <2> HIDE DEF m, q0
    <2>4. \A x : GET(q0, x) = IF x = e - 8 \/ x = b + sz[b] - 16 THEN z
                              ELSE IF x = b - 8 \/ x = e - 16 THEN k + 1 ELSE GET(h, x)
        BY <2>1, <2>2, <2>3 DEF GET
    <2> QED
        BY <2>4
<1>15. /\ Tagged(q, cz, s1, f1)
       /\ \A c \in DOMAIN sz : c # b => \A x \in Int : c - 8 <= x /\ x < c + sz[c] - 8
                                            => GET(q, x) = GET(h, x)
    BY <1>2, <1>3, <1>14, TagSplit DEF s1, z
<1>16. OnlyLinks(q, g, fr \cup {e})
    BY <1>12, <1>14 DEF OnlyLinks
<1>17. Tagged(g, cz, s1, f1)
    <2>1. fr \cup {e} \in SUBSET DOMAIN s1
        BY <1>2, <1>7
    <2> QED
        BY <2>1, <1>2, <1>6, <1>15, <1>16, LinksTagged
<1>18. Chunked(g, cz)
    BY <1>2, <1>12 DEF Chunked, Kept
<1>19. Formed(g, cz, s1, f1, K, n)
    <2>1. f1 \subseteq DOMAIN s1
        BY <1>2, <1>7
    <2> QED
        BY <2>1, <1>6, <1>12, <1>13, <1>17, <1>18 DEF Formed
<1>20. DataKept(h, g, sz, fr)
    <2>1. DataKept(q, g, s1, f1 \cup {b})
        <3>1. fr \cup {e} \in SUBSET (DOMAIN s1 \cap (f1 \cup {b}))
            BY <1>2, <1>7
        <3> QED
            BY <3>1, <1>2, <1>6, <1>16, LinksData
    <2> SUFFICES ASSUME NEW c \in DOMAIN sz \ fr, NEW x \in Int, c <= x, x < c + sz[c] - 16
                 PROVE  GET(g, x) = GET(h, x)
        BY DEF DataKept
    <2>2. c \in DOMAIN s1 \ (f1 \cup {b}) /\ s1[c] = sz[c] /\ c # b
        BY <1>6, <1>7, <1>9
    <2>3. GET(g, x) = GET(q, x)
        BY <2>1, <2>2 DEF DataKept
    <2>4. GET(q, x) = GET(h, x)
        BY <2>2, <1>11, <1>15
    <2> QED
        BY <2>3, <2>4
<1>21. Joined(s1, f1)
    <2> SUFFICES ASSUME NEW x \in f1, NEW y \in f1, x + s1[x] = y PROVE FALSE
        BY DEF Joined
    <2>1. CASE x = e
        <3>1. y = b + sz[b] /\ y # e
            BY <2>1, <1>5, <1>8
        <3> QED
            BY <3>1 DEF Joined
    <2>2. CASE x # e /\ y = e
        <3>1. x \in DOMAIN sz /\ x # b /\ s1[x] = sz[x]
            BY <2>2, <1>2, <1>9
        <3> QED
            BY <3>1, <2>2, <1>3, <1>4, <1>5, <1>10, <1>11
    <2>3. CASE x # e /\ y # e
        BY <2>3, <1>2, <1>9 DEF Joined
    <2> QED
        BY <2>1, <2>2, <2>3
<1>22. Idle(g, cz, s1, f1)
    <2> SUFFICES ASSUME NEW x \in f1, NEW t \in DOMAIN cz, x = t + 32, x + s1[x] = t + cz[t]
                 PROVE  t = g.home_pg
        BY DEF Idle
    <2>0. g.home_pg = h.home_pg
        BY <1>12 DEF Kept
    <2>1. CASE x = e
        <3>1. PICK s \in DOMAIN cz : s + 32 <= b /\ b + sz[b] <= s + cz[s]
            BY <1>2, <1>3 DEF Tiled
        <3>2. \A u \in DOMAIN cz : u \in Nat /\ cz[u] \in Nat /\ cz[u] >= 64
            BY <1>2 DEF Placed
        <3>3. s # t => s + cz[s] <= t \/ t + cz[t] <= s
            BY <1>2 DEF Placed
        <3> QED
            BY <2>1, <3>1, <3>2, <3>3, <1>4, <1>5
    <2>2. CASE x # e
        BY <2>0, <2>2, <1>2, <1>9
    <2> QED
        BY <2>1, <2>2
<1>23. SameUsed(sz, fr, s1, f1 \cup {b})
    BY <1>3, <1>6, <1>7, <1>9 DEF SameUsed
<1>24. b \in DOMAIN s1 \ f1 /\ s1[b] >= k
    BY <1>3, <1>5, <1>7, <1>8
<1>25. g.home_pg \in DOMAIN cz
    BY <1>12 DEF Kept
<1> HIDE DEF f1
<1>26. Whole(g, cz, s1, f1, K, n)
    BY <1>13, <1>19, <1>21, <1>22, <1>25 DEF Whole
<1> QED
    BY <1>20, <1>23, <1>24, <1>26 DEF AllocLeaves, g

\* A block that was found is taken.
LEMMA SetIs ==
    ASSUME NEW h, NEW sz, NEW fr, NEW g, NEW b, NEW k \in Nat, k >= 32, k % 16 = 0,
           Found(h, g, sz, fr, b, k)
    PROVE  /\ set_allocated(g, b, k).bp = b
           /\ AllocLeaves(h, set_allocated(g, b, k).h, sz, fr, b, k)
<1>1. PICK cz1, sz1, fr1, L1, n1 :
          /\ Formed(g, cz1, sz1, fr1, L1, n1) /\ Entries(L1, n1) = fr1
          /\ Joined(sz1, fr1)
          /\ \A x \in fr1, t \in DOMAIN cz1 :
                x # b /\ x = t + 32 /\ x + sz1[x] = t + cz1[t] => t = g.home_pg
          /\ g.home_pg \in DOMAIN cz1
          /\ b \in fr1 /\ sz1[b] >= k
          /\ SameUsed(sz, fr, sz1, fr1)
    BY DEF Found
<1>2. /\ Placed(cz1) /\ Tiled(cz1, sz1) /\ Tagged(g, cz1, sz1, fr1) /\ b \in DOMAIN sz1
    BY <1>1 DEF Formed, Chunked, Tagged
<1>3. /\ b \in Nat /\ b < SIZE_MOD /\ sz1[b] \in Nat /\ sz1[b] < SIZE_MOD - 1
      /\ sz1[b] % 16 = 0 /\ b + sz1[b] < SIZE_MOD
    BY <1>2, BlockFacts
<1>4. Size(g, b) = sz1[b]
    BY <1>2, SizeIs
<1> DEFINE rest == Wrap(Size(g, b) - k)
           after == Wrap(b + k)
           s == set_allocated(g, b, k)
<1>5. rest = sz1[b] - k
    <2>1. sz1[b] - k \in Nat /\ sz1[b] - k < SIZE_MOD
        BY <1>1, <1>3, PageSizeFacts
    <2> QED
        BY <2>1, <1>4, WrapSmall
<1>6. after = b + k
    <2>1. b + k \in Nat /\ b + k < SIZE_MOD
        BY <1>1, <1>3, PageSizeFacts
    <2> QED
        BY <2>1, WrapSmall
<1>7. /\ s.bp = b
      /\ rest >= 32 => s.h = push_free(Mark(pop_free(Mark(g, b, k, 1), b), after, rest, 0), after)
      /\ ~(rest >= 32) => s.h = pop_free(Mark(g, b, Size(g, b), 1), b)
    BY SetUnfolds
<1> HIDE DEF s, rest, after
<1>8. AllocLeaves(g, s.h, sz1, fr1, b, k)
    <2>1. CASE rest >= 32
        <3>1. sz1[b] - k >= 32
            BY <2>1, <1>5
        <3>2. AllocLeaves(g, push_free(Mark(pop_free(Mark(g, b, k, 1), b), after, sz1[b] - k, 0), after),
                          sz1, fr1, b, k)
            BY <3>1, <1>1, <1>6, SetSplit
        <3> QED
            BY <3>2, <2>1, <1>5, <1>7
    <2>2. CASE ~(rest >= 32)
        <3>1. AllocLeaves(g, pop_free(Mark(g, b, sz1[b], 1), b), sz1, fr1, b, k)
            BY <1>1, SetWhole
        <3> QED
            BY <3>1, <2>2, <1>4, <1>7
    <2> QED
        BY <2>1, <2>2
<1>9. PICK cz2, sz2, fr2, L2, n2 :
          /\ Whole(s.h, cz2, sz2, fr2, L2, n2)
          /\ b \in DOMAIN sz2 \ fr2 /\ sz2[b] >= k
          /\ SameUsed(sz1, fr1, sz2, fr2 \cup {b})
    BY <1>8 DEF AllocLeaves
<1>10. SameUsed(sz, fr, sz2, fr2 \cup {b})
    BY <1>1, <1>9 DEF SameUsed
<1>11. DataKept(h, s.h, sz, fr)
    BY <1>1, <1>8, DataKeptTrans DEF AllocLeaves, Found
<1> QED
    BY <1>7, <1>9, <1>10, <1>11 DEF AllocLeaves, s

-----------------------------------------------------------------------------
(* What FreeList finds.                                                    *)

\* A set of natural numbers has a least element, and induction over them.
LEMMA Least ==
    ASSUME NEW S \in SUBSET Nat, S # {}
    PROVE  \E n \in S : \A m \in S : n <= m
<1>0. OpToRel(<, Nat) = {ss \in Nat \X Nat : ss[1] < ss[2]}
    BY Zenon DEF OpToRel
<1> DEFINE R == OpToRel(<, Nat)
<1>1. \E x \in S : \A y \in S : ~ (<<y, x>> \in R)
    BY NatLessThanWellFounded, WFMin
<1>2. R = {ss \in Nat \X Nat : ss[1] < ss[2]}
    BY <1>0
<1> HIDE DEF R
<1>3. PICK x \in S : \A y \in S : ~ (<<y, x>> \in R)
    BY <1>1
<1>4. ASSUME NEW y \in S, y < x PROVE FALSE
    <2>1. <<y, x>> \in Nat \X Nat /\ <<y, x>>[1] < <<y, x>>[2]
        BY <1>4
    <2>2. <<y, x>> \in R
        BY <2>1, <1>2
    <2> QED
        BY <2>2, <1>3
<1> QED
    BY <1>4, <1>3

LEMMA InductionOnNat ==
    ASSUME NEW S \in SUBSET Nat, 0 \in S, \A n \in Nat : n \in S => n + 1 \in S
    PROVE  S = Nat
<1> SUFFICES ASSUME S # Nat PROVE FALSE
    OBVIOUS
<1> DEFINE T == Nat \ S
<1>1. T \in SUBSET Nat /\ T # {}
    OBVIOUS
<1> HIDE DEF T
<1>2. PICK n \in T : \A m \in T : n <= m
    BY <1>1, Least
<1>3. n \in Nat /\ n \notin S /\ n # 0
    BY <1>1, <1>2 DEF T
<1>4. n - 1 \in Nat /\ n - 1 \notin T
    BY <1>2, <1>3
<1>5. n - 1 \in S
    BY <1>4 DEF T
<1>6. (n - 1) + 1 \in S
    BY <1>4, <1>5
<1> QED
    BY <1>3, <1>6

\* The lists that start at each address, followed for at most m blocks.
FromStep(h, m, f) ==
    [n \in 0 .. m |-> [bp \in Nat |-> IF bp = NULL \/ n = 0 THEN <<>>
                                     ELSE <<bp>> \o f[n - 1][GET(h, next(bp))]]]

\* The recursion of FreeList defines a function.
LEMMA FromExists ==
    ASSUME NEW h, NEW m \in Nat
    PROVE  \E f : f = FromStep(h, m, f)
<1> DEFINE S == {k \in Nat : \E f : f = FromStep(h, k, f)}
<1>1. 0 \in S
    <2> DEFINE f == [n \in 0 .. 0 |-> [bp \in Nat |-> <<>>]]
    <2>1. f = FromStep(h, 0, f)
        BY DEF FromStep
    <2> QED
        BY <2>1
<1>2. ASSUME NEW k \in Nat, k \in S PROVE k + 1 \in S
    <2>1. PICK f : f = FromStep(h, k, f)
        BY <1>2
    <2> DEFINE row(F, n) == [bp \in Nat |-> IF bp = NULL \/ n = 0 THEN <<>>
                                     ELSE <<bp>> \o F[n - 1][GET(h, next(bp))]]
               g == [n \in 0 .. k + 1 |-> IF n = k + 1 THEN row(f, n) ELSE f[n]]
    <2>2. \A n \in 0 .. k : f[n] = row(f, n)
        BY <2>1 DEF FromStep
    <2>3. \A n \in 0 .. k : g[n] = f[n]
        OBVIOUS
    <2>4. \A n \in 0 .. k + 1 : n = 0 \/ n - 1 \in 0 .. k
        OBVIOUS
    <2>5. \A n \in 0 .. k + 1 : g[n] = row(f, n)
        BY <2>2, <2>3
    <2>6. \A n \in 0 .. k + 1 : row(f, n) = row(g, n)
        BY <2>3, <2>4
    <2>7. g = [n \in 0 .. k + 1 |-> row(g, n)]
        <3>1. g = [n \in 0 .. k + 1 |-> g[n]]
            OBVIOUS
        <3>2. \A n \in 0 .. k + 1 : g[n] = row(g, n)
            BY <2>5, <2>6
        <3> HIDE DEF g, row
        <3> QED
            BY <3>1, <3>2
    <2>8. g = FromStep(h, k + 1, g)
        BY <2>7 DEF FromStep
    <2> QED
        BY <2>8
<1>3. S = Nat
    <2>1. S \in SUBSET Nat
        OBVIOUS
    <2> HIDE DEF S
    <2> QED
        BY <1>1, <1>2, <2>1, InductionOnNat
<1> QED
    BY <1>3

\* A sequence with one element in front.
LEMMA SeqCons ==
    ASSUME NEW S, NEW a \in S, NEW i \in Nat, NEW T \in [1 .. i -> S]
    PROVE  <<a>> \o T = [x \in 1 .. i + 1 |-> IF x = 1 THEN a ELSE T[x - 1]]
<1>1. T \in Seq(S) /\ Len(T) = i
    OBVIOUS
<1>2. <<a>> \in Seq(S) /\ Len(<<a>>) = 1
    OBVIOUS
<1> DEFINE U == <<a>> \o T
<1>3. U \in Seq(S) /\ Len(U) = 1 + i
    BY <1>1, <1>2
<1>4. \A x \in 1 .. i + 1 : U[x] = IF x = 1 THEN a ELSE T[x - 1]
    BY <1>1, <1>2
<1> HIDE DEF U
<1>5. DOMAIN U = 1 .. i + 1 /\ U = [x \in DOMAIN U |-> U[x]]
    BY <1>3
<1> QED
    BY <1>4, <1>5 DEF U

\* FreeList finds the list that is linked.
LEMMA FreeListIs ==
    ASSUME NEW h, NEW L, NEW n, Linked(h, L, n), n <= MaxBlocks
    PROVE  FreeList(h) = [i \in 1 .. n |-> L[i]]
<1> DEFINE m == MaxBlocks
           F == CHOOSE f : f = [i \in 0 .. MaxBlocks |-> [bp \in Nat |-> IF bp = NULL \/ i = 0 THEN <<>>
                                     ELSE <<bp>> \o f[i - 1][GET(h, next(bp))]]]
<1>1. m \in Nat
    BY PageSizeFacts DEF MaxBlocks
<1>2. FreeList(h) = F[m][h.free_start]
    BY DEF FreeList
<1>3. F = [i \in 0 .. MaxBlocks |-> [bp \in Nat |-> IF bp = NULL \/ i = 0 THEN <<>>
                                     ELSE <<bp>> \o F[i - 1][GET(h, next(bp))]]]
    <2>1. \E f : f = [i \in 0 .. MaxBlocks |-> [bp \in Nat |-> IF bp = NULL \/ i = 0 THEN <<>>
                                     ELSE <<bp>> \o f[i - 1][GET(h, next(bp))]]]
        BY <1>1, FromExists DEF FromStep
    <2> QED
        BY <2>1, Zenon
<1> HIDE DEF F
<1>4. \A k \in 0 .. m : \A bp \in Nat : F[k][bp] = IF bp = 0 \/ k = 0 THEN <<>>
                                     ELSE <<bp>> \o F[k - 1][GET(h, bp + 8)]
    <2> DEFINE D(f) == [i \in 0 .. MaxBlocks |-> [bp \in Nat |-> IF bp = NULL \/ i = 0 THEN <<>>
                                     ELSE <<bp>> \o f[i - 1][GET(h, next(bp))]]]
    <2>1. \A f : \A k \in 0 .. m : \A bp \in Nat :
             D(f)[k][bp] = IF bp = NULL \/ k = 0 THEN <<>> ELSE <<bp>> \o f[k - 1][GET(h, next(bp))]
        <3> TAKE f
        <3> TAKE k \in 0 .. m
        <3>1. D(f)[k] = [bp \in Nat |-> IF bp = NULL \/ k = 0 THEN <<>>
                                     ELSE <<bp>> \o f[k - 1][GET(h, next(bp))]]
            BY Zenon
        <3> HIDE DEF D
        <3> TAKE bp \in Nat
        <3> QED
            BY <3>1, Zenon
    <2>2. F = D(F)
        BY <1>3
    <2> HIDE DEF D
    <2>3. \A k \in 0 .. m : \A bp \in Nat :
             F[k][bp] = IF bp = NULL \/ k = 0 THEN <<>> ELSE <<bp>> \o F[k - 1][GET(h, next(bp))]
        <3> DEFINE E == D(F)
        <3>1. \A k \in 0 .. m : \A bp \in Nat :
             E[k][bp] = IF bp = NULL \/ k = 0 THEN <<>> ELSE <<bp>> \o F[k - 1][GET(h, next(bp))]
            BY <2>1, Zenon
        <3> HIDE DEF E
        <3>2. F = E
            BY <2>2 DEF E
        <3> QED
            BY <3>1, <3>2
    <2> QED
        BY <2>3 DEF NULL, next, BYTE
<1>5. /\ n \in Nat
      /\ \A i \in 1 .. n : L[i] \in Nat \ {0}
      /\ \A i \in 1 .. n : GET(h, L[i] + 8) = IF i = n THEN 0 ELSE L[i + 1]
      /\ h.free_start = IF n = 0 THEN 0 ELSE L[1]
    BY DEF Linked
<1> DEFINE tail(i) == [x \in 1 .. i |-> L[n - i + x]]
           start(i) == IF i = 0 THEN 0 ELSE L[n - i + 1]
           S == {i \in Nat : i <= n => \A k \in i .. m : F[k][start(i)] = tail(i)}
<1>6. 0 \in S
    <2>1. tail(0) = <<>>
        OBVIOUS
    <2>2. \A k \in 0 .. m : F[k][0] = <<>>
        BY <1>4
    <2> QED
        BY <2>1, <2>2
<1>7. ASSUME NEW i \in Nat, i \in S PROVE i + 1 \in S
    <2> SUFFICES ASSUME i + 1 <= n, NEW k \in i + 1 .. m
                 PROVE  F[k][start(i + 1)] = tail(i + 1)
        OBVIOUS
    <2> DEFINE a == L[n - i]
               U == tail(i)
    <2>1. n - i \in 1 .. n /\ n - (i + 1) + 1 = n - i
        BY <1>5
    <2>2. start(i + 1) = a /\ a \in Nat /\ a # 0
        BY <1>5, <2>1
    <2>3. GET(h, a + 8) = start(i)
        BY <1>5, <2>1
    <2>4. k - 1 \in i .. m /\ k \in 0 .. m /\ k # 0
        BY <1>1
    <2>5. F[k - 1][start(i)] = U
        <3>1. i <= n
            BY <1>5
        <3>2. \A j \in i .. m : F[j][start(i)] = tail(i)
            BY <3>1, <1>7
        <3> HIDE DEF start, tail
        <3> QED
            BY <3>2, <2>4
    <2>6. U \in [1 .. i -> Nat]
        <3>1. \A x \in 1 .. i : L[n - i + x] \in Nat
            BY <1>5
        <3> QED
            BY <3>1
    <2>7. \A x \in 1 .. i : U[x] = L[n - i + x]
        OBVIOUS
    <2> HIDE DEF U, start
    <2>8. F[k][a] = <<a>> \o U
        BY <1>4, <2>2, <2>3, <2>4, <2>5
    <2> HIDE DEF a
    <2>9. <<a>> \o U = [x \in 1 .. i + 1 |-> IF x = 1 THEN a ELSE U[x - 1]]
        BY <2>2, <2>6, SeqCons
    <2>10. \A x \in 1 .. i + 1 : (IF x = 1 THEN a ELSE U[x - 1]) = L[n - (i + 1) + x]
        <3> TAKE x \in 1 .. i + 1
        <3>1. CASE x = 1
            BY <3>1, <2>1 DEF a
        <3>2. CASE x # 1
            <4>1. x - 1 \in 1 .. i /\ n - i + (x - 1) = n - (i + 1) + x
                BY <3>2, <1>5
            <4> QED
                BY <4>1, <3>2, <2>7
        <3> QED
            BY <3>1, <3>2
    <2>11. [x \in 1 .. i + 1 |-> IF x = 1 THEN a ELSE U[x - 1]] = tail(i + 1)
        BY <2>10
    <2> QED
        BY <2>2, <2>8, <2>9, <2>11
<1>8. S = Nat
    <2>1. S \in SUBSET Nat
        OBVIOUS
    <2> HIDE DEF S
    <2> QED
        BY <1>6, <1>7, <2>1, InductionOnNat
<1>9. F[m][start(n)] = tail(n)
    <2>1. n \in S
        BY <1>5, <1>8
    <2>2. \A k \in n .. m : F[k][start(n)] = tail(n)
        BY <2>1, <1>5
    <2> HIDE DEF start, tail
    <2>3. m \in n .. m
        BY <1>1, <1>5
    <2> QED
        BY <2>2, <2>3
<1>10. start(n) = h.free_start
    BY <1>5
<1>11. tail(n) = [i \in 1 .. n |-> L[i]]
    <2>1. \A x \in 1 .. n : n - n + x = x
        BY <1>5
    <2> QED
        BY <2>1
<1> QED
    BY <1>2, <1>9, <1>10, <1>11

\* The addresses on the list differ, so it is no longer than memory.
LEMMA ListIsShort ==
    ASSUME NEW h, Sound(h), NEW L, NEW n, Linked(h, L, n), LinksIn(h, L, n)
    PROVE  n <= MaxBlocks
<1> SUFFICES ASSUME n > MaxBlocks PROVE FALSE
    BY PageSizeFacts DEF MaxBlocks, Linked
<1>1. n \in Nat /\ MaxBlocks \in Nat
    BY PageSizeFacts DEF MaxBlocks, Linked
<1> DEFINE f == [i \in 1 .. n |-> L[i]]
<1>2. f \in [1 .. n -> 1 .. MaxBlocks]
    <2> SUFFICES ASSUME NEW i \in 1 .. n PROVE L[i] \in 1 .. MaxBlocks
        OBVIOUS
    <2>1. L[i] \in WordsOf(h.mapped) /\ h.mapped \in SUBSET AllPages
        BY DEF LinksIn, Sound
    <2>2. L[i] \in Nat /\ L[i] < PAGESIZE * (NPages + 1)
        BY <2>1, WordSmall
    <2>3. L[i] # 0
        BY DEF Linked
    <2> QED
        BY <2>2, <2>3, <1>1 DEF MaxBlocks
<1>3. \A i, j \in 1 .. n : i # j => f[i] # f[j]
    BY DEF Linked
<1> HIDE DEF f
<1>4. IsFiniteSet(1 .. n) /\ Cardinality(1 .. n) = n
    BY <1>1, FS_Interval
<1>5. IsFiniteSet(1 .. MaxBlocks) /\ Cardinality(1 .. MaxBlocks) = MaxBlocks
    BY <1>1, FS_Interval
<1>6. \E i, j \in 1 .. n : i # j /\ f[i] = f[j]
    BY <1>2, <1>4, <1>5, FS_PigeonHole
<1> QED
    BY <1>3, <1>6

-----------------------------------------------------------------------------
(* mm_malloc.                                                              *)

\* The block first fit returns.
LEMMA FitIs ==
    ASSUME NEW h, NEW cz, NEW sz, NEW fr, NEW L, NEW n, Formed(h, cz, sz, fr, L, n),
           Entries(L, n) = fr, NEW k \in Nat
    PROVE  FirstFit(h, k) = 0 \/ (FirstFit(h, k) \in fr /\ sz[FirstFit(h, k)] >= k)
<1>1. /\ Sound(h) /\ Chunked(h, cz) /\ Placed(cz) /\ Tiled(cz, sz) /\ Tagged(h, cz, sz, fr)
      /\ Linked(h, L, n) /\ fr \subseteq DOMAIN sz
    BY DEF Formed, Chunked, Tagged
<1>2. FreeList(h) = [i \in 1 .. n |-> L[i]]
    <2>1. LinksIn(h, L, n)
        BY <1>1, LinksInMapped DEF Formed
    <2> QED
        BY <2>1, <1>1, ListIsShort, FreeListIs
<1> DEFINE list == FreeList(h)
           fits == {i \in DOMAIN list : Size(h, list[i]) >= k}
<1>3. FirstFit(h, k) = IF fits = {} THEN 0 ELSE list[CHOOSE i \in fits : \A j \in fits : i <= j]
    BY DEF FirstFit, With, NULL
<1>4. DOMAIN list = 1 .. n /\ \A i \in 1 .. n : list[i] \in fr
    BY <1>2 DEF Entries
<1> HIDE DEF list
<1>5. CASE fits # {}
    <2>1. fits \in SUBSET Nat
        BY <1>1, <1>4 DEF Linked
    <2>2. \A i \in fits : list[i] \in fr /\ Size(h, list[i]) >= k
        BY <1>4
    <2> HIDE DEF fits
    <2>3. \E i \in fits : \A j \in fits : i <= j
        BY <2>1, <1>5, Least
    <2>4. (CHOOSE i \in fits : \A j \in fits : i <= j) \in fits
        BY <2>3
    <2> DEFINE b == list[CHOOSE i \in fits : \A j \in fits : i <= j]
    <2>5. b \in fr /\ Size(h, b) >= k
        BY <2>2, <2>4
    <2>6. FirstFit(h, k) = b
        BY <1>3, <1>5
    <2> HIDE DEF b
    <2>7. Size(h, b) = sz[b]
        BY <2>5, <1>1, SizeIs
    <2> QED
        BY <2>5, <2>6, <2>7
<1>6. CASE fits = {}
    <2> HIDE DEF fits
    <2>1. FirstFit(h, k) = 0
        BY <1>3, <1>6, Zenon
    <2> QED
        BY <2>1, Zenon
<1> QED
    BY <1>5, <1>6

\* A listed block that is large enough is one that can be handed out.
LEMMA FoundListed ==
    ASSUME NEW h, NEW cz, NEW sz, NEW fr, NEW L, NEW n, Whole(h, cz, sz, fr, L, n),
           NEW b \in fr, NEW k, sz[b] >= k
    PROVE  Found(h, h, sz, fr, b, k)
<1>1. DataKept(h, h, sz, fr) /\ SameUsed(sz, fr, sz, fr)
    BY DEF DataKept, SameUsed
<1> QED
    BY <1>1 DEF Whole, Found, Idle

\* The remainder of multiples of p, by a multiple of p, is one.
LEMMA Multiples ==
    ASSUME NEW p \in Nat, p > 0, NEW a \in Nat, a % p = 0, NEW m \in Nat, m > 0, m % p = 0
    PROVE  (a % m) % p = 0
<1> DEFINE x == a \div p
           y == m \div p
           d == a \div m
           r == a % m
           e == r \div p
           f == r % p
<1>1. x \in Nat /\ a = p * x
    BY DivMod
<1>2. y \in Nat /\ m = p * y
    BY DivMod
<1>3. d \in Nat /\ r \in Nat /\ a = m * d + r
    BY DivMod
<1>4. e \in Nat /\ f \in Nat /\ f < p /\ r = p * e + f
    BY <1>3, DivMod
<1> HIDE DEF x, y, d, r, e, f
<1> DEFINE w == y * d + e
<1>5. w \in Nat /\ p * x = p * w + f
    <2>1. y * d \in Nat /\ m * d = p * (y * d)
        BY <1>2, <1>3
    <2>2. p * w = p * (y * d) + p * e
        BY <2>1, <1>4
    <2> QED
        BY <2>1, <2>2, <1>1, <1>3, <1>4
<1> HIDE DEF w
<1>6. \A q \in Nat, u \in Nat : u < p => (p * q + u) % p = u
    BY DivIs
<1>7. (p * w + f) % p = f
    BY <1>4, <1>5, <1>6
<1>8. (p * x + 0) % p = 0
    BY <1>1, <1>6
<1>9. f = 0
    BY <1>1, <1>5, <1>7, <1>8
<1> QED
    BY <1>9 DEF f, r

\* Extensions are of whole pages.
LEMMA ExtendSizeIs ==
    ASSUME NEW k \in Nat
    PROVE  ExtendSize(k) \in Nat /\ ExtendSize(k) % PAGESIZE = 0
<1> DEFINE p == PAGESIZE
           m == Wrap(k + p - 1)
           c == PAGE_ALIGN(k)
<1>0. p \in Nat /\ p > 0 /\ SIZE_MOD \in Nat /\ SIZE_MOD > 0 /\ SIZE_MOD % p = 0 /\ MULTIPLE \in Nat
    BY PageSizeFacts, HeapAssumption
<1>1. m \in Nat
    <2>1. k + p - 1 \in Nat
        BY <1>0
    <2> QED
        BY <2>1, <1>0, DivMod DEF Wrap
<1>2. c = m - (m % p)
    BY DEF PAGE_ALIGN
<1> HIDE DEF c, m, p
<1> DEFINE q == m \div p
<1>3. q \in Nat /\ c = p * q /\ c \in Nat
    <2>1. q \in Nat /\ m = p * q + (m % p) /\ m % p \in 0 .. p - 1
        BY <1>0, <1>1, DivMod
    <2> DEFINE r == m % p
    <2>2. r \in Nat /\ m = p * q + r
        BY <2>1, <1>0
    <2>3. c = m - r
        BY <1>2
    <2> HIDE DEF r, q
    <2> QED
        BY <2>1, <2>2, <2>3, <1>0, <1>1
<1> HIDE DEF q
<1>4. \A x \in Nat, u \in Nat : u < p => (p * x + u) % p = u
    BY <1>0, DivIs
<1>5. p * MULTIPLE \in Nat /\ (p * MULTIPLE) % p = 0
    <2>1. (p * MULTIPLE + 0) % p = 0
        BY <1>0, <1>4
    <2> QED
        BY <2>1, <1>0
<1>6. c * MULTIPLE \in Nat /\ (c * MULTIPLE) % p = 0
    <2> DEFINE w == q * MULTIPLE
    <2>1. w \in Nat /\ c * MULTIPLE = p * w /\ p * w \in Nat
        BY <1>0, <1>3
    <2> HIDE DEF w
    <2>2. (p * w + 0) % p = 0
        BY <2>1, <1>0, <1>4
    <2>3. p * w + 0 = p * w
        BY <2>1
    <2> QED
        BY <2>1, <2>2, <2>3
<1> DEFINE a == c * MULTIPLE
<1>7. Wrap(a) \in Nat /\ Wrap(a) % p = 0
    <2>1. a % SIZE_MOD \in 0 .. SIZE_MOD - 1
        BY <1>0, <1>6, DivMod
    <2> HIDE DEF a
    <2>2. (a % SIZE_MOD) % p = 0
        BY <1>0, <1>6, Multiples DEF a
    <2> QED
        BY <2>1, <2>2, <1>0 DEF Wrap
<1>8. ExtendSize(k) = IF c > p * MULTIPLE THEN Wrap(a) ELSE p * MULTIPLE
    BY DEF ExtendSize, c, p
<1> HIDE DEF a
<1> QED
    BY <1>5, <1>7, <1>8 DEF p

\* mm_malloc hands out one block that was free, or is new, and leaves every
\* other payload in place.
LEMMA MallocIs ==
    ASSUME NEW h, NEW cz, NEW sz, NEW fr, NEW L, NEW n, Whole(h, cz, sz, fr, L, n),
           NEW size \in Nat, SizeFits(size), NEW o \in mm_malloc(h, size)
    PROVE  AllocLeaves(h, o.h, sz, fr, o.bp, newsize(size))
<1> DEFINE k == newsize(size)
           z == ExtendSize(k)
           fit == FirstFit(h, k)
<1>1. k \in Nat /\ k % 16 = 0 /\ k >= 32
    BY NewsizeHolds DEF SizeFits, OVERHEAD
<1>2. z \in Nat /\ z % PAGESIZE = 0 /\ z >= k + 32
    BY <1>1, ExtendSizeIs DEF SizeFits, PAGE_OVERHEAD
<1>3. PICK f : /\ o = set_allocated(f.h, f.bp, k)
               /\ \/ fit # NULL /\ f = Outcome(h, fit)
                  \/ fit = NULL /\ \E s \in Places(h, z) : f = extend(h, s, z)
    BY DEF mm_malloc, With
<1>4. /\ Formed(h, cz, sz, fr, L, n) /\ Entries(L, n) = fr /\ Joined(sz, fr)
      /\ Idle(h, cz, sz, fr) /\ h.home_pg \in DOMAIN cz
    BY DEF Whole
<1>5. fit = 0 \/ (fit \in fr /\ sz[fit] >= k)
    BY <1>1, <1>4, FitIs
<1> HIDE DEF k, z, fit
<1>6. Found(h, f.h, sz, fr, f.bp, k)
    <2>1. CASE fit # NULL /\ f = Outcome(h, fit)
        <3>1. f.h = h /\ f.bp = fit
            BY <2>1 DEF Outcome
        <3>2. Found(h, h, sz, fr, fit, k)
            BY <2>1, <1>5, FoundListed DEF NULL
        <3> QED
            BY <3>1, <3>2
    <2>2. CASE \E s \in Places(h, z) : f = extend(h, s, z)
        <3>1. PICK s \in Places(h, z) : f = extend(h, s, z)
            BY <2>2
        <3>2. h.home_pg # 0
            BY <1>4 DEF Formed, Chunked, Placed
        <3>3. z >= 64
            BY <1>1, <1>2
        <3>4. /\ extend(h, s, z).bp = s + 32
              /\ Found(h, extend(h, s, z).h, sz, fr, s + 32, z - 32)
            BY <3>2, <3>3, <1>2, <1>4, ExtendIs
        <3>5. z - 32 >= k
            BY <1>1, <1>2
        <3>6. Found(h, f.h, sz, fr, f.bp, z - 32)
            BY <3>1, <3>4
        <3> DEFINE g == f.h
                   b == f.bp
        <3> HIDE DEF g, b
        <3>7. PICK cz1, sz1, fr1, L1, n1 :
                  /\ Formed(g, cz1, sz1, fr1, L1, n1) /\ Entries(L1, n1) = fr1
                  /\ Joined(sz1, fr1)
                  /\ \A x \in fr1, t \in DOMAIN cz1 :
                        x # b /\ x = t + 32 /\ x + sz1[x] = t + cz1[t] => t = g.home_pg
                  /\ g.home_pg \in DOMAIN cz1
                  /\ b \in fr1 /\ sz1[b] >= z - 32
                  /\ SameUsed(sz, fr, sz1, fr1)
            BY <3>6 DEF Found, g, b
        <3>8. sz1[b] >= k
            <4>1. sz1[b] \in Nat
                BY <3>7 DEF Formed, Tagged, Tiled
            <4> QED
                BY <4>1, <3>5, <3>7, <1>1, <1>2
        <3>9. DataKept(h, g, sz, fr)
            BY <3>6 DEF Found, g
        <3> QED
            BY <3>7, <3>8, <3>9 DEF Found, g, b
    <2> QED
        BY <2>1, <2>2, <1>3
<1>7. AllocLeaves(h, set_allocated(f.h, f.bp, k).h, sz, fr, f.bp, k) /\ set_allocated(f.h, f.bp, k).bp = f.bp
    BY <1>1, <1>6, SetIs
<1> QED
    BY <1>3, <1>7 DEF k

-----------------------------------------------------------------------------
(* The driver's memset, and its view of a free block.                      *)

\* Only the words of chunks and blocks and the links of free blocks matter.
LEMMA WholeFrame ==
    ASSUME NEW h, NEW cz, NEW sz, NEW fr, NEW L, NEW n, Whole(h, cz, sz, fr, L, n),
           NEW g, Sound(g), Kept(h, g), g.free_start = h.free_start,
           \A s \in DOMAIN cz : /\ GET(g, s + 8) = GET(h, s + 8)
                                /\ GET(g, s + 16) = GET(h, s + 16)
                                /\ GET(g, s + cz[s] - 8) = GET(h, s + cz[s] - 8),
           \A c \in DOMAIN sz : /\ GET(g, c - 8) = GET(h, c - 8)
                                /\ GET(g, c + sz[c] - 16) = GET(h, c + sz[c] - 16),
           \A c \in fr : GET(g, c) = GET(h, c) /\ GET(g, c + 8) = GET(h, c + 8)
    PROVE  Whole(g, cz, sz, fr, L, n)
<1>1. /\ Sound(h) /\ Chunked(h, cz) /\ Tiled(cz, sz) /\ Tagged(h, cz, sz, fr)
      /\ Linked(h, L, n) /\ Entries(L, n) \subseteq DOMAIN sz
      /\ Entries(L, n) = fr /\ Joined(sz, fr) /\ Idle(h, cz, sz, fr) /\ h.home_pg \in DOMAIN cz
    BY DEF Whole, Formed
<1>2. Chunked(g, cz)
    BY <1>1 DEF Chunked, Kept
<1>3. Tagged(g, cz, sz, fr)
    BY <1>1 DEF Tagged
<1>4. Linked(g, L, n)
    <2>1. \A i \in 1 .. n : L[i] \in fr
        BY <1>1 DEF Entries
    <2>2. \A i \in 1 .. n : GET(g, L[i]) = GET(h, L[i]) /\ GET(g, L[i] + 8) = GET(h, L[i] + 8)
        BY <2>1
    <2> QED
        BY <2>2, <1>1, LinkedFrame
<1>5. Formed(g, cz, sz, fr, L, n)
    BY <1>1, <1>2, <1>3, <1>4 DEF Formed
<1>6. Idle(g, cz, sz, fr) /\ g.home_pg \in DOMAIN cz
    BY <1>1 DEF Idle, Kept
<1> QED
    BY <1>1, <1>5, <1>6 DEF Whole

\* What the driver's memset writes.
LEMMA FillIs ==
    ASSUME NEW h, Sound(h), SIZE_MOD > 17, NEW b \in Nat, b % 16 = 0, NEW size \in Nat
    PROVE  LET g == Fill(h, range_t(b, size))
           IN  /\ Sound(g) /\ Kept(h, g) /\ g.free_start = h.free_start
               /\ \A x : GET(g, x) = IF x \in WordsOf(h.mapped) /\ b <= x /\ x < b + size
                                     THEN 17 ELSE GET(h, x)
<1> DEFINE r == range_t(b, size)
           words == {a \in WordsOf(h.mapped) : r.lo < a + BYTE /\ a <= r.hi}
           m == [a \in DOMAIN h.mem \cup words |-> IF a \in words THEN FILL ELSE h.mem[a]]
           g == Fill(h, r)
<1>1. r.lo = b /\ r.hi = b + size - 1
    BY DEF range_t
<1>2. \A x : x \in words <=> x \in WordsOf(h.mapped) /\ b <= x /\ x < b + size
    <2> SUFFICES ASSUME NEW x \in WordsOf(h.mapped)
                 PROVE  b < x + 8 /\ x <= b + size - 1 <=> b <= x /\ x < b + size
        BY <1>1 DEF BYTE
    <2>1. x \in Nat /\ x % 8 = 0
        <3>1. h.mapped \in SUBSET AllPages
            BY DEF Sound
        <3> QED
            BY <3>1, WordSmall
    <2> QED
        BY <2>1
<1>3. g = [mem |-> m, mapped |-> h.mapped, home_pg |-> h.home_pg, free_start |-> h.free_start]
    BY DEF Fill, Sound, IsHeap
<1>4. words \subseteq WordsOf(h.mapped)
    OBVIOUS
<1> HIDE DEF words
<1>5. DOMAIN m = DOMAIN h.mem \cup words
      /\ \A a \in DOMAIN h.mem \cup words : m[a] = IF a \in words THEN 17 ELSE h.mem[a]
    BY DEF FILL
<1> HIDE DEF m, g, r
<1>6. g.mem = m /\ g.mapped = h.mapped /\ g.home_pg = h.home_pg /\ g.free_start = h.free_start
      /\ IsHeap(g)
    BY <1>3 DEF IsHeap
<1>7. Sound(g)
    <2>1. \A a \in DOMAIN m : m[a] \in 0 .. SIZE_MOD - 1
        BY <1>5, PageSizeFacts DEF Sound
    <2>2. DOMAIN m \subseteq WordsOf(h.mapped)
        BY <1>4, <1>5 DEF Sound
    <2>3. h.mapped \subseteq AllPages
        BY DEF Sound
    <2> QED
        BY <2>1, <2>2, <2>3, <1>6 DEF Sound
<1>8. \A x : GET(g, x) = IF x \in words THEN 17 ELSE GET(h, x)
    BY <1>5, <1>6 DEF GET
<1> QED
    BY <1>2, <1>6, <1>7, <1>8 DEF g, r, Kept

\* The payload of a block handed out is filled.
LEMMA FillWhole ==
    ASSUME NEW h, NEW cz, NEW sz, NEW fr, NEW L, NEW n, Whole(h, cz, sz, fr, L, n),
           NEW b \in DOMAIN sz \ fr, NEW size \in Nat, size + 16 <= sz[b]
    PROVE  LET g == Fill(h, range_t(b, size))
           IN  /\ Whole(g, cz, sz, fr, L, n)
               /\ \A x \in Int : b <= x /\ x < b + size /\ x % 8 = 0 => GET(g, x) = 17
               /\ \A x : ~(b <= x /\ x < b + size) => GET(g, x) = GET(h, x)
<1> DEFINE g == Fill(h, range_t(b, size))
<1>1. /\ Sound(h) /\ Chunked(h, cz) /\ Placed(cz) /\ Tiled(cz, sz) /\ Tagged(h, cz, sz, fr)
      /\ fr \subseteq DOMAIN sz
    BY DEF Whole, Formed, Chunked, Tagged
<1>2. /\ b \in Nat /\ b % 16 = 0 /\ b >= 48 /\ b < SIZE_MOD /\ SIZE_MOD \in Nat
      /\ sz[b] \in Nat
    BY <1>1, BlockFacts, PageSizeFacts
<1>3. SIZE_MOD > 17
    BY <1>2
<1>4. /\ Sound(g) /\ Kept(h, g) /\ g.free_start = h.free_start
      /\ \A x : GET(g, x) = IF x \in WordsOf(h.mapped) /\ b <= x /\ x < b + size
                            THEN 17 ELSE GET(h, x)
    BY <1>1, <1>2, <1>3, FillIs
<1> HIDE DEF g
<1>5. \A x : ~(b <= x /\ x < b + size) => GET(g, x) = GET(h, x)
    BY <1>4
<1>6. ASSUME NEW x \in Int, b <= x, x < b + size, x % 8 = 0 PROVE GET(g, x) = 17
    <2>1. x \in WordsOf(h.mapped)
        BY <1>1, <1>2, <1>6, WordBlock
    <2> QED
        BY <2>1, <1>4, <1>6
<1>7. \A c \in DOMAIN sz : c \in Nat /\ sz[c] \in Nat /\ sz[c] >= 32
    BY <1>1 DEF Tiled
<1>8. \A s \in DOMAIN cz : s \in Nat /\ cz[s] \in Nat
    BY <1>1 DEF Placed
\* A word that is not of the block keeps its value.
<1>9. ASSUME NEW s \in DOMAIN cz, NEW x \in {s + 8, s + 16, s + cz[s] - 8}
      PROVE  GET(g, x) = GET(h, x)
    <2>1. x \in Int
        BY <1>8
    <2>2. b - 8 <= x /\ x < b + sz[b] - 8 => FALSE
        BY <2>1, <1>1, OwnWord
    <2>3. ~(b <= x /\ x < b + size)
        BY <2>1, <2>2, <1>2
    <2> QED
        BY <2>3, <1>5
<1>10. ASSUME NEW c \in DOMAIN sz, NEW x \in Int, c - 8 <= x, x < c + sz[c] - 8, c # b
       PROVE  GET(g, x) = GET(h, x)
    <2>1. ~(b - 8 <= x /\ x < b + sz[b] - 8)
        BY <1>1, <1>10, OwnWord
    <2>2. ~(b <= x /\ x < b + size)
        BY <2>1, <1>2
    <2> QED
        BY <2>2, <1>5
<1>11. \A s \in DOMAIN cz : /\ GET(g, s + 8) = GET(h, s + 8)
                            /\ GET(g, s + 16) = GET(h, s + 16)
                            /\ GET(g, s + cz[s] - 8) = GET(h, s + cz[s] - 8)
    BY <1>9
<1>12. \A c \in DOMAIN sz : /\ GET(g, c - 8) = GET(h, c - 8)
                            /\ GET(g, c + sz[c] - 16) = GET(h, c + sz[c] - 16)
    <2> TAKE c \in DOMAIN sz
    <2>1. CASE c = b
        <3>1. ~(b <= c - 8 /\ c - 8 < b + size) /\ ~(b <= c + sz[c] - 16 /\ c + sz[c] - 16 < b + size)
            BY <2>1, <1>2
        <3> QED
            BY <3>1, <1>5
    <2>2. CASE c # b
        BY <2>2, <1>7, <1>10
    <2> QED
        BY <2>1, <2>2
<1>13. \A c \in fr : GET(g, c) = GET(h, c) /\ GET(g, c + 8) = GET(h, c + 8)
    <2> TAKE c \in fr
    <2>1. c \in DOMAIN sz /\ c # b
        BY <1>1
    <2> QED
        BY <2>1, <1>7, <1>10
<1>14. Whole(g, cz, sz, fr, L, n)
    BY <1>4, <1>11, <1>12, <1>13, WholeFrame
<1> QED
    BY <1>5, <1>6, <1>14 DEF g

\* What the driver's checks find of a payload in a block handed out.
LEMMA AcceptsIs ==
    ASSUME NEW h, NEW cz, NEW sz, NEW fr, NEW L, NEW n, Whole(h, cz, sz, fr, L, n),
           NEW b \in DOMAIN sz \ fr, NEW size \in Nat, size > 0, size + 16 <= sz[b],
           NEW rs, \A p \in rs : /\ p.lo \in DOMAIN sz /\ p.lo # b
                                 /\ p.hi \in Int /\ p.hi + 17 <= p.lo + sz[p.lo]
    PROVE  Accepts(rs, range_t(b, size), h.mapped)
<1> DEFINE r == range_t(b, size)
<1>1. /\ Sound(h) /\ Chunked(h, cz) /\ Placed(cz) /\ Tiled(cz, sz)
    BY DEF Whole, Formed, Chunked
<1>2. /\ b \in Nat /\ b % 16 = 0 /\ b >= 48 /\ sz[b] \in Nat
    BY <1>1, BlockFacts
<1>3. r.lo = b /\ r.hi = b + size - 1
    BY DEF range_t
<1>4. PICK s \in DOMAIN cz : s + 32 <= b /\ b + sz[b] <= s + cz[s]
    BY <1>1 DEF Tiled
<1>5. s \in Nat /\ cz[s] \in Nat
    BY <1>1 DEF Placed
<1>6. \A a \in Nat : b <= a /\ a < b + size => a \div PAGESIZE \in h.mapped
    <2> TAKE a \in Nat
    <2> HAVE b <= a /\ a < b + size
    <2>1. s <= a /\ a < s + cz[s]
        BY <1>2, <1>4, <1>5
    <2> QED
        BY <2>1, <1>1, ChunkWord
<1> HIDE DEF r
<1>7. Mapped(r, h.mapped)
    <2>1. ASSUME NEW i \in 0 .. r.hi - r.lo PROVE Page(r.lo + i) \in h.mapped
        <3>1. r.lo + i \in Nat /\ b <= r.lo + i /\ r.lo + i < b + size
            BY <1>2, <1>3
        <3> QED
            BY <3>1, <1>6 DEF Page
    <2>2. Page(r.hi) \in h.mapped
        <3>1. r.hi \in Nat /\ b <= r.hi /\ r.hi < b + size
            BY <1>2, <1>3
        <3> QED
            BY <3>1, <1>6 DEF Page
    <2> QED
        BY <2>1, <2>2 DEF Mapped
<1>8. ASSUME NEW p \in rs PROVE ~EndsInside(r, p)
    <2>1. /\ p.lo \in Nat /\ sz[p.lo] \in Nat
          /\ b + sz[b] <= p.lo \/ p.lo + sz[p.lo] <= b
        BY <1>1 DEF Tiled
    <2> QED
        BY <2>1, <1>2, <1>3 DEF EndsInside
<1>9. r.lo % ALIGNMENT = 0
    BY <1>2, <1>3 DEF ALIGNMENT
<1> QED
    BY <1>7, <1>8, <1>9 DEF Accepts, r

-----------------------------------------------------------------------------
(* The heap between two requests.                                          *)

\* What a free block holds behind its links is dropped.
LEMMA SettleIs ==
    ASSUME NEW h, NEW cz, NEW sz, NEW fr, NEW L, NEW n, Whole(h, cz, sz, fr, L, n)
    PROVE  LET g == Settle(h)
           IN  /\ Whole(g, cz, sz, fr, L, n)
               /\ Kept(h, g)
               /\ DataKept(h, g, sz, fr)
<1> DEFINE g == Settle(h)
           list == FreeList(h)
           rest == {a \in DOMAIN h.mem : \A i \in DOMAIN list : a \notin Inside(h, list[i])}
           m == Restricted(h.mem, rest)
<1>1. /\ Sound(h) /\ Chunked(h, cz) /\ Placed(cz) /\ Tiled(cz, sz) /\ Tagged(h, cz, sz, fr)
      /\ Linked(h, L, n) /\ Entries(L, n) \subseteq DOMAIN sz /\ Entries(L, n) = fr
      /\ fr \subseteq DOMAIN sz
    BY DEF Whole, Formed, Chunked, Tagged
<1>2. list = [i \in 1 .. n |-> L[i]]
    <2>1. LinksIn(h, L, n)
        BY <1>1, LinksInMapped
    <2> QED
        BY <2>1, <1>1, ListIsShort, FreeListIs
<1>3. g = [h EXCEPT !.mem = m]
    BY DEF Settle, With
<1>4. g = [mem |-> m, mapped |-> h.mapped, home_pg |-> h.home_pg, free_start |-> h.free_start]
    BY <1>1, <1>3 DEF Sound, IsHeap
<1>5. DOMAIN m = DOMAIN h.mem \cap rest /\ \A a \in DOMAIN m : m[a] = h.mem[a]
    BY DEF Restricted
<1>6. \A a : a \in rest <=> a \in DOMAIN h.mem /\ \A i \in 1 .. n : a \notin Inside(h, L[i])
    BY <1>2
<1> HIDE DEF m, g, list, rest
<1>7. g.mem = m /\ g.mapped = h.mapped /\ g.home_pg = h.home_pg /\ g.free_start = h.free_start
      /\ IsHeap(g)
    BY <1>4 DEF IsHeap
<1>8. Sound(g)
    <2>1. \A a \in DOMAIN m : m[a] \in 0 .. SIZE_MOD - 1
        BY <1>1, <1>5 DEF Sound
    <2>2. DOMAIN m \subseteq WordsOf(h.mapped) /\ h.mapped \subseteq AllPages
        BY <1>1, <1>5 DEF Sound
    <2> QED
        BY <2>1, <2>2, <1>7 DEF Sound
<1>9. \A c \in DOMAIN sz : c \in Nat /\ sz[c] \in Nat /\ sz[c] >= 32
    BY <1>1 DEF Tiled
<1>10. \A s \in DOMAIN cz : s \in Nat /\ cz[s] \in Nat
    BY <1>1 DEF Placed
<1>11. ASSUME NEW x \in Int, \A c \in fr : ~(c + 16 <= x /\ x < c + sz[c] - 16)
       PROVE  GET(g, x) = GET(h, x)
    <2>1. ASSUME NEW i \in 1 .. n PROVE x \notin Inside(h, L[i])
        <3>1. L[i] \in fr /\ L[i] \in DOMAIN sz
            BY <1>1 DEF Entries
        <3>2. Size(h, L[i]) = sz[L[i]]
            BY <3>1, <1>1, SizeIs
        <3>3. Inside(h, L[i]) = L[i] + 16 .. L[i] + sz[L[i]] - 16 - 1
            BY <3>2 DEF Inside, BYTE, OVERHEAD
        <3> QED
            BY <3>1, <3>3, <1>9, <1>11
    <2>2. x \in DOMAIN h.mem => x \in DOMAIN m
        BY <2>1, <1>5, <1>6
    <2> QED
        BY <2>2, <1>5, <1>7 DEF GET
<1>12. ASSUME NEW s \in DOMAIN cz, NEW x \in {s + 8, s + 16, s + cz[s] - 8}
       PROVE  GET(g, x) = GET(h, x)
    <2>1. x \in Int
        BY <1>10
    <2>2. \A c \in fr : ~(c + 16 <= x /\ x < c + sz[c] - 16)
        <3> TAKE c \in fr
        <3>1. c \in DOMAIN sz
            BY <1>1
        <3>2. c - 8 <= x /\ x < c + sz[c] - 8 => FALSE
            BY <2>1, <3>1, <1>1, OwnWord
        <3> QED
            BY <3>1, <3>2, <2>1, <1>9
    <2> QED
        BY <2>1, <2>2, <1>11
\* The words of a block that are not inside of it.
<1>13. ASSUME NEW b \in DOMAIN sz, NEW x \in Int, b - 8 <= x, x < b + sz[b] - 8,
              b \in fr => ~(b + 16 <= x /\ x < b + sz[b] - 16)
       PROVE  GET(g, x) = GET(h, x)
    <2>1. \A c \in fr : ~(c + 16 <= x /\ x < c + sz[c] - 16)
        <3> TAKE c \in fr
        <3>1. c \in DOMAIN sz
            BY <1>1
        <3>2. CASE c # b
            <4>1. ~(c - 8 <= x /\ x < c + sz[c] - 8)
                BY <3>1, <3>2, <1>1, <1>13, OwnWord
            <4> QED
                BY <4>1, <3>1, <1>9
        <3>3. CASE c = b
            BY <3>3, <1>13
        <3> QED
            BY <3>2, <3>3
    <2> QED
        BY <2>1, <1>11
<1>14. \A s \in DOMAIN cz : /\ GET(g, s + 8) = GET(h, s + 8)
                            /\ GET(g, s + 16) = GET(h, s + 16)
                            /\ GET(g, s + cz[s] - 8) = GET(h, s + cz[s] - 8)
    BY <1>12
<1>15. \A c \in DOMAIN sz : /\ GET(g, c - 8) = GET(h, c - 8)
                            /\ GET(g, c + sz[c] - 16) = GET(h, c + sz[c] - 16)
    BY <1>9, <1>13
<1>16. \A c \in fr : GET(g, c) = GET(h, c) /\ GET(g, c + 8) = GET(h, c + 8)
    <2> TAKE c \in fr
    <2>1. c \in DOMAIN sz
        BY <1>1
    <2> QED
        BY <2>1, <1>9, <1>13
<1>17. Kept(h, g)
    BY <1>7 DEF Kept
<1>18. Whole(g, cz, sz, fr, L, n)
    BY <1>7, <1>8, <1>14, <1>15, <1>16, <1>17, WholeFrame
<1>19. DataKept(h, g, sz, fr)
    <2> SUFFICES ASSUME NEW c \in DOMAIN sz \ fr, NEW x \in Int, c <= x, x < c + sz[c] - 16
                 PROVE  GET(g, x) = GET(h, x)
        BY DEF DataKept
    <2> QED
        BY <1>9, <1>13
<1> QED
    BY <1>17, <1>18, <1>19 DEF g

\* The heap and the payloads in it, as they are between two requests.
Good(h, rs) == \E cz, sz, fr, L, n : Whole(h, cz, sz, fr, L, n) /\ Live(h, rs, sz, fr)

\* A block handed out, and the range of its payload.
LiveRange(h, r, sz, fr) ==
    /\ r = [lo |-> r.lo, hi |-> r.hi]
    /\ r.lo \in DOMAIN sz \ fr
    /\ r.hi \in Int /\ r.hi - r.lo + 1 \in Sizes
    /\ r.hi + 17 <= r.lo + sz[r.lo]
    /\ \A a \in r.lo .. r.hi : a % 8 = 0 => GET(h, a) = 17

\* Live, payload by payload.
LEMMA LiveIs ==
    ASSUME NEW h, NEW rs, NEW sz, NEW fr
    PROVE  Live(h, rs, sz, fr) <=>
               /\ \A r \in rs : LiveRange(h, r, sz, fr)
               /\ \A r, q \in rs : r # q => r.lo # q.lo
               /\ \A b \in DOMAIN sz \ fr : \E r \in rs : r.lo = b
BY DEF Live, LiveRange

\* A payload in a block that is left alone.
LEMMA RangeKept ==
    ASSUME NEW h, NEW g, NEW sz, NEW fr, NEW f1, NEW sz2, NEW fr2, NEW r,
           LiveRange(h, r, sz, fr), r.lo \in DOMAIN sz \ f1,
           \A b \in DOMAIN sz : b \in Nat /\ sz[b] \in Nat,
           DataKept(h, g, sz, f1), r.lo \in DOMAIN sz2 \ fr2, sz2[r.lo] = sz[r.lo]
    PROVE  LiveRange(g, r, sz2, fr2)
<1>1. ASSUME NEW a \in r.lo .. r.hi, a % 8 = 0 PROVE GET(g, a) = 17
    <2>1. r.lo \in Nat /\ sz[r.lo] \in Nat /\ r.hi \in Int /\ r.hi + 17 <= r.lo + sz[r.lo]
        BY DEF LiveRange
    <2>2. a \in Int /\ r.lo <= a /\ a < r.lo + sz[r.lo] - 16
        BY <2>1
    <2>3. GET(g, a) = GET(h, a)
        BY <2>2 DEF DataKept
    <2> QED
        BY <2>3, <1>1 DEF LiveRange
<1> QED
    BY <1>1 DEF LiveRange

\* Dropping what free blocks hold inside leaves a good heap good.
LEMMA SettleGood ==
    ASSUME NEW h, NEW rs, Good(h, rs)
    PROVE  Good(Settle(h), rs)
<1>1. PICK cz, sz, fr, L, n : Whole(h, cz, sz, fr, L, n) /\ Live(h, rs, sz, fr)
    BY DEF Good
<1> DEFINE g == Settle(h)
<1>2. Whole(g, cz, sz, fr, L, n) /\ DataKept(h, g, sz, fr)
    BY <1>1, SettleIs
<1> HIDE DEF g
<1>3. \A b \in DOMAIN sz : b \in Nat /\ sz[b] \in Nat
    BY <1>1 DEF Whole, Formed, Tiled
<1>4. \A r \in rs : LiveRange(h, r, sz, fr)
    BY <1>1, LiveIs
<1>5. ASSUME NEW r \in rs PROVE LiveRange(g, r, sz, fr)
    <2>1. LiveRange(h, r, sz, fr) /\ r.lo \in DOMAIN sz \ fr
        BY <1>4 DEF LiveRange
    <2> QED
        BY <2>1, <1>2, <1>3, RangeKept
<1>6. Live(g, rs, sz, fr)
    BY <1>1, <1>5, LiveIs
<1> QED
    BY <1>2, <1>6 DEF Good, g

\* mm_free of a payload that is held leaves a good heap, without that payload.
LEMMA FreeGood ==
    ASSUME NEW h, NEW rs, Good(h, rs), NEW old \in rs
    PROVE  Good(mm_free(h, old.lo), remove_range(rs, old.lo))
<1>1. PICK cz, sz, fr, L, n : Whole(h, cz, sz, fr, L, n) /\ Live(h, rs, sz, fr)
    BY DEF Good
<1> DEFINE b == old.lo
           g == mm_free(h, b)
           f1 == fr \cup {b}
           left == remove_range(rs, b)
<1>2. /\ \A r \in rs : LiveRange(h, r, sz, fr)
      /\ \A r, q \in rs : r # q => r.lo # q.lo
      /\ \A c \in DOMAIN sz \ fr : \E r \in rs : r.lo = c
    BY <1>1, LiveIs
<1>3. b \in DOMAIN sz \ fr
    BY <1>2 DEF LiveRange
<1> HIDE DEF g
<1>4. FreeLeaves(h, g, sz, f1)
    BY <1>1, <1>3, FreeIs DEF g
<1>5. PICK cz2, sz2, fr2, L2, n2 : Whole(g, cz2, sz2, fr2, L2, n2) /\ SameUsed(sz, f1, sz2, fr2)
    BY <1>4 DEF FreeLeaves
<1>6. DataKept(h, g, sz, f1)
    BY <1>4 DEF FreeLeaves
<1>7. \A c \in DOMAIN sz : c \in Nat /\ sz[c] \in Nat
    BY <1>1 DEF Whole, Formed, Tiled
<1>8. left = {r \in rs : r.lo # b}
    BY DEF remove_range
<1> HIDE DEF left
<1>9. DOMAIN sz2 \ fr2 = DOMAIN sz \ f1 /\ \A x \in DOMAIN sz \ f1 : sz2[x] = sz[x]
    BY <1>5 DEF SameUsed
<1>10. ASSUME NEW r \in left PROVE LiveRange(g, r, sz2, fr2)
    <2>1. LiveRange(h, r, sz, fr) /\ r.lo \in DOMAIN sz \ f1
        BY <1>2, <1>8 DEF LiveRange
    <2>2. r.lo \in DOMAIN sz2 \ fr2 /\ sz2[r.lo] = sz[r.lo]
        BY <2>1, <1>9
    <2> HIDE DEF f1
    <2> QED
        BY <2>1, <2>2, <1>6, <1>7, RangeKept
<1>11. Live(g, left, sz2, fr2)
    <2>1. \A c \in DOMAIN sz2 \ fr2 : \E r \in left : r.lo = c
        BY <1>2, <1>8, <1>9
    <2>2. \A r, q \in left : r # q => r.lo # q.lo
        BY <1>2, <1>8
    <2> QED
        BY <2>1, <2>2, <1>10, LiveIs
<1> QED
    BY <1>5, <1>11 DEF Good, g, left

\* mm_malloc writes to no unmapped page, its payload passes every check of the
\* driver, and once it is filled the heap is good, with that payload.
LEMMA AllocGood ==
    ASSUME NEW h, NEW rs, Good(h, rs), NEW size \in Sizes, SizeFits(size),
           NEW o \in mm_malloc(h, size)
    PROVE  LET r == range_t(o.bp, size)
           IN  /\ ~Segv(o.h)
               /\ \A p \in rs : p.lo # o.bp
               /\ \A qs \in SUBSET rs : Accepts(qs, r, o.h.mapped)
               /\ Good(Fill(o.h, r), rs \cup {r})
<1>0. size \in Nat /\ size > 0
    BY RangeAssumption
<1>1. PICK cz, sz, fr, L, n : Whole(h, cz, sz, fr, L, n) /\ Live(h, rs, sz, fr)
    BY DEF Good
<1> DEFINE b == o.bp
           h1 == o.h
           r == range_t(b, size)
           g == Fill(h1, r)
           k == newsize(size)
<1>2. AllocLeaves(h, h1, sz, fr, b, k)
    BY <1>0, <1>1, MallocIs
<1>3. k \in Nat /\ k >= size + 16
    BY <1>0, NewsizeHolds DEF SizeFits, OVERHEAD
<1> HIDE DEF b, h1, k
<1>4. PICK cz2, sz2, fr2, L2, n2 :
          /\ Whole(h1, cz2, sz2, fr2, L2, n2)
          /\ b \in DOMAIN sz2 \ fr2 /\ sz2[b] >= k
          /\ SameUsed(sz, fr, sz2, fr2 \cup {b})
    BY <1>2 DEF AllocLeaves
<1>5. DataKept(h, h1, sz, fr)
    BY <1>2 DEF AllocLeaves
<1>6. /\ \A p \in rs : LiveRange(h, p, sz, fr)
      /\ \A p, q \in rs : p # q => p.lo # q.lo
      /\ \A c \in DOMAIN sz \ fr : \E p \in rs : p.lo = c
    BY <1>1, LiveIs
<1>7. \A c \in DOMAIN sz : c \in Nat /\ sz[c] \in Nat
    BY <1>1 DEF Whole, Formed, Tiled
<1>8. \A c \in DOMAIN sz2 : c \in Nat /\ sz2[c] \in Nat
    BY <1>4 DEF Whole, Formed, Tiled
<1>9. DOMAIN sz2 \ (fr2 \cup {b}) = DOMAIN sz \ fr /\ \A x \in DOMAIN sz \ fr : sz2[x] = sz[x]
    BY <1>4 DEF SameUsed
<1>10. ASSUME NEW p \in rs
       PROVE  LiveRange(h1, p, sz2, fr2) /\ p.lo # b /\ p.lo \in DOMAIN sz2
    <2>1. LiveRange(h, p, sz, fr) /\ p.lo \in DOMAIN sz \ fr
        BY <1>6 DEF LiveRange
    <2>2. p.lo \in DOMAIN sz2 \ fr2 /\ sz2[p.lo] = sz[p.lo] /\ p.lo # b
        BY <2>1, <1>9
    <2> QED
        BY <2>1, <2>2, <1>5, <1>7, RangeKept
<1>11. size + 16 <= sz2[b]
    BY <1>0, <1>3, <1>4, <1>8
<1>12. ~Segv(h1)
    BY <1>4 DEF Segv, Whole, Formed, Sound
<1>13. ASSUME NEW qs \in SUBSET rs PROVE Accepts(qs, r, h1.mapped)
    <2>1. \A p \in qs : /\ p.lo \in DOMAIN sz2 /\ p.lo # b
                        /\ p.hi \in Int /\ p.hi + 17 <= p.lo + sz2[p.lo]
        BY <1>10 DEF LiveRange
    <2> QED
        BY <2>1, <1>0, <1>4, <1>11, AcceptsIs
<1>14. /\ Whole(g, cz2, sz2, fr2, L2, n2)
       /\ \A x \in Int : b <= x /\ x < b + size /\ x % 8 = 0 => GET(g, x) = 17
       /\ \A x : ~(b <= x /\ x < b + size) => GET(g, x) = GET(h1, x)
    BY <1>0, <1>4, <1>11, FillWhole
<1> HIDE DEF g
<1>15. DataKept(h1, g, sz2, fr2 \cup {b})
    <2> SUFFICES ASSUME NEW c \in DOMAIN sz2 \ (fr2 \cup {b}), NEW x \in Int, c <= x, x < c + sz2[c] - 16
                 PROVE  GET(g, x) = GET(h1, x)
        BY DEF DataKept
    <2>1. c + sz2[c] <= b \/ b + sz2[b] <= c
        BY <1>4 DEF Whole, Formed, Tiled
    <2>2. ~(b <= x /\ x < b + size)
        BY <2>1, <1>0, <1>4, <1>8, <1>11
    <2> QED
        BY <2>2, <1>14
<1>16. ASSUME NEW p \in rs PROVE LiveRange(g, p, sz2, fr2)
    <2>1. LiveRange(h1, p, sz2, fr2) /\ p.lo \in DOMAIN sz2 \ (fr2 \cup {b})
        BY <1>10 DEF LiveRange
    <2>2. p.lo \in DOMAIN sz2 \ fr2
        BY <2>1
    <2> QED
        BY <2>1, <2>2, <1>8, <1>15, RangeKept
<1>17. r = [lo |-> r.lo, hi |-> r.hi] /\ r.lo = b /\ r.hi = b + size - 1
    BY DEF range_t
<1> HIDE DEF r
<1>18. LiveRange(g, r, sz2, fr2)
    <2>1. b \in Nat /\ r.hi \in Int /\ r.hi - r.lo + 1 = size /\ r.hi + 17 = b + size + 16
        BY <1>0, <1>4, <1>8, <1>17
    <2>2. \A a \in r.lo .. r.hi : a % 8 = 0 => GET(g, a) = 17
        BY <2>1, <1>0, <1>14, <1>17
    <2>3. r.hi + 17 <= r.lo + sz2[r.lo]
        BY <2>1, <1>0, <1>4, <1>8, <1>11, <1>17
    <2> QED
        BY <2>1, <2>2, <2>3, <1>4, <1>17 DEF LiveRange
<1>19. Live(g, rs \cup {r}, sz2, fr2)
    <2>1. \A p, q \in rs \cup {r} : p # q => p.lo # q.lo
        BY <1>6, <1>10, <1>17
    <2>2. \A c \in DOMAIN sz2 \ fr2 : \E p \in rs \cup {r} : p.lo = c
        <3> TAKE c \in DOMAIN sz2 \ fr2
        <3>1. CASE c = b
            BY <3>1, <1>17
        <3>2. CASE c # b
            BY <3>2, <1>6, <1>9
        <3> QED
            BY <3>1, <3>2
    <2>3. \A p \in rs \cup {r} : LiveRange(g, p, sz2, fr2)
        BY <1>16, <1>18
    <2> DEFINE all == rs \cup {r}
    <2> HIDE DEF all
    <2>4. Live(g, all, sz2, fr2)
        BY <2>1, <2>2, <2>3, LiveIs DEF all
    <2> QED
        BY <2>4 DEF all
<1>20. Good(g, rs \cup {r})
    BY <1>14, <1>19 DEF Good
<1> QED
    BY <1>10, <1>12, <1>13, <1>20 DEF b, h1, r, g

-----------------------------------------------------------------------------
(* mm_init.                                                                *)

\* A heap without pages.
Bare(h) == IsHeap(h) /\ h.mem = <<>> /\ h.mapped = {} /\ h.home_pg = 0 /\ h.free_start = 0

\* A heap without pages is formed.
LEMMA BareFormed ==
    ASSUME NEW h, Bare(h)
    PROVE  Formed(h, <<>>, <<>>, {}, <<>>, 0)
<1>1. DOMAIN <<>> = {} /\ 1 .. 0 = {}
    OBVIOUS
<1>2. DOMAIN h.mem = {} /\ h.mapped = {} /\ h.free_start = 0 /\ IsHeap(h)
    BY <1>1 DEF Bare
<1>3. Sound(h)
    BY <1>2 DEF Sound
<1>4. Placed(<<>>)
    BY <1>1 DEF Placed
<1>5. Chunked(h, <<>>)
    BY <1>1, <1>2, <1>4 DEF Chunked
<1>6. Tiled(<<>>, <<>>)
    BY <1>1 DEF Tiled
<1>7. Tagged(h, <<>>, <<>>, {})
    BY <1>1 DEF Tagged
<1>8. Linked(h, <<>>, 0)
    BY <1>1, <1>2 DEF Linked
<1>9. Entries(<<>>, 0) \subseteq DOMAIN <<>>
    BY <1>1 DEF Entries
<1> QED
    BY <1>3, <1>5, <1>6, <1>7, <1>8, <1>9 DEF Formed

\* mm_init gives a heap of one chunk, the home page, and no payload.
LEMMA BareGood ==
    ASSUME NEW h, Bare(h), NEW size \in Nat, size % PAGESIZE = 0, size >= 64,
           NEW s \in Places(h, size)
    PROVE  Good(extend(h, s, size).h, {})
<1> DEFINE g == extend(h, s, size).h
           none == <<>>
           b == s + 32
           k == size - 32
<1>1. DOMAIN none = {} /\ 1 .. 0 = {}
    OBVIOUS
<1>2. h.home_pg = 0
    BY DEF Bare
<1>3. Formed(h, none, none, {}, none, 0)
    BY BareFormed
<1>4. Entries(none, 0) = {}
    BY <1>1 DEF Entries
<1>5. Joined(none, {}) /\ Idle(h, none, none, {})
    BY DEF Joined, Idle
<1>6. s \in Nat
    <2>1. Placed(none) /\ Chunked(h, none) /\ Sound(h)
        BY <1>3 DEF Formed, Chunked
    <2> QED
        BY <2>1, PlaceIs
<1>7. Found(h, g, none, {}, b, k) /\ g.home_pg = s
    <2>1. (h.home_pg = 0 /\ none = <<>>) \/ (h.home_pg # 0 /\ h.home_pg \in DOMAIN none)
        BY <1>2
    <2> DEFINE empty == {}
               zero == 0
    <2>3. Formed(h, none, none, empty, none, zero) /\ Entries(none, zero) = empty
          /\ Joined(none, empty) /\ Idle(h, none, none, empty)
        BY <1>3, <1>4, <1>5
    <2> HIDE DEF none, empty, zero
    <2>2. /\ extend(h, s, size).bp = s + 32
          /\ Found(h, extend(h, s, size).h, none, empty, s + 32, size - 32)
          /\ extend(h, s, size).h.home_pg = IF h.home_pg = 0 THEN s ELSE h.home_pg
        BY <2>1, <2>3, ExtendIs
    <2> QED
        BY <1>2, <2>2 DEF empty
<1> HIDE DEF g, none, k
<1>8. PICK cz, sz, fr, L, n :
          /\ Formed(g, cz, sz, fr, L, n) /\ Entries(L, n) = fr
          /\ Joined(sz, fr)
          /\ \A x \in fr, t \in DOMAIN cz :
                x # b /\ x = t + 32 /\ x + sz[x] = t + cz[t] => t = g.home_pg
          /\ g.home_pg \in DOMAIN cz
          /\ b \in fr /\ sz[b] >= k
          /\ SameUsed(none, {}, sz, fr)
    BY <1>7 DEF Found
<1>9. Idle(g, cz, sz, fr)
    <2> SUFFICES ASSUME NEW x \in fr, NEW t \in DOMAIN cz, x = t + 32, x + sz[x] = t + cz[t]
                 PROVE  t = g.home_pg
        BY DEF Idle
    <2>1. CASE x = b
        <3>1. t \in Nat
            BY <1>8 DEF Formed, Chunked, Placed
        <3> QED
            BY <3>1, <2>1, <1>6, <1>7
    <2>2. CASE x # b
        BY <2>2, <1>8
    <2> QED
        BY <2>1, <2>2
<1>10. Whole(g, cz, sz, fr, L, n)
    BY <1>8, <1>9 DEF Whole
<1>11. DOMAIN sz \ fr = {}
    BY <1>1, <1>8 DEF SameUsed
<1>12. Live(g, {}, sz, fr)
    BY <1>11, LiveIs
<1> QED
    BY <1>10, <1>12 DEF Good, g

\* An assignment to the two pointers.
LEMMA Pointers ==
    ASSUME NEW h, IsHeap(h), NEW v
    PROVE  [h EXCEPT !.home_pg = v, !.free_start = v]
               = [mem |-> h.mem, mapped |-> h.mapped, home_pg |-> v, free_start |-> v]
<1> DEFINE d == [h EXCEPT !.home_pg = v]
<1>1. d = [mem |-> h.mem, mapped |-> h.mapped, home_pg |-> v, free_start |-> h.free_start]
    BY DEF IsHeap
<1>2. [h EXCEPT !.home_pg = v, !.free_start = v] = [d EXCEPT !.free_start = v]
    OBVIOUS
<1> HIDE DEF d
<1>3. [d EXCEPT !.free_start = v]
          = [mem |-> h.mem, mapped |-> h.mapped, home_pg |-> v, free_start |-> v]
    BY <1>1
<1> QED
    BY <1>2, <1>3

\* mm_init gives a good heap, without payloads.
LEMMA InitGood ==
    ASSUME NEW h, IsHeap(h), h.mem = <<>>, h.mapped = {}, NEW g \in mm_init(h)
    PROVE  Good(g, {})
<1> DEFINE size == PAGESIZE * HOMEPG_MULTIPLE
           c == [h EXCEPT !.home_pg = NULL, !.free_start = NULL]
<1>1. c = [mem |-> h.mem, mapped |-> h.mapped, home_pg |-> NULL, free_start |-> NULL]
    BY Pointers
<1>2. Bare(c)
    BY <1>1 DEF Bare, IsHeap, NULL
<1>3. size \in Nat /\ size % PAGESIZE = 0 /\ size >= 64
    <2>1. HOMEPG_MULTIPLE \in Nat /\ size >= 64 /\ PAGESIZE \in Nat /\ PAGESIZE > 0
        BY HeapAssumption, PageSizeFacts
    <2>2. \A q \in Nat, u \in Nat : u < PAGESIZE => (PAGESIZE * q + u) % PAGESIZE = u
        BY <2>1, DivIs
    <2>3. (PAGESIZE * HOMEPG_MULTIPLE + 0) % PAGESIZE = 0
        BY <2>1, <2>2
    <2> QED
        BY <2>1, <2>3
<1>4. g \in {extend(c, start, size).h : start \in Places(h, size)}
    BY DEF mm_init
<1>5. Places(c, size) = Places(h, size)
    <2>1. c.mapped = h.mapped
        BY <1>1
    <2> QED
        BY <2>1 DEF Places
<1> HIDE DEF c, size
<1>6. PICK s \in Places(c, size) : g = extend(c, s, size).h
    BY <1>4, <1>5
<1> QED
    BY <1>2, <1>3, <1>6, BareGood

-----------------------------------------------------------------------------
(* Which steps map and unmap pages.                                        *)

\* A write changes no page.
Written(h, g) == IsHeap(g) /\ g.mapped = h.mapped

\* PUT, Mark, push_free, pop_free, set_allocated and coalesce map and unmap no page.
LEMMA PutWrites ==
    ASSUME NEW h, NEW g, Written(h, g), NEW a, NEW v
    PROVE  Written(h, PUT(g, a, v))
BY PutGet DEF Written

LEMMA MarkWrites ==
    ASSUME NEW h, NEW g, Written(h, g), NEW b, NEW z, NEW alloc
    PROVE  Written(h, Mark(g, b, z, alloc))
BY PutWrites DEF Mark

LEMMA StartWrites ==
    ASSUME NEW h, NEW g, Written(h, g), NEW b
    PROVE  Written(h, [g EXCEPT !.free_start = b])
BY FreeStartIs DEF Written, Kept

LEMMA PushWrites ==
    ASSUME NEW h, NEW g, Written(h, g), NEW b
    PROVE  Written(h, push_free(g, b))
<1> DEFINE g1 == [g EXCEPT !.free_start = b]
           g2 == PUT(PUT(g1, prev(b), NULL), next(b), g.free_start)
<1>1. Written(h, g1)
    BY StartWrites
<1> HIDE DEF g1
<1>2. Written(h, g2)
    BY <1>1, PutWrites
<1>3. Written(h, PUT(g2, prev(g.free_start), b))
    BY <1>2, PutWrites
<1>4. push_free(g, b) = g2 \/ push_free(g, b) = PUT(g2, prev(g.free_start), b)
    BY DEF push_free, g1
<1> QED
    BY <1>2, <1>3, <1>4

LEMMA PopWrites ==
    ASSUME NEW h, NEW g, Written(h, g), NEW b
    PROVE  Written(h, pop_free(g, b))
<1> DEFINE p == GET(g, prev(b))
           n == GET(g, next(b))
           g1 == [g EXCEPT !.free_start = n]
           g2 == [g EXCEPT !.free_start = NULL]
           a1 == PUT(PUT(g, next(p), n), prev(n), p)
           a2 == PUT(g, next(p), NULL)
           a3 == PUT(g1, prev(n), NULL)
           a4 == PUT(PUT(g2, prev(g.free_start), NULL), next(g.free_start), NULL)
<1>1. pop_free(g, b) \in {a1, a2, a3, a4}
    <2>1. CASE p # NULL /\ n # NULL
        BY <2>1 DEF pop_free
    <2>2. CASE p # NULL /\ n = NULL
        BY <2>2 DEF pop_free
    <2>3. CASE p = NULL /\ n # NULL
        BY <2>3 DEF pop_free
    <2>4. CASE p = NULL /\ n = NULL
        BY <2>4 DEF pop_free
    <2> QED
        BY <2>1, <2>2, <2>3, <2>4
<1>2. Written(h, g1) /\ Written(h, g2)
    BY StartWrites
<1> HIDE DEF g1, g2, p, n
<1>3. Written(h, a1) /\ Written(h, a2) /\ Written(h, a3) /\ Written(h, a4)
    BY <1>2, PutWrites
<1> HIDE DEF a1, a2, a3, a4
<1> QED
    BY <1>1, <1>3

LEMMA SetWrites ==
    ASSUME NEW h, NEW g, Written(h, g), NEW b, NEW k
    PROVE  Written(h, set_allocated(g, b, k).h)
<1> DEFINE rest == Wrap(Size(g, b) - k)
           after == Wrap(b + k)
           h1 == pop_free(Mark(g, b, k, 1), b)
           a1 == push_free(Mark(h1, after, rest, 0), after)
           a2 == pop_free(Mark(g, b, Size(g, b), 1), b)
<1>1. set_allocated(g, b, k).h = a1 \/ set_allocated(g, b, k).h = a2
    BY SetUnfolds
<1>2. Written(h, a1)
    BY MarkWrites, PopWrites, PushWrites
<1>3. Written(h, a2)
    BY MarkWrites, PopWrites
<1> QED
    BY <1>1, <1>2, <1>3

\* extend maps pages and unmaps none.
LEMMA ExtendGrows ==
    ASSUME NEW h, IsHeap(h), NEW s, NEW size
    PROVE  LET g == extend(h, s, size).h
           IN  IsHeap(g) /\ h.mapped \subseteq g.mapped
<1> DEFINE m == mem_map(h, s, size)
           h1 == Chunk(h, s, size)
           h2 == push_free(h1, s + 32)
           home == IF h2.home_pg = NULL THEN s ELSE h2.home_pg
           g == [h2 EXCEPT !.home_pg = home]
<1>1. extend(h, s, size).h = g
    BY ExtendUnfolds
<1>2. IsHeap(m) /\ h.mapped \subseteq m.mapped
    <2>1. m = [mem |-> h.mem, mapped |-> h.mapped \cup Pages(s, size),
               home_pg |-> h.home_pg, free_start |-> h.free_start]
        BY DEF mem_map, IsHeap
    <2> QED
        BY <2>1 DEF IsHeap
<1>3. Written(m, m)
    BY <1>2 DEF Written
<1>4. Written(m, h1)
    <2> HIDE DEF m
    <2> QED
        BY <1>3, PutWrites, MarkWrites DEF Chunk, m
<1> HIDE DEF m, h1
<1>5. Written(m, h2)
    BY <1>4, PushWrites
<1> HIDE DEF h2, home
<1>6. g = [mem |-> h2.mem, mapped |-> h2.mapped, home_pg |-> home, free_start |-> h2.free_start]
    BY <1>5 DEF Written, IsHeap
<1> HIDE DEF g
<1>7. IsHeap(g) /\ g.mapped = h2.mapped
    BY <1>6 DEF IsHeap
<1> QED
    BY <1>1, <1>2, <1>5, <1>7 DEF Written

\* mm_malloc maps pages and unmaps none.
LEMMA MallocGrows ==
    ASSUME NEW h, IsHeap(h), NEW size, NEW o \in mm_malloc(h, size)
    PROVE  h.mapped \subseteq o.h.mapped
<1> DEFINE k == newsize(size)
           z == ExtendSize(k)
           fit == FirstFit(h, k)
<1>1. PICK f : /\ o = set_allocated(f.h, f.bp, k)
               /\ \/ fit # NULL /\ f = Outcome(h, fit)
                  \/ fit = NULL /\ \E s \in Places(h, z) : f = extend(h, s, z)
    BY DEF mm_malloc, With
<1> HIDE DEF k, z, fit
<1>2. IsHeap(f.h) /\ h.mapped \subseteq f.h.mapped
    <2>1. CASE f = Outcome(h, fit)
        BY <2>1 DEF Outcome
    <2>2. CASE \E s \in Places(h, z) : f = extend(h, s, z)
        BY <2>2, ExtendGrows
    <2> QED
        BY <2>1, <2>2, <1>1
<1>3. Written(f.h, f.h)
    BY <1>2 DEF Written
<1>4. Written(f.h, set_allocated(f.h, f.bp, k).h)
    BY <1>3, SetWrites
<1> QED
    BY <1>1, <1>2, <1>4 DEF Written

\* Neither does coalesce.
LEMMA CoalesceWrites ==
    ASSUME NEW h, NEW g, Written(h, g), NEW b
    PROVE  Written(h, coalesce(g, b).h)
<1> DEFINE before == PREV(g, b)
           after == NEXT(g, b)
           p == GET_ALLOC(g, FTRP(g, before)) = 1
           q == GET_ALLOC(g, HDRP(after)) = 1
           size == Size(g, b)
           a1 == push_free(g, b)
           a2 == push_free(Mark(pop_free(g, after), b, size + Size(g, after), 0), b)
           a3 == Mark(g, before, Size(g, before) + size, 0)
           a4 == Mark(pop_free(g, after), before, Size(g, before) + size + Size(g, after), 0)
<1>1. coalesce(g, b).h \in {a1, a2, a3, a4}
    <2>1. CASE p /\ q
        BY <2>1 DEF coalesce, Outcome
    <2>2. CASE p /\ ~q
        BY <2>2 DEF coalesce, Outcome, With
    <2>3. CASE ~p /\ q
        BY <2>3 DEF coalesce, Outcome
    <2>4. CASE ~p /\ ~q
        BY <2>4 DEF coalesce, Outcome
    <2> QED
        BY <2>1, <2>2, <2>3, <2>4
<1> HIDE DEF before, after, size, p, q
<1>2. Written(h, a1)
    BY PushWrites
<1>3. Written(h, a2)
    BY PopWrites, MarkWrites, PushWrites
<1>4. Written(h, a3)
    BY MarkWrites
<1>5. Written(h, a4)
    BY PopWrites, MarkWrites
<1> HIDE DEF a1, a2, a3, a4
<1> QED
    BY <1>1, <1>2, <1>3, <1>4, <1>5

\* mm_free unmaps pages and maps none.
LEMMA FreeShrinks ==
    ASSUME NEW h, IsHeap(h), NEW b
    PROVE  mm_free(h, b).mapped \subseteq h.mapped
<1> DEFINE h1 == Mark(h, b, Size(h, b), 0)
           o == coalesce(h1, b)
           start == Wrap(o.bp - 32)
           h2 == pop_free(o.h, o.bp)
           z == Size(o.h, o.bp) + 32
<1>1. mm_free(h, b) = o.h \/ mm_free(h, b) = mem_unmap(h2, start, z)
    BY FreeUnfolds
<1>2. Written(h, h)
    BY DEF Written
<1>3. Written(h, o.h)
    BY <1>2, MarkWrites, CoalesceWrites
<1> HIDE DEF o
<1>4. Written(h, h2)
    BY <1>3, PopWrites
<1> HIDE DEF h2, start, z
<1>5. mem_unmap(h2, start, z).mapped \subseteq h.mapped
    <2> DEFINE left == h2.mapped \ Pages(start, z)
               m == Restricted(h2.mem, WordsOf(left))
               u == [h2 EXCEPT !.mapped = left, !.mem = m]
               v == PUT(h2, NULL, GARBAGE)
    <2>1. mem_unmap(h2, start, z) = u \/ mem_unmap(h2, start, z) = v
        BY DEF mem_unmap
    <2>2. Written(h, v)
        BY <1>4, PutWrites
    <2>3. "mapped" \in DOMAIN h2
        BY <1>4 DEF Written, IsHeap
    <2> HIDE DEF left, m
    <2>4. u.mapped = left
        BY <2>3
    <2> QED
        BY <2>1, <2>2, <2>4, <1>4 DEF Written, left
<1> QED
    BY <1>1, <1>3, <1>5 DEF Written

-----------------------------------------------------------------------------
(* The invariant.                                                          *)

\* No request falls into the band of sizes for which a new chunk is too small,
\* or near the end of size_t.
SizesFit == \A size \in Sizes : SizeFits(size)

\* The heap between two requests.
Inv == status = "ok" /\ Good(heap, ranges)

\* A good heap has its words on mapped pages.
LEMMA GoodIsSound ==
    ASSUME NEW h, NEW rs, Good(h, rs)
    PROVE  Sound(h)
BY DEF Good, Whole, Formed

\* Neither the kernel's pages nor what is handed out changes with the rest.
LEMMA SettleKeeps ==
    ASSUME NEW h, NEW rs, Good(h, rs)
    PROVE  Good(Settle(h), rs) /\ Settle(h).mapped = h.mapped
BY SettleGood, SettleIs DEF Good, Kept

\* A payload handed out lies on mapped pages, on an aligned address.
LEMMA GoodPayload ==
    ASSUME NEW h, NEW rs, Good(h, rs), NEW r \in rs
    PROVE  /\ r.lo \in AddressSpace /\ r.lo % 16 = 0 /\ r.lo >= 48
           /\ r.hi \in Int /\ r.hi - r.lo + 1 \in Sizes
           /\ \A a \in r.lo .. r.hi : Page(a) \in h.mapped
<1>1. PICK cz, sz, fr, L, n : Whole(h, cz, sz, fr, L, n) /\ Live(h, rs, sz, fr)
    BY DEF Good
<1>2. Sound(h) /\ Chunked(h, cz) /\ Placed(cz) /\ Tiled(cz, sz)
    BY <1>1 DEF Whole, Formed, Chunked
<1>3. /\ r.lo \in DOMAIN sz /\ r.hi \in Int /\ r.hi - r.lo + 1 \in Sizes
      /\ r.hi + 17 <= r.lo + sz[r.lo]
    BY <1>1, LiveIs DEF LiveRange
<1> DEFINE b == r.lo
<1>4. b \in DOMAIN sz
    BY <1>3
<1> HIDE DEF b
<1>5. b \in Nat /\ b % 16 = 0 /\ b >= 48 /\ sz[b] \in Nat
    BY <1>4, <1>2, BlockFacts
<1>6. PICK s \in DOMAIN cz : s + 32 <= b /\ b + sz[b] <= s + cz[s]
    BY <1>4, <1>2, BlockFacts
<1>7. s \in Nat /\ cz[s] \in Nat
    BY <1>2 DEF Placed
<1>8. r.hi - b + 1 > 0
    <2> DEFINE k == r.hi - b + 1
    <2>1. k \in Sizes
        BY <1>3 DEF b
    <2> HIDE DEF k
    <2>2. k \in Nat /\ k > 0
        BY <2>1, RangeAssumption
    <2> QED
        BY <2>2 DEF k
<1>9. ASSUME NEW a \in b .. r.hi PROVE a \div PAGESIZE \in h.mapped
    <2>1. r.hi + 17 <= b + sz[b] /\ r.hi \in Int
        BY <1>3 DEF b
    <2>2. a \in Nat /\ b <= a /\ a <= r.hi
        BY <2>1, <1>5
    <2> DEFINE hi == r.hi
    <2>3. hi + 17 <= b + sz[b] /\ hi \in Int /\ a <= hi
        BY <2>1, <2>2
    <2> HIDE DEF hi
    <2>4. s <= a /\ a < s + cz[s]
        BY <2>2, <2>3, <1>5, <1>6, <1>7
    <2> QED
        BY <2>2, <2>4, <1>2, ChunkWord
<1>10. b \in AddressSpace
    <2>1. b \in WordsOf(h.mapped)
        <3>1. s <= b /\ b < s + cz[s] /\ b % 8 = 0
            <4>1. r.hi + 17 <= b + sz[b] /\ r.hi \in Int
                BY <1>3 DEF b
            <4> QED
                BY <4>1, <1>5, <1>6, <1>7, <1>8
        <3> QED
            BY <3>1, <1>2, <1>5, ChunkWord
    <2>2. h.mapped \in SUBSET AllPages
        BY <1>2 DEF Sound
    <2>3. b >= PAGESIZE /\ b < PAGESIZE * (NPages + 1)
        BY <2>1, <2>2, WordSmall
    <2> QED
        BY <2>3, <1>5, PageSizeFacts DEF AddressSpace
<1> QED
    BY <1>3, <1>5, <1>9, <1>10 DEF b, Page

\* Two payloads handed out share no byte.
LEMMA GoodApart ==
    ASSUME NEW h, NEW rs, Good(h, rs), NEW r \in rs, NEW q \in rs, r # q
    PROVE  (r.lo .. r.hi) \cap (q.lo .. q.hi) = {}
<1>1. PICK cz, sz, fr, L, n : Whole(h, cz, sz, fr, L, n) /\ Live(h, rs, sz, fr)
    BY DEF Good
<1>2. /\ r.lo \in DOMAIN sz /\ r.hi \in Int /\ r.hi + 17 <= r.lo + sz[r.lo]
      /\ q.lo \in DOMAIN sz /\ q.hi \in Int /\ q.hi + 17 <= q.lo + sz[q.lo]
      /\ r.lo # q.lo
    BY <1>1, LiveIs DEF LiveRange
<1> DEFINE b == r.lo
           c == q.lo
<1>3. b \in DOMAIN sz /\ c \in DOMAIN sz /\ b # c /\ r.hi + 17 <= b + sz[b] /\ q.hi + 17 <= c + sz[c]
    BY <1>2
<1> HIDE DEF b, c
<1>4. /\ b + sz[b] <= c \/ c + sz[c] <= b
      /\ b \in Nat /\ c \in Nat /\ sz[b] \in Nat /\ sz[c] \in Nat
    BY <1>1, <1>3 DEF Whole, Formed, Tiled
<1>5. (b .. r.hi) \cap (c .. q.hi) = {}
    BY <1>2, <1>3, <1>4
<1> QED
    BY <1>5 DEF b, c

\* What a request leaves once the driver has recorded the new payload and, in a
\* realloc, freed the old one.
LEMMA RecordGood ==
    ASSUME SizesFit, Good(heap, ranges), status = "ok", NEW size \in Sizes,
           NEW o \in mm_malloc(heap, size), NEW rs \in SUBSET ranges, NEW freed,
           \/ freed = NULL /\ rs = ranges
           \/ \E old \in ranges : freed = old.lo /\ rs = remove_range(ranges, old.lo),
           Record(o, size, rs, freed)
    PROVE  LET r == range_t(o.bp, size)
           IN  /\ status' = "ok" /\ Good(heap', ranges') /\ ranges' = rs \cup {r}
               /\ \A p \in ranges : p.lo # r.lo
               /\ Good(Fill(o.h, r), ranges \cup {r})
               /\ freed = NULL => heap'.mapped = o.h.mapped
<1> DEFINE r == range_t(o.bp, size)
           g == Fill(o.h, r)
           all == ranges \cup {r}
           h1 == o.h
<1>1. /\ ~Segv(h1)
      /\ \A p \in ranges : p.lo # o.bp
      /\ \A qs \in SUBSET ranges : Accepts(qs, r, h1.mapped)
      /\ Good(g, all)
    BY AllocGood DEF SizesFit
<1>2. r.lo = o.bp
    BY DEF range_t
<1>3. /\ heap' = Settle(IF freed = NULL THEN g ELSE With(g, LAMBDA h : mm_free(h, freed)))
      /\ ranges' = rs \cup {r}
      /\ status' = status
    <2>1. ~(Segv(o.h) \/ ~Accepts(rs, r, o.h.mapped))
        BY <1>1
    <2> QED
        BY <2>1 DEF Record
<1>4. g.mapped = h1.mapped
    BY DEF Fill
<1> HIDE DEF r, g, h1
<1>5. CASE freed = NULL /\ rs = ranges
    <2>1. heap' = Settle(g) /\ ranges' = all
        BY <1>3, <1>5
    <2> HIDE DEF all
    <2>2. Good(Settle(g), all) /\ Settle(g).mapped = g.mapped
        BY <1>1, SettleKeeps
    <2> QED
        BY <2>1, <2>2, <1>1, <1>2, <1>3, <1>4, <1>5 DEF all, r, g, h1
<1>6. CASE \E old \in ranges : freed = old.lo /\ rs = remove_range(ranges, old.lo)
    <2>1. PICK old \in ranges : freed = old.lo /\ rs = remove_range(ranges, old.lo)
        BY <1>6
    <2>2. freed # NULL
        BY <2>1, GoodPayload DEF NULL
    <2>3. heap' = Settle(mm_free(g, old.lo))
        BY <1>3, <2>1, <2>2 DEF With
    <2>4. remove_range(all, old.lo) = rs \cup {r}
        BY <1>1, <1>2, <2>1 DEF remove_range
    <2>5. old \in all
        BY <2>1
    <2> HIDE DEF all
    <2>6. Good(mm_free(g, old.lo), remove_range(all, old.lo))
        BY <1>1, <2>5, FreeGood
    <2>7. Good(heap', ranges')
        BY <2>3, <2>4, <2>6, <1>3, SettleKeeps
    <2> QED
        BY <2>2, <2>7, <1>1, <1>2, <1>3 DEF r, g, h1, all
<1> QED
    BY <1>5, <1>6

\* mm_init establishes the invariant.
LEMMA InvInit == Init => Inv
<1> SUFFICES ASSUME Init PROVE Inv
    OBVIOUS
<1>1. PICK h \in mm_init(NoPages) : heap = Settle(h)
    BY DEF Init
<1>2. IsHeap(NoPages) /\ NoPages.mem = <<>> /\ NoPages.mapped = {}
    BY DEF IsHeap, NoPages
<1>3. Good(h, {})
    BY <1>2, InitGood
<1> QED
    BY <1>1, <1>3, SettleKeeps DEF Inv, Init

\* An assignment to mapped and mem.
LEMMA Emptied ==
    ASSUME NEW h, IsHeap(h), NEW m, NEW p
    PROVE  [h EXCEPT !.mapped = p, !.mem = m]
               = [mem |-> m, mapped |-> p, home_pg |-> h.home_pg, free_start |-> h.free_start]
<1> DEFINE d == [h EXCEPT !.mapped = p]
<1>1. d = [mem |-> h.mem, mapped |-> p, home_pg |-> h.home_pg, free_start |-> h.free_start]
    BY DEF IsHeap
<1>2. [h EXCEPT !.mapped = p, !.mem = m] = [d EXCEPT !.mem = m]
    OBVIOUS
<1> HIDE DEF d
<1>3. [d EXCEPT !.mem = m]
          = [mem |-> m, mapped |-> p, home_pg |-> h.home_pg, free_start |-> h.free_start]
    BY <1>1
<1> QED
    BY <1>2, <1>3

\* mem_reset and mm_init give a good heap, without payloads.
LEMMA RestartGood ==
    ASSUME NEW h, IsHeap(h), NEW g \in mm_init(mem_reset(h))
    PROVE  Good(g, {})
<1> DEFINE c == mem_reset(h)
<1>1. c = [mem |-> <<>>, mapped |-> {}, home_pg |-> h.home_pg, free_start |-> h.free_start]
    BY Emptied DEF mem_reset
<1> HIDE DEF c
<1>2. IsHeap(c) /\ c.mem = <<>> /\ c.mapped = {}
    BY <1>1 DEF IsHeap
<1> QED
    BY <1>2, InitGood DEF c

\* Every request keeps the invariant.
LEMMA InvStep ==
    ASSUME SizesFit, Inv, [Next]_vars
    PROVE  Inv'
<1>1. status = "ok" /\ Good(heap, ranges)
    BY DEF Inv
<1>2. CASE Alloc
    <2>0. PICK size \in Sizes : \E o \in mm_malloc(heap, size) : Record(o, size, ranges, NULL)
        BY <1>2 DEF Alloc
    <2>1. PICK o \in mm_malloc(heap, size) : Record(o, size, ranges, NULL)
        BY <2>0
    <2>2. status' = "ok" /\ Good(heap', ranges')
        BY <2>1, <1>1, RecordGood
    <2> QED
        BY <2>2 DEF Inv
<1>3. CASE Realloc
    <2>0. PICK size \in Sizes, old \in ranges : \E o \in mm_malloc(heap, size) :
              Record(o, size, remove_range(ranges, old.lo), old.lo)
        BY <1>3 DEF Realloc
    <2>1. PICK o \in mm_malloc(heap, size) : Record(o, size, remove_range(ranges, old.lo), old.lo)
        BY <2>0
    <2>2. remove_range(ranges, old.lo) \in SUBSET ranges
        BY DEF remove_range
    <2>3. status' = "ok" /\ Good(heap', ranges')
        BY <2>1, <2>2, <1>1, RecordGood
    <2> QED
        BY <2>3 DEF Inv
<1>4. CASE Free
    <2>1. PICK old \in ranges : /\ ranges' = remove_range(ranges, old.lo)
                                /\ heap' = Settle(mm_free(heap, old.lo))
                                /\ status' = status
        BY <1>4 DEF Free
    <2>2. Good(mm_free(heap, old.lo), remove_range(ranges, old.lo))
        BY <1>1, FreeGood
    <2> QED
        BY <2>1, <2>2, <1>1, SettleKeeps DEF Inv
<1>5. CASE NextTrace
    <2>1. PICK h \in mm_init(mem_reset(heap)) : heap' = Settle(h)
        BY <1>5 DEF NextTrace
    <2>2. IsHeap(heap)
        BY <1>1, GoodIsSound DEF Sound
    <2>3. Good(h, {})
        BY <2>1, <2>2, RestartGood
    <2>4. ranges' = {} /\ status' = status
        BY <1>5 DEF NextTrace
    <2> QED
        BY <2>1, <2>3, <2>4, <1>1, SettleKeeps DEF Inv
<1>6. CASE UNCHANGED vars
    BY <1>6, <1>1 DEF Inv, vars
<1> QED
    BY <1>2, <1>3, <1>4, <1>5, <1>6 DEF Next

\* Between two requests of any trace, on pages of any number and size, the heap is
\* good: chunks tiled by blocks, one exact free list, no write astray, payloads intact.
THEOREM Invariance ==
    ASSUME SizesFit
    PROVE  Spec => []Inv
<1>1. Init => Inv
    BY InvInit
<1>2. Inv /\ [Next]_vars => Inv'
    BY InvStep
<1> QED
    BY <1>1, <1>2, PTL DEF Spec

-----------------------------------------------------------------------------
(* What the invariant implies.                                             *)

\* A word on mapped pages lies in memory.
LEMMA SpaceIs ==
    ASSUME NEW h, Sound(h), NEW a \in WordsOf(h.mapped)
    PROVE  a \in AddressSpace
<1>1. h.mapped \in SUBSET AllPages
    BY DEF Sound
<1>2. a \in Nat /\ a >= PAGESIZE /\ a < PAGESIZE * (NPages + 1)
    BY <1>1, WordSmall
<1> QED
    BY <1>2, PageSizeFacts DEF AddressSpace

\* Chunks and blocks lie in memory.
LEMMA ChunkSpace ==
    ASSUME NEW h, Sound(h), NEW cz, Chunked(h, cz), NEW s \in DOMAIN cz
    PROVE  s \in AddressSpace
<1>1. s \in Nat /\ s % 16 = 0 /\ cz[s] \in Nat /\ cz[s] >= 64
    BY DEF Chunked, Placed
<1>2. s \in WordsOf(h.mapped)
    BY <1>1, ChunkWord
<1> QED
    BY <1>2, SpaceIs

LEMMA BlockSpace ==
    ASSUME NEW h, Sound(h), NEW cz, Chunked(h, cz), NEW sz, Tiled(cz, sz), NEW b \in DOMAIN sz
    PROVE  b \in AddressSpace
<1>0. Placed(cz)
    BY DEF Chunked
<1>1. b \in Nat /\ b % 16 = 0 /\ sz[b] \in Nat /\ sz[b] >= 32
    BY <1>0, BlockFacts
<1>2. b \in WordsOf(h.mapped)
    BY <1>1, WordBlock
<1> QED
    BY <1>2, SpaceIs

\* The invariant implies each property that the runs check.
LEMMA InvType == Inv => TypeOK
<1> SUFFICES ASSUME Inv PROVE TypeOK
    OBVIOUS
<1>1. PICK cz, sz, fr, L, n : Whole(heap, cz, sz, fr, L, n) /\ Live(heap, ranges, sz, fr)
    BY DEF Inv, Good
<1>2. /\ Sound(heap) /\ Chunked(heap, cz) /\ Tiled(cz, sz) /\ Linked(heap, L, n)
      /\ Entries(L, n) \subseteq DOMAIN sz /\ heap.home_pg \in DOMAIN cz
    BY <1>1 DEF Whole, Formed
<1>3. \A a \in DOMAIN heap.mem : a % BYTE = 0 /\ heap.mem[a] \in 0 .. SIZE_MOD - 1
    <2> TAKE a \in DOMAIN heap.mem
    <2>1. a \in WordsOf(heap.mapped) /\ heap.mapped \in SUBSET AllPages
          /\ heap.mem[a] \in 0 .. SIZE_MOD - 1
        BY <1>2 DEF Sound
    <2>2. a % 8 = 0
        BY <2>1, WordSmall
    <2> QED
        BY <2>1, <2>2 DEF BYTE
<1>4. heap.home_pg \in AddressSpace
    BY <1>2, ChunkSpace
<1>5. heap.free_start \in AddressSpace \cup {NULL}
    <2>1. CASE n = 0
        BY <2>1, <1>2 DEF Linked, NULL
    <2>2. CASE n # 0
        <3>1. heap.free_start = L[1] /\ 1 \in 1 .. n
            BY <2>2, <1>2 DEF Linked
        <3>2. L[1] \in DOMAIN sz
            BY <3>1, <1>2 DEF Entries
        <3> QED
            BY <3>1, <3>2, <1>2, BlockSpace
    <2> QED
        BY <2>1, <2>2
<1> QED
    BY <1>2, <1>3, <1>4, <1>5 DEF TypeOK, Inv, Sound

LEMMA InvContent == Inv => DriverIsContent
<1> SUFFICES ASSUME Inv PROVE DriverIsContent
    OBVIOUS
<1>1. Sound(heap)
    BY GoodIsSound DEF Inv
<1> QED
    BY <1>1 DEF DriverIsContent, PayloadsAccepted, Segv, Sound, Inv

\* What FreeList finds.
LEMMA ListIs ==
    ASSUME NEW h, NEW cz, NEW sz, NEW fr, NEW L, NEW n, Whole(h, cz, sz, fr, L, n)
    PROVE  FreeList(h) = [i \in 1 .. n |-> L[i]]
<1>1. /\ Sound(h) /\ Chunked(h, cz) /\ Tiled(cz, sz)
      /\ Linked(h, L, n) /\ Entries(L, n) \subseteq DOMAIN sz
    BY DEF Whole, Formed
<1>2. LinksIn(h, L, n)
    BY <1>1, LinksInMapped
<1> QED
    BY <1>1, <1>2, ListIsShort, FreeListIs

\* FreeBlocks are the blocks marked free.
LEMMA FreeBlocksAre ==
    ASSUME NEW cz, NEW sz, NEW fr, NEW L, NEW n, Whole(heap, cz, sz, fr, L, n)
    PROVE  FreeBlocks = fr
<1> DEFINE list == FreeList(heap)
<1>1. list = [i \in 1 .. n |-> L[i]]
    BY ListIs
<1>2. Entries(L, n) = fr
    BY DEF Whole
<1>3. FreeBlocks = {list[i] : i \in DOMAIN list}
    BY DEF FreeBlocks
<1> HIDE DEF list
<1>4. DOMAIN list = 1 .. n /\ \A i \in 1 .. n : list[i] = L[i]
    BY <1>1
<1> QED
    BY <1>2, <1>3, <1>4 DEF Entries

\* Header and footer of a block agree.
LEMMA MarkedIs ==
    ASSUME NEW cz, Placed(cz), NEW sz, Tiled(cz, sz), NEW fr, Tagged(heap, cz, sz, fr),
           NEW b \in DOMAIN sz
    PROVE  Marked(b, IF b \in fr THEN 0 ELSE 1)
<1>1. Size(heap, b) = sz[b] /\ HDRP(b) = b - 8 /\ FTRP(heap, b) = b + sz[b] - 16
    BY SizeIs
<1>2. GET(heap, b - 8) = Tag(sz, fr, b) /\ GET(heap, b + sz[b] - 16) = Tag(sz, fr, b)
    BY DEF Tagged
<1> QED
    BY <1>1, <1>2 DEF Marked, PACK, Tag

LEMMA InvList == Inv => FreeListExact
<1> SUFFICES ASSUME Inv PROVE FreeListExact
    OBVIOUS
<1>1. PICK cz, sz, fr, L, n : Whole(heap, cz, sz, fr, L, n) /\ Live(heap, ranges, sz, fr)
    BY DEF Inv, Good
<1>2. /\ Placed(cz) /\ Tiled(cz, sz) /\ Tagged(heap, cz, sz, fr) /\ Linked(heap, L, n)
      /\ Entries(L, n) = fr /\ fr \subseteq DOMAIN sz
    BY <1>1 DEF Whole, Formed, Chunked, Tagged
<1> DEFINE list == FreeList(heap)
<1>3. list = [i \in 1 .. n |-> L[i]]
    BY <1>1, ListIs
<1> HIDE DEF list
<1>4. DOMAIN list = 1 .. n /\ \A i \in 1 .. n : list[i] = L[i]
    BY <1>3
<1>5. ASSUME NEW i \in 1 .. n PROVE Marked(list[i], 0)
    <2>1. L[i] \in fr /\ L[i] \in DOMAIN sz
        BY <1>2 DEF Entries
    <2>2. Marked(L[i], IF L[i] \in fr THEN 0 ELSE 1)
        BY <2>1, <1>2, MarkedIs
    <2> QED
        BY <2>1, <2>2, <1>4
<1>6. ASSUME NEW i \in 1 .. n
      PROVE  GET(heap, prev(list[i])) = IF i = 1 THEN NULL ELSE list[i - 1]
    <2>1. GET(heap, L[i]) = IF i = 1 THEN 0 ELSE L[i - 1]
        BY <1>2 DEF Linked
    <2>2. n \in Nat
        BY <1>2 DEF Linked
    <2>3. i # 1 => i - 1 \in 1 .. n
        BY <2>2
    <2> QED
        BY <2>1, <2>3, <1>4 DEF prev, NULL
<1>7. ASSUME NEW i \in 1 .. n, NEW m \in 1 .. i - 1 PROVE list[m] # list[i]
    <2>1. m \in 1 .. n /\ m # i
        BY <1>2 DEF Linked
    <2> QED
        BY <2>1, <1>2, <1>4 DEF Linked
<1> QED
    BY <1>4, <1>5, <1>6, <1>7 DEF FreeListExact, list

LEMMA InvCoalesced == Inv => Coalesced
<1> SUFFICES ASSUME Inv PROVE Coalesced
    OBVIOUS
<1>1. PICK cz, sz, fr, L, n : Whole(heap, cz, sz, fr, L, n) /\ Live(heap, ranges, sz, fr)
    BY DEF Inv, Good
<1>2. FreeBlocks = fr
    BY <1>1, FreeBlocksAre
<1>3. ASSUME NEW b \in fr PROVE NEXT(heap, b) \notin fr
    <2>1. NEXT(heap, b) = b + sz[b]
        <3>1. Placed(cz) /\ Tiled(cz, sz) /\ Tagged(heap, cz, sz, fr) /\ b \in DOMAIN sz
            BY <1>1 DEF Whole, Formed, Chunked, Tagged
        <3> QED
            BY <3>1, SizeIs
    <2> QED
        BY <2>1, <1>1 DEF Whole, Joined
<1> QED
    BY <1>2, <1>3 DEF Coalesced

LEMMA InvIdle == Inv => IdlePagesReturned
<1> SUFFICES ASSUME Inv PROVE IdlePagesReturned
    OBVIOUS
<1>1. PICK cz, sz, fr, L, n : Whole(heap, cz, sz, fr, L, n) /\ Live(heap, ranges, sz, fr)
    BY DEF Inv, Good
<1>2. FreeBlocks = fr
    BY <1>1, FreeBlocksAre
<1>3. ASSUME NEW b \in fr, IsPrologue(b), IsEpilogue(b) PROVE b - 2 * OVERHEAD = heap.home_pg
    <2>1. Placed(cz) /\ Tiled(cz, sz) /\ Tagged(heap, cz, sz, fr) /\ b \in DOMAIN sz
        BY <1>1 DEF Whole, Formed, Chunked, Tagged
    <2>2. Lone(cz, sz, b)
        BY <2>1, <1>3, AloneIs DEF IsPrologue, IsEpilogue, OVERHEAD
    <2>3. PICK s \in DOMAIN cz : b = s + 32 /\ b + sz[b] = s + cz[s]
        BY <2>2 DEF Lone
    <2>4. s = heap.home_pg
        BY <2>3, <1>1 DEF Whole, Idle
    <2>5. s \in Nat
        BY <2>1 DEF Placed
    <2>6. b - 2 * OVERHEAD = s
        BY <2>3, <2>5 DEF OVERHEAD
    <2> QED
        BY <2>4, <2>6
<1> QED
    BY <1>2, <1>3 DEF IdlePagesReturned

LEMMA InvIntact == Inv => PayloadsIntact
BY DEF Inv, Good, Live, PayloadsIntact, BYTE, FILL

\* The variables keep their types.
THEOREM TypeCorrect ==
    ASSUME SizesFit
    PROVE  Spec => []TypeOK
BY Invariance, InvType, PTL

\* Outside the band of sizes for which extend maps too little (run
\* heap_short_extension shows what happens inside it): no write ever leaves the
\* mapped pages, no page is unmapped twice, and every payload mm_malloc returns
\* passes the driver's checks.
THEOREM Content ==
    ASSUME SizesFit
    PROVE  Spec => []DriverIsContent
BY Invariance, InvContent, PTL

\* The free list runs through blocks marked free, each once, linked both ways;
\* that every free byte is on it is AllAccounted.
THEOREM ListExact ==
    ASSUME SizesFit
    PROVE  Spec => []FreeListExact
BY Invariance, InvList, PTL

\* mm_free and mm_malloc never leave two free blocks side by side.
THEOREM AlwaysCoalesced ==
    ASSUME SizesFit
    PROVE  Spec => []Coalesced
BY Invariance, InvCoalesced, PTL

\* mm_free unmaps every chunk without a payload, the home page excepted.
THEOREM IdleReturned ==
    ASSUME SizesFit
    PROVE  Spec => []IdlePagesReturned
BY Invariance, InvIdle, PTL

\* mm_malloc and mm_free never change a byte of a payload that is held.
THEOREM DataIntact ==
    ASSUME SizesFit
    PROVE  Spec => []PayloadsIntact
BY Invariance, InvIntact, PTL

-----------------------------------------------------------------------------
(* The promise of module Allocator.                                        *)

\* The promise about the payloads held.
LEMMA CoveredIs ==
    ASSUME NEW h, NEW rs, Good(h, rs)
    PROVE  Promise!Covered(rs, h.mapped)
<1> SUFFICES ASSUME NEW p \in rs, NEW a \in p.lo .. p.hi PROVE Page(a) \in h.mapped
    BY DEF Promise!Covered, Promise!Page, Page
<1> QED
    BY GoodPayload

\* The headers, footers and links of mm.c keep the payloads it has handed out
\* apart and on mapped pages, through every split, join, extension and unmapping.
THEOREM PayloadsApart ==
    ASSUME SizesFit
    PROVE  Spec => [](Promise!PayloadsDisjoint /\ Promise!PayloadsMapped)
<1>1. Inv => Promise!PayloadsDisjoint
    BY GoodApart DEF Inv, Promise!PayloadsDisjoint, Promise!Disjoint
<1>2. Inv => Promise!PayloadsMapped
    BY CoveredIs DEF Inv, Promise!PayloadsMapped
<1> QED
    BY <1>1, <1>2, Invariance, PTL

\* Only pages that exist are mapped.
LEMMA PagesIn ==
    ASSUME NEW h, NEW rs, Good(h, rs)
    PROVE  h.mapped \in SUBSET Promise!AllPages
BY GoodIsSound DEF Sound, Promise!AllPages, AllPages

\* A place that is new among the payloads is one the promise allows.
LEMMA PlaceKept ==
    ASSUME NEW h, NEW r, r \notin ranges, Good(h, ranges \cup {r})
    PROVE  Promise!Place(r)
<1> DEFINE all == ranges \cup {r}
<1>1. r \in all /\ \A p \in ranges : p \in all /\ p # r
    OBVIOUS
<1>2. Good(h, all)
    OBVIOUS
<1> HIDE DEF all
<1>3. r.lo \in AddressSpace /\ r.lo % 16 = 0 /\ r.hi - r.lo + 1 \in Sizes
    BY <1>1, <1>2, GoodPayload
<1>4. \A p \in ranges : (p.lo .. p.hi) \cap (r.lo .. r.hi) = {}
    BY <1>1, <1>2, GoodApart
<1> QED
    BY <1>3, <1>4 DEF Promise!Place, Promise!Bytes, Promise!ALIGNMENT, Promise!AddressSpace, AddressSpace

\* mm_init is an initial state of the promise.
LEMMA PromiseInit == Init => Promise!Init
<1> SUFFICES ASSUME Init PROVE Promise!Init
    OBVIOUS
<1>1. Good(heap, ranges)
    BY InvInit DEF Inv
<1>2. ranges = {}
    BY DEF Init
<1> QED
    BY <1>1, <1>2, PagesIn DEF Promise!Init

\* A request that allocates is a Malloc of the promise.
LEMMA PromiseAlloc ==
    ASSUME SizesFit, Inv, Inv', Alloc
    PROVE  Promise!Malloc
<1>1. PICK size \in Sizes : \E o \in mm_malloc(heap, size) : Record(o, size, ranges, NULL)
    BY DEF Alloc
<1>2. PICK o \in mm_malloc(heap, size) : Record(o, size, ranges, NULL)
    BY <1>1
<1> DEFINE r == range_t(o.bp, size)
<1>3. /\ ranges' = ranges \cup {r}
      /\ \A p \in ranges : p.lo # r.lo
      /\ Good(Fill(o.h, r), ranges \cup {r})
      /\ heap'.mapped = o.h.mapped
    BY <1>2, RecordGood DEF Inv
<1> HIDE DEF r
<1>4. heap.mapped \subseteq heap'.mapped
    <2>1. IsHeap(heap)
        BY GoodIsSound DEF Inv, Sound
    <2> QED
        BY <2>1, <1>2, <1>3, MallocGrows
<1>5. Promise!Place(r)
    BY <1>3, PlaceKept
<1>6. Promise!Covered(ranges', heap'.mapped) /\ heap'.mapped \in SUBSET Promise!AllPages
    BY CoveredIs, PagesIn DEF Inv
<1>7. r \in ranges'
    BY <1>3
<1> QED
    BY <1>3, <1>4, <1>5, <1>6, <1>7 DEF Promise!Malloc

\* A request that reallocates is a Realloc of the promise.
LEMMA PromiseRealloc ==
    ASSUME SizesFit, Inv, Inv', Realloc
    PROVE  Promise!Realloc
<1>1. PICK size \in Sizes, old \in ranges : \E o \in mm_malloc(heap, size) :
          Record(o, size, remove_range(ranges, old.lo), old.lo)
    BY DEF Realloc
<1>2. PICK o \in mm_malloc(heap, size) : Record(o, size, remove_range(ranges, old.lo), old.lo)
    BY <1>1
<1> DEFINE r == range_t(o.bp, size)
<1>3. remove_range(ranges, old.lo) \in SUBSET ranges
    BY DEF remove_range
<1>4. /\ ranges' = remove_range(ranges, old.lo) \cup {r}
      /\ \A p \in ranges : p.lo # r.lo
      /\ Good(Fill(o.h, r), ranges \cup {r})
    BY <1>2, <1>3, RecordGood DEF Inv
<1> HIDE DEF r
<1>5. Promise!Place(r)
    BY <1>4, PlaceKept
<1>6. remove_range(ranges, old.lo) = ranges \ {old}
    <2>1. \A p, q \in ranges : p # q => p.lo # q.lo
        BY LiveIs DEF Inv, Good
    <2> QED
        BY <2>1 DEF remove_range
<1>7. ranges' = (ranges \cup {r}) \ {old}
    <2>1. r # old
        BY <1>4
    <2> QED
        BY <2>1, <1>4, <1>6
<1>8. Promise!Covered(ranges', heap'.mapped) /\ heap'.mapped \in SUBSET Promise!AllPages
    BY CoveredIs, PagesIn DEF Inv
<1>9. r \in ranges'
    BY <1>4
<1> QED
    BY <1>5, <1>7, <1>8, <1>9 DEF Promise!Realloc

\* A request that frees is a Free of the promise.
LEMMA PromiseFree ==
    ASSUME Inv, Inv', Free
    PROVE  Promise!Free
<1>1. PICK old \in ranges : /\ ranges' = remove_range(ranges, old.lo)
                            /\ heap' = Settle(mm_free(heap, old.lo))
    BY DEF Free
<1>2. remove_range(ranges, old.lo) = ranges \ {old}
    <2>1. \A p, q \in ranges : p # q => p.lo # q.lo
        BY LiveIs DEF Inv, Good
    <2> QED
        BY <2>1 DEF remove_range
<1>3. heap'.mapped \subseteq heap.mapped
    <2>1. IsHeap(heap)
        BY GoodIsSound DEF Inv, Sound
    <2>2. mm_free(heap, old.lo).mapped \subseteq heap.mapped
        BY <2>1, FreeShrinks
    <2>3. Good(mm_free(heap, old.lo), remove_range(ranges, old.lo))
        BY FreeGood DEF Inv
    <2>4. heap'.mapped = mm_free(heap, old.lo).mapped
        BY <1>1, <2>3, SettleKeeps
    <2> QED
        BY <2>2, <2>4
<1>4. Promise!Covered(ranges', heap'.mapped) /\ heap'.mapped \in SUBSET Promise!AllPages
    BY CoveredIs, PagesIn DEF Inv
<1> QED
    BY <1>1, <1>2, <1>3, <1>4 DEF Promise!Free

\* Every step of the allocator is one of the promise, or a stutter.
LEMMA PromiseStep ==
    ASSUME SizesFit, Inv, Inv', [Next]_vars
    PROVE  [Promise!Next]_(Promise!vars)
<1>1. CASE Alloc
    BY <1>1, PromiseAlloc DEF Promise!Next
<1>2. CASE Realloc
    BY <1>2, PromiseRealloc DEF Promise!Next
<1>3. CASE Free
    BY <1>3, PromiseFree DEF Promise!Next
<1>4. CASE NextTrace
    <2>1. ranges' = {} /\ heap'.mapped \in SUBSET Promise!AllPages
        BY <1>4, PagesIn DEF NextTrace, Inv
    <2> QED
        BY <2>1 DEF Promise!Next, Promise!Restart
<1>5. CASE UNCHANGED vars
    BY <1>5 DEF vars, Promise!vars
<1> QED
    BY <1>1, <1>2, <1>3, <1>4, <1>5 DEF Next

\* The allocator implements what module Allocator promises.
THEOREM Implements ==
    ASSUME SizesFit
    PROVE  Spec => KeepsPromise
<1>1. Init => Promise!Init
    BY PromiseInit
<1>2. Inv /\ Inv' /\ [Next]_vars => [Promise!Next]_(Promise!vars)
    BY PromiseStep
<1>3. Spec => []Inv
    BY Invariance
<1> QED
    BY <1>1, <1>2, <1>3, PTL DEF Spec, KeepsPromise, Promise!Spec

-----------------------------------------------------------------------------
(* Counting bytes.                                                         *)

\* G pairs the elements of S and the numbers below k with those of T.
Paired(S, k, T, G) ==
    /\ \A x \in S : \A i \in 0 .. k - 1 : G[x][i] \in T
    /\ \A x, y \in S : \A i, j \in 0 .. k - 1 : G[x][i] = G[y][j] => x = y /\ i = j
    /\ \A t \in T : \E x \in S : \E i \in 0 .. k - 1 : G[x][i] = t

\* T has as many elements as there are pairs.
LEMMA PairsCount ==
    ASSUME NEW S, IsFiniteSet(S), NEW k \in Nat, NEW T, NEW G, Paired(S, k, T, G)
    PROVE  IsFiniteSet(T) /\ Cardinality(T) = Cardinality(S) * k
<1> DEFINE K == 0 .. k - 1
           f == [p \in S \X K |-> G[p[1]][p[2]]]
<1>1. IsFiniteSet(K) /\ Cardinality(K) = k
    <2>1. 0 \in Int /\ k - 1 \in Int
        OBVIOUS
    <2>2. IsFiniteSet(K) /\ Cardinality(K) = IF 0 > k - 1 THEN 0 ELSE k - 1 - 0 + 1
        BY <2>1, FS_Interval
    <2> QED
        BY <2>2
<1>2. /\ \A x \in S : \A i \in K : G[x][i] \in T
      /\ \A x, y \in S : \A i, j \in K : G[x][i] = G[y][j] => x = y /\ i = j
      /\ \A t \in T : \E x \in S : \E i \in K : G[x][i] = t
    BY DEF Paired
<1> HIDE DEF K
<1>3. f \in [S \X K -> T]
    BY <1>2
<1>4. \A p, q \in S \X K : f[p] = f[q] => p = q
    <2> SUFFICES ASSUME NEW p \in S \X K, NEW q \in S \X K, f[p] = f[q] PROVE p = q
        OBVIOUS
    <2>1. p = <<p[1], p[2]>> /\ q = <<q[1], q[2]>>
        OBVIOUS
    <2>2. p[1] \in S /\ p[2] \in K /\ q[1] \in S /\ q[2] \in K
        OBVIOUS
    <2>3. G[p[1]][p[2]] = G[q[1]][q[2]]
        OBVIOUS
    <2>4. p[1] = q[1] /\ p[2] = q[2]
        BY <2>2, <2>3, <1>2
    <2> QED
        BY <2>1, <2>4
<1>5. \A t \in T : \E p \in S \X K : f[p] = t
    <2> TAKE t \in T
    <2>1. PICK x \in S, i \in K : G[x][i] = t
        BY <1>2
    <2>2. <<x, i>> \in S \X K /\ f[<<x, i>>] = t
        BY <2>1
    <2> QED
        BY <2>2
<1> HIDE DEF f
<1>6. f \in Bijection(S \X K, T)
    BY <1>3, <1>4, <1>5, Fun_IsBij
<1>7. ExistsBijection(S \X K, T)
    BY <1>6, Fun_ExistsBij
<1>8. IsFiniteSet(S \X K) /\ Cardinality(S \X K) = Cardinality(S) * k
    BY <1>1, FS_Product
<1> QED
    BY <1>7, <1>8, FS_Bijection

\* The bytes of a set of pages.
BytesOf(pages) == {x \in Nat : x \div PAGESIZE \in pages}

\* PAGESIZE bytes for each page.
LEMMA BytesCount ==
    ASSUME NEW pages \in SUBSET AllPages
    PROVE  /\ IsFiniteSet(BytesOf(pages)) /\ IsFiniteSet(pages)
           /\ Cardinality(BytesOf(pages)) = Cardinality(pages) * PAGESIZE
<1> DEFINE p == PAGESIZE
           G == [pg \in pages |-> [i \in 0 .. p - 1 |-> p * pg + i]]
           T == BytesOf(pages)
<1>0. p \in Nat /\ p > 0
    BY PageSizeFacts
<1>1. IsFiniteSet(pages)
    <2>1. IsFiniteSet(AllPages)
        BY FS_Interval, RangeAssumption DEF AllPages
    <2> QED
        BY <2>1, FS_Subset
<1>2. \A pg \in pages : pg \in Nat
    BY DEF AllPages
<1>3. \A x : x \in T <=> x \in Nat /\ x \div p \in pages
    BY DEF BytesOf
<1> HIDE DEF p, T
<1>4. \A pg \in pages : \A i \in 0 .. p - 1 :
          G[pg][i] = p * pg + i /\ G[pg][i] \in Nat /\ G[pg][i] \div p = pg /\ G[pg][i] % p = i
    <2> TAKE pg \in pages
    <2> TAKE i \in 0 .. p - 1
    <2>1. G[pg][i] = p * pg + i
        OBVIOUS
    <2>2. pg \in Nat /\ i \in Nat /\ i < p
        BY <1>0, <1>2
    <2>3. (p * pg + i) \div p = pg /\ (p * pg + i) % p = i
        BY <1>0, <2>2, DivIs
    <2> QED
        BY <1>0, <2>1, <2>2, <2>3
<1>5. \A t \in T : \E pg \in pages : \E i \in 0 .. p - 1 : G[pg][i] = t
    <2> TAKE t \in T
    <2> DEFINE d == t \div p
               m == t % p
    <2>1. t \in Nat /\ d \in pages
        BY <1>3
    <2>2. m \in 0 .. p - 1 /\ t = p * d + m
        BY <2>1, <1>0, DivMod
    <2> HIDE DEF d, m
    <2>3. G[d][m] = t
        BY <2>1, <2>2
    <2> QED
        BY <2>1, <2>2, <2>3
<1> HIDE DEF G
<1>6. \A pg \in pages : \A i \in 0 .. p - 1 : G[pg][i] \in T
    BY <1>3, <1>4
<1>7. \A a, b \in pages : \A i, j \in 0 .. p - 1 : G[a][i] = G[b][j] => a = b /\ i = j
    <2> SUFFICES ASSUME NEW a \in pages, NEW b \in pages, NEW i \in 0 .. p - 1, NEW j \in 0 .. p - 1,
                        G[a][i] = G[b][j]
                 PROVE  a = b /\ i = j
        OBVIOUS
    <2>1. G[a][i] \div p = a /\ G[a][i] % p = i
        BY <1>4
    <2>2. G[b][j] \div p = b /\ G[b][j] % p = j
        BY <1>4
    <2> QED
        BY <2>1, <2>2
<1>8. IsFiniteSet(T) /\ Cardinality(T) = Cardinality(pages) * p
    <2>1. Paired(pages, p, T, G)
        BY <1>5, <1>6, <1>7 DEF Paired
    <2> QED
        BY <2>1, <1>0, <1>1, PairsCount
<1> QED
    BY <1>1, <1>8 DEF p, T

\* The last blocks of the chunks, the bytes of the blocks, and the 32 bytes of
\* each chunk that belong to no block.
Last(cz, sz) == {b \in DOMAIN sz : \E s \in DOMAIN cz : b + sz[b] = s + cz[s]}
Span(sz, b) == b - 8 .. b - 8 + sz[b] - 1
Body(sz) == UNION {Span(sz, b) : b \in DOMAIN sz}
Pad(cz) == {x \in Nat : \E s \in DOMAIN cz : \/ s <= x /\ x < s + 24
                                             \/ s + cz[s] - 8 <= x /\ x < s + cz[s]}

\* The bytes of the mapped pages are those of the chunks.
LEMMA ByteIn ==
    ASSUME NEW h, NEW cz, Chunked(h, cz), NEW x \in Nat
    PROVE  x \in BytesOf(h.mapped) <=> \E s \in DOMAIN cz : s <= x /\ x < s + cz[s]
<1>1. x \in BytesOf(h.mapped) <=> \E s \in DOMAIN cz : x \div PAGESIZE \in Pages(s, cz[s])
    BY DEF BytesOf, Chunked
<1>2. \A s \in DOMAIN cz : x \div PAGESIZE \in Pages(s, cz[s]) <=> s <= x /\ x < s + cz[s]
    <2> TAKE s \in DOMAIN cz
    <2> DEFINE z == cz[s]
    <2>1. s \in Nat /\ z \in Nat /\ s % PAGESIZE = 0 /\ z % PAGESIZE = 0
        BY DEF Chunked, Placed
    <2> HIDE DEF z
    <2>2. x \div PAGESIZE \in Pages(s, z) <=> s <= x /\ x < s + z
        BY <2>1, InPages
    <2> QED
        BY <2>2 DEF z
<1> QED
    BY <1>1, <1>2

\* Every chunk has a last block.
LEMMA LastBlock ==
    ASSUME NEW cz, Placed(cz), NEW sz, Tiled(cz, sz), NEW s \in DOMAIN cz
    PROVE  \E b \in DOMAIN sz : b + sz[b] = s + cz[s] /\ s + 32 <= b
<1>1. s \in Nat /\ cz[s] \in Nat /\ cz[s] >= 64
    BY DEF Placed
<1> DEFINE x == s + cz[s] - 1
<1>2. x \in s + 32 .. s + cz[s] - 1
    BY <1>1
<1>3. PICK b \in DOMAIN sz : b <= x /\ x < b + sz[b]
    BY <1>2 DEF Tiled
<1>4. PICK t \in DOMAIN cz : t + 32 <= b /\ b + sz[b] <= t + cz[t]
    BY DEF Tiled
<1>5. b \in Nat /\ sz[b] \in Nat /\ t \in Nat /\ cz[t] \in Nat
    BY DEF Tiled, Placed
<1>6. s # t => s + cz[s] <= t \/ t + cz[t] <= s
    BY DEF Placed
<1>7. s = t
    BY <1>1, <1>3, <1>4, <1>5, <1>6
<1> QED
    BY <1>1, <1>3, <1>4, <1>5, <1>7

\* The bytes of the mapped pages are those of blocks and the padding.
LEMMA BodyPad ==
    ASSUME NEW h, NEW cz, Chunked(h, cz), NEW sz, Tiled(cz, sz)
    PROVE  BytesOf(h.mapped) = Body(sz) \cup Pad(cz) /\ Body(sz) \cap Pad(cz) = {}
<1>0. Placed(cz)
    BY DEF Chunked
<1>1. \A b \in DOMAIN sz : b \in Nat /\ sz[b] \in Nat /\ sz[b] >= 32
    BY DEF Tiled
<1>2. \A s \in DOMAIN cz : s \in Nat /\ cz[s] \in Nat /\ cz[s] >= 64
    BY <1>0 DEF Placed
<1>3. \A s, t \in DOMAIN cz : s # t => s + cz[s] <= t \/ t + cz[t] <= s
    BY <1>0 DEF Placed
<1>4. \A x : x \in Body(sz) <=> \E b \in DOMAIN sz : x \in Span(sz, b)
    BY DEF Body
<1>5. \A b \in DOMAIN sz : \A x : x \in Span(sz, b) <=> x \in Int /\ b - 8 <= x /\ x < b - 8 + sz[b]
    BY <1>1 DEF Span
<1>6. ASSUME NEW b \in DOMAIN sz, NEW x \in Span(sz, b), NEW s \in DOMAIN cz, s <= x, x < s + cz[s]
      PROVE  x \in Nat /\ s + 24 <= x /\ x < s + cz[s] - 8
    <2>1. PICK t \in DOMAIN cz : t + 32 <= b /\ b + sz[b] <= t + cz[t]
        BY DEF Tiled
    <2>2. x \in Int /\ b - 8 <= x /\ x < b - 8 + sz[b]
        BY <1>5
    <2>3. t = s
        BY <1>1, <1>2, <1>3, <2>1, <2>2, <1>6
    <2> QED
        BY <1>1, <1>2, <2>1, <2>2, <2>3
<1>7. \A b \in DOMAIN sz : \A x \in Span(sz, b) :
          x \in Nat /\ \E s \in DOMAIN cz : s <= x /\ x < s + cz[s]
    <2> TAKE b \in DOMAIN sz
    <2> TAKE x \in Span(sz, b)
    <2>1. PICK t \in DOMAIN cz : t + 32 <= b /\ b + sz[b] <= t + cz[t]
        BY DEF Tiled
    <2>2. x \in Int /\ b - 8 <= x /\ x < b - 8 + sz[b]
        BY <1>5
    <2>3. x \in Nat /\ t <= x /\ x < t + cz[t]
        BY <1>1, <1>2, <2>1, <2>2
    <2> QED
        BY <2>3
<1>8. Body(sz) \cap Pad(cz) = {}
    <2> SUFFICES ASSUME NEW x \in Body(sz), x \in Pad(cz) PROVE FALSE
        OBVIOUS
    <2>1. PICK b \in DOMAIN sz : x \in Span(sz, b)
        BY <1>4
    <2>2. PICK s \in DOMAIN cz : (s <= x /\ x < s + 24) \/ (s + cz[s] - 8 <= x /\ x < s + cz[s])
        BY DEF Pad
    <2>3. x \in Nat
        BY <2>1, <1>7
    <2>4. s <= x /\ x < s + cz[s]
        BY <1>2, <2>2, <2>3
    <2>5. s + 24 <= x /\ x < s + cz[s] - 8
        BY <2>1, <2>4, <1>6
    <2> QED
        BY <2>2, <2>3, <2>5, <1>2
<1>9. Body(sz) \subseteq BytesOf(h.mapped)
    <2> SUFFICES ASSUME NEW x \in Body(sz) PROVE x \in BytesOf(h.mapped)
        OBVIOUS
    <2>1. x \in Nat /\ \E s \in DOMAIN cz : s <= x /\ x < s + cz[s]
        BY <1>4, <1>7
    <2> QED
        BY <2>1, ByteIn
<1>10. Pad(cz) \subseteq BytesOf(h.mapped)
    <2> SUFFICES ASSUME NEW x \in Pad(cz) PROVE x \in BytesOf(h.mapped)
        OBVIOUS
    <2>1. x \in Nat /\ \E s \in DOMAIN cz : (s <= x /\ x < s + 24) \/ (s + cz[s] - 8 <= x /\ x < s + cz[s])
        BY DEF Pad
    <2>2. \E s \in DOMAIN cz : s <= x /\ x < s + cz[s]
        BY <2>1, <1>2
    <2> QED
        BY <2>1, <2>2, ByteIn
<1>11. ASSUME NEW x \in BytesOf(h.mapped), x \notin Pad(cz) PROVE x \in Body(sz)
    <2>1. x \in Nat
        BY DEF BytesOf
    <2>2. PICK s \in DOMAIN cz : s <= x /\ x < s + cz[s]
        BY <2>1, ByteIn
    <2>3. s + 24 <= x /\ x < s + cz[s] - 8
        BY <2>1, <2>2, <1>2, <1>11 DEF Pad
    <2> DEFINE y == x + 8
    <2>4. y \in s + 32 .. s + cz[s] - 1
        BY <2>1, <2>3, <1>2
    <2>5. PICK b \in DOMAIN sz : b <= y /\ y < b + sz[b]
        BY <2>4 DEF Tiled
    <2>6. x \in Span(sz, b)
        BY <2>1, <2>5, <1>1, <1>5
    <2> QED
        BY <2>6, <1>4
<1> QED
    BY <1>8, <1>9, <1>10, <1>11

\* The bytes of padding: 24 at the start of a chunk, 8 at its end.
LEMMA PadCount ==
    ASSUME NEW cz, Placed(cz), NEW sz, Tiled(cz, sz), IsFiniteSet(Last(cz, sz))
    PROVE  IsFiniteSet(Pad(cz)) /\ Cardinality(Pad(cz)) = Cardinality(Last(cz, sz)) * 32
<1> DEFINE S == Last(cz, sz)
           T == Pad(cz)
           chunk(b) == CHOOSE s \in DOMAIN cz : b + sz[b] = s + cz[s]
           at(s, i) == IF i < 24 THEN s + i ELSE s + cz[s] - 32 + i
           G == [b \in S |-> [i \in 0 .. 32 - 1 |-> at(chunk(b), i)]]
<1>1. \A b \in DOMAIN sz : b \in Nat /\ sz[b] \in Nat /\ sz[b] >= 32
    BY DEF Tiled
<1>2. \A s \in DOMAIN cz : s \in Nat /\ cz[s] \in Nat /\ cz[s] >= 64
    BY DEF Placed
<1>3. \A s, t \in DOMAIN cz : s # t => s + cz[s] <= t \/ t + cz[t] <= s
    BY DEF Placed
<1>4. \A b, c \in DOMAIN sz : b # c => b + sz[b] <= c \/ c + sz[c] <= b
    BY DEF Tiled
<1>5. \A b \in S : b \in DOMAIN sz /\ chunk(b) \in DOMAIN cz /\ b + sz[b] = chunk(b) + cz[chunk(b)]
    BY DEF Last
<1>6. \A s \in DOMAIN cz : \E b \in S : chunk(b) = s
    <2> TAKE s \in DOMAIN cz
    <2>1. PICK b \in DOMAIN sz : b + sz[b] = s + cz[s] /\ s + 32 <= b
        BY LastBlock
    <2>2. b \in S
        BY <2>1 DEF Last
    <2> DEFINE t == chunk(b)
    <2>3. t \in DOMAIN cz /\ b + sz[b] = t + cz[t]
        BY <2>2, <1>5
    <2> HIDE DEF t
    <2>4. t = s
        BY <2>1, <2>3, <1>2, <1>3
    <2> QED
        BY <2>2, <2>4 DEF t
<1>7. \A b, c \in S : chunk(b) = chunk(c) => b = c
    <2> SUFFICES ASSUME NEW b \in S, NEW c \in S, chunk(b) = chunk(c) PROVE b = c
        OBVIOUS
    <2>1. b + sz[b] = c + sz[c] /\ b \in DOMAIN sz /\ c \in DOMAIN sz
        BY <1>5
    <2> QED
        BY <2>1, <1>1, <1>4
<1>8. \A b \in S : \A i \in 0 .. 32 - 1 : G[b][i] = at(chunk(b), i)
    OBVIOUS
<1> HIDE DEF G, S, chunk
<1>9. \A s \in DOMAIN cz : \A i \in 0 .. 32 - 1 : at(s, i) \in T
    <2> TAKE s \in DOMAIN cz
    <2> TAKE i \in 0 .. 32 - 1
    <2>1. CASE i < 24
        <3>1. at(s, i) \in Nat /\ s <= at(s, i) /\ at(s, i) < s + 24
            BY <2>1, <1>2
        <3> HIDE DEF at
        <3> QED
            BY <3>1 DEF Pad
    <2>2. CASE ~(i < 24)
        <3>1. at(s, i) \in Nat /\ s + cz[s] - 8 <= at(s, i) /\ at(s, i) < s + cz[s]
            BY <2>2, <1>2
        <3> HIDE DEF at
        <3> QED
            BY <3>1 DEF Pad
    <2> QED
        BY <2>1, <2>2
<1>10. \A s, t \in DOMAIN cz : \A i, j \in 0 .. 32 - 1 : at(s, i) = at(t, j) => s = t /\ i = j
    <2> SUFFICES ASSUME NEW s \in DOMAIN cz, NEW t \in DOMAIN cz, NEW i \in 0 .. 32 - 1, NEW j \in 0 .. 32 - 1,
                        at(s, i) = at(t, j)
                 PROVE  s = t /\ i = j
        OBVIOUS
    <2>1. /\ s <= at(s, i) /\ at(s, i) < s + cz[s]
          /\ t <= at(t, j) /\ at(t, j) < t + cz[t]
        BY <1>2
    <2>2. s = t
        <3> DEFINE x == at(s, i)
        <3>1. x \in Int
            BY <1>2
        <3>2. s <= x /\ x < s + cz[s] /\ t <= x /\ x < t + cz[t]
            BY <2>1
        <3> HIDE DEF x
        <3> QED
            BY <3>1, <3>2, <1>2, <1>3
    <2>3. i = j
        BY <2>2, <1>2
    <2> QED
        BY <2>2, <2>3
<1>11. \A x \in T : \E s \in DOMAIN cz : \E i \in 0 .. 32 - 1 : at(s, i) = x
    <2> TAKE x \in T
    <2>1. x \in Nat
        BY DEF Pad
    <2>2. PICK s \in DOMAIN cz : (s <= x /\ x < s + 24) \/ (s + cz[s] - 8 <= x /\ x < s + cz[s])
        BY DEF Pad
    <2>3. CASE s <= x /\ x < s + 24
        <3>1. x - s \in 0 .. 32 - 1 /\ at(s, x - s) = x
            BY <2>1, <2>3, <1>2
        <3> QED
            BY <3>1
    <2>4. CASE s + cz[s] - 8 <= x /\ x < s + cz[s]
        <3> DEFINE i == x - (s + cz[s] - 32)
        <3>1. i \in 0 .. 32 - 1 /\ ~(i < 24) /\ s + cz[s] - 32 + i = x
            BY <2>1, <2>4, <1>2
        <3> HIDE DEF i
        <3>2. at(s, i) = x
            BY <3>1
        <3> QED
            BY <3>1, <3>2
    <2> QED
        BY <2>2, <2>3, <2>4
<1> HIDE DEF T, at
<1>12. Paired(S, 32, T, G)
    <2>1. \A b \in S : \A i \in 0 .. 32 - 1 : G[b][i] \in T
        BY <1>5, <1>8, <1>9
    <2>2. \A b, c \in S : \A i, j \in 0 .. 32 - 1 : G[b][i] = G[c][j] => b = c /\ i = j
        BY <1>5, <1>7, <1>8, <1>10
    <2>3. \A x \in T : \E b \in S : \E i \in 0 .. 32 - 1 : G[b][i] = x
        <3> TAKE x \in T
        <3>1. PICK s \in DOMAIN cz : \E i \in 0 .. 32 - 1 : at(s, i) = x
            BY <1>11
        <3>2. PICK i \in 0 .. 32 - 1 : at(s, i) = x
            BY <3>1
        <3>3. PICK b \in S : chunk(b) = s
            BY <1>6
        <3>4. G[b][i] = x
            BY <3>2, <3>3, <1>8
        <3> QED
            BY <3>4
    <2> QED
        BY <2>1, <2>2, <2>3 DEF Paired
<1>13. IsFiniteSet(S)
    BY DEF S
<1> HIDE DEF S
<1>14. IsFiniteSet(T) /\ Cardinality(T) = Cardinality(S) * 32
    BY <1>12, <1>13, PairsCount
<1> QED
    BY <1>14 DEF S, T

\* An epilogue follows the last block of a chunk, and no other.
LEMMA EpilogueIs ==
    ASSUME NEW cz, Placed(cz), NEW sz, Tiled(cz, sz), NEW fr, Tagged(heap, cz, sz, fr),
           NEW b \in DOMAIN sz
    PROVE  IsEpilogue(b) <=> b \in Last(cz, sz)
<1>1. \A c \in DOMAIN sz : c \in Nat /\ sz[c] \in Nat /\ sz[c] >= 32
    BY DEF Tiled
<1>2. \A s \in DOMAIN cz : s \in Nat /\ cz[s] \in Nat /\ cz[s] >= 64
    BY DEF Placed
<1>3. \A s, t \in DOMAIN cz : s # t => s + cz[s] <= t \/ t + cz[t] <= s
    BY DEF Placed
<1>4. PICK e \in Nat :
         /\ e = b + sz[b] /\ NEXT(heap, b) = e
         /\ \/ /\ e \in DOMAIN sz
               /\ Size(heap, e) = sz[e]
               /\ GET_ALLOC(heap, HDRP(e)) = (IF e \in fr THEN 0 ELSE 1)
               /\ \E s \in DOMAIN cz : s + 32 <= b /\ e + sz[e] <= s + cz[s]
            \/ /\ Size(heap, e) = 0
               /\ e \notin DOMAIN sz
               /\ GET_ALLOC(heap, HDRP(e)) = 1
               /\ \E s \in DOMAIN cz : s + 32 <= b /\ e = s + cz[s]
    BY NextIs
<1>5. IsEpilogue(b) <=> Size(heap, e) = 0
    BY <1>4 DEF IsEpilogue
<1>6. CASE e \notin DOMAIN sz
    <2>1. Size(heap, e) = 0 /\ \E s \in DOMAIN cz : e = s + cz[s]
        BY <1>4, <1>6
    <2> QED
        BY <2>1, <1>4, <1>5 DEF Last
<1>7. CASE e \in DOMAIN sz
    <2>1. Size(heap, e) = sz[e] /\ \E s \in DOMAIN cz : s + 32 <= b /\ e + sz[e] <= s + cz[s]
        BY <1>4, <1>7
    <2>2. ~IsEpilogue(b)
        BY <2>1, <1>1, <1>5, <1>7
    <2>3. ASSUME NEW t \in DOMAIN cz, b + sz[b] = t + cz[t] PROVE FALSE
        <3>1. PICK s \in DOMAIN cz : s + 32 <= b /\ e + sz[e] <= s + cz[s]
            BY <2>1
        <3>2. s + cz[s] <= t \/ t + cz[t] <= s \/ s = t
            BY <1>3
        <3>3. e = t + cz[t] /\ e > b
            BY <1>1, <1>4, <2>3
        <3> QED
            BY <3>1, <3>2, <3>3, <1>1, <1>2, <1>4, <1>7
    <2> QED
        BY <2>2, <2>3 DEF Last
<1> QED
    BY <1>6, <1>7

\* The invariant implies that no byte is lost.
LEMMA InvAccounted == Inv => Accounted
<1> SUFFICES ASSUME Inv PROVE Accounted
    OBVIOUS
<1>1. PICK cz, sz, fr, L, n : Whole(heap, cz, sz, fr, L, n) /\ Live(heap, ranges, sz, fr)
    BY DEF Inv, Good
<1>2. /\ Sound(heap) /\ Chunked(heap, cz) /\ Placed(cz) /\ Tiled(cz, sz)
      /\ Tagged(heap, cz, sz, fr) /\ fr \subseteq DOMAIN sz
    BY <1>1 DEF Whole, Formed, Chunked, Tagged
<1> DEFINE blocks == FreeBlocks \cup LiveBlocks
           ends == {b \in blocks : IsEpilogue(b)}
<1>3. /\ \A r \in ranges : LiveRange(heap, r, sz, fr)
      /\ \A b \in DOMAIN sz \ fr : \E r \in ranges : r.lo = b
    BY <1>1, LiveIs
<1>4. blocks = DOMAIN sz
    <2>1. FreeBlocks = fr
        BY <1>1, FreeBlocksAre
    <2>2. LiveBlocks = DOMAIN sz \ fr
        <3>1. \A r \in ranges : r.lo \in DOMAIN sz \ fr
            BY <1>3 DEF LiveRange
        <3> QED
            BY <3>1, <1>3 DEF LiveBlocks
    <2> QED
        BY <2>1, <2>2, <1>2
<1> HIDE DEF blocks
<1>5. \A b \in DOMAIN sz : b \in Nat /\ sz[b] \in Nat /\ sz[b] >= 32
    BY <1>2 DEF Tiled
<1>6. \A b \in DOMAIN sz : Size(heap, b) = sz[b]
    BY <1>2, SizeIs
<1>7. \A b \in DOMAIN sz : Extent(b) = Span(sz, b)
    BY <1>6 DEF Extent, Span, BYTE
<1>8. ASSUME NEW r \in ranges
      PROVE  Marked(r.lo, 1) /\ Size(heap, r.lo) >= r.hi - r.lo + 1 + OVERHEAD
    <2> DEFINE b == r.lo
               hi == r.hi
    <2>1. b \in DOMAIN sz \ fr /\ hi \in Int /\ hi + 17 <= b + sz[b]
        BY <1>3 DEF LiveRange
    <2> HIDE DEF b, hi
    <2>2. Marked(b, IF b \in fr THEN 0 ELSE 1)
        BY <2>1, <1>2, MarkedIs
    <2>3. Marked(b, 1)
        BY <2>1, <2>2
    <2>4. Size(heap, b) >= hi - b + 1 + 16
        BY <2>1, <1>5, <1>6
    <2> QED
        BY <2>3, <2>4 DEF b, hi, OVERHEAD
<1>9. ASSUME NEW b \in blocks, NEW c \in blocks, b # c
      PROVE  Extent(b) \cap Extent(c) = {}
    <2>1. b \in DOMAIN sz /\ c \in DOMAIN sz
        BY <1>4
    <2>2. b + sz[b] <= c \/ c + sz[c] <= b
        BY <2>1, <1>2, <1>9 DEF Tiled
    <2>3. Span(sz, b) \cap Span(sz, c) = {}
        BY <2>1, <2>2, <1>5 DEF Span
    <2> QED
        BY <2>1, <2>3, <1>7
<1> DEFINE U == UNION {Extent(b) : b \in blocks}
           B == BytesOf(heap.mapped)
           Q == Pad(cz)
<1>10. U = Body(sz)
    BY <1>4, <1>7 DEF Body
<1>11. ends = Last(cz, sz)
    <2>1. \A b \in DOMAIN sz : IsEpilogue(b) <=> b \in Last(cz, sz)
        BY <1>2, EpilogueIs
    <2>2. Last(cz, sz) \subseteq DOMAIN sz
        BY DEF Last
    <2> QED
        BY <2>1, <2>2, <1>4
<1>12. B = U \cup Q /\ U \cap Q = {}
    BY <1>2, <1>10, BodyPad
<1>13. /\ IsFiniteSet(B) /\ IsFiniteSet(heap.mapped)
       /\ Cardinality(B) = Cardinality(heap.mapped) * PAGESIZE
    <2>1. heap.mapped \in SUBSET AllPages
        BY <1>2 DEF Sound
    <2> QED
        BY <2>1, BytesCount
<1> HIDE DEF U, Q, B, ends
<1>14. IsFiniteSet(U)
    BY <1>12, <1>13, FS_Subset
<1>15. IsFiniteSet(ends)
    <2>1. ASSUME NEW b \in ends PROVE b \in B
        <3>1. b \in DOMAIN sz
            BY <2>1, <1>4 DEF ends
        <3>2. b \in Span(sz, b)
            BY <3>1, <1>5 DEF Span
        <3>3. b \in U
            BY <3>1, <3>2, <1>4, <1>7 DEF U
        <3> QED
            BY <3>3, <1>12
    <2>2. ends \in SUBSET B
        BY <2>1
    <2> QED
        BY <2>2, <1>13, FS_Subset
<1>16. IsFiniteSet(Q) /\ Cardinality(Q) = Cardinality(ends) * 32
    BY <1>2, <1>11, <1>15, PadCount DEF Q
<1>17. Cardinality(B) = Cardinality(U) + Cardinality(Q)
    <2>1. Cardinality(U \cup Q) = Cardinality(U) + Cardinality(Q) - Cardinality(U \cap Q)
        BY <1>14, <1>16, FS_Union
    <2>2. Cardinality(U \cap Q) = 0
        BY <1>12, FS_EmptySet
    <2>3. Cardinality(U) \in Nat /\ Cardinality(Q) \in Nat
        BY <1>14, <1>16, FS_CardinalityType
    <2> QED
        BY <2>1, <2>2, <2>3, <1>12
<1>18. Cardinality(U) + PAGE_OVERHEAD * Cardinality(ends) = PAGESIZE * Cardinality(heap.mapped)
    <2> DEFINE u == Cardinality(U)
               e == Cardinality(ends)
               m == Cardinality(heap.mapped)
    <2>1. u \in Nat /\ e \in Nat /\ m \in Nat /\ PAGESIZE \in Nat
        BY <1>13, <1>14, <1>15, FS_CardinalityType, PageSizeFacts
    <2>2. m * PAGESIZE = u + e * 32
        BY <1>13, <1>16, <1>17
    <2> HIDE DEF u, e, m
    <2>3. u + 32 * e = PAGESIZE * m
        BY <2>1, <2>2
    <2> QED
        BY <2>3 DEF u, e, m, PAGE_OVERHEAD
<1> QED
    BY <1>8, <1>9, <1>18 DEF Accounted, U, ends, blocks

\* Blocks handed out and blocks on the free list lie apart and, with 32 bytes for
\* each chunk, make up the mapped pages: mm_malloc and mm_free lose no byte.
THEOREM AllAccounted ==
    ASSUME SizesFit
    PROVE  Spec => []Accounted
BY Invariance, InvAccounted, PTL
=============================================================================
