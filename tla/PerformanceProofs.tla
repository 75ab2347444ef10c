---------------------------- MODULE PerformanceProofs ----------------------------
(***************************************************************************)
(* The optimised kernels compute what the naive ones do, for images of     *)
(* every size they are made for; the cycle counter's subtraction word by   *)
(* word is exact, for words of every width; the sampler keeps the fastest  *)
(* runs; and the driver times only versions that have drawn rightly, the   *)
(* fastest of which is the best.                                           *)
(***************************************************************************)
EXTENDS PerfDriver, WellFoundedInduction, TLAPS

-----------------------------------------------------------------------------
(* The cycle counter.                                                      *)

LEMMA ModWord == ASSUME NEW n \in -UINT .. UINT - 1
                 PROVE  n % UINT = IF n < 0 THEN n + UINT ELSE n
<1> USE UintAssumption
<1>1. CASE n < 0
    <2>1. n = (-1) * UINT + (n + UINT) /\ n + UINT \in 0 .. UINT - 1
        BY <1>1
    <2> QED
        BY <1>1, <2>1
<1> QED
    BY <1>1

\* The cycles that get_counter reports are those that have passed, even if the
\* low word has wrapped around any number of times meanwhile, unless the whole
\* counter has (clock.c:86-98).
THEOREM CounterExact ==
    ASSUME NEW cyc \in Counter, NEW ncyc \in Counter, Cycles(cyc) <= Cycles(ncyc)
    PROVE  get_counter(cyc, ncyc) = Cycles(ncyc) - Cycles(cyc)
<1> DEFINE lo == (ncyc.lo - cyc.lo) % UINT
           borrow == IF lo > ncyc.lo THEN 1 ELSE 0
           n == ncyc.hi - cyc.hi - borrow
<1> USE UintAssumption
<1>1. /\ cyc.hi \in Word /\ cyc.lo \in Word /\ ncyc.hi \in Word /\ ncyc.lo \in Word
    BY DEF Counter
<1>2. ncyc.lo - cyc.lo \in -UINT .. UINT - 1
    BY <1>1 DEF Word
<1>3. lo = IF ncyc.lo < cyc.lo THEN ncyc.lo - cyc.lo + UINT ELSE ncyc.lo - cyc.lo
    BY <1>1, <1>2, ModWord DEF Word
<1>4. borrow = IF ncyc.lo < cyc.lo THEN 1 ELSE 0
    BY <1>1, <1>3 DEF Word
<1>5. cyc.hi * UINT + cyc.lo <= ncyc.hi * UINT + ncyc.lo
    BY DEF Cycles
<1>6. n >= 0
    <2>1. CASE ncyc.hi < cyc.hi
        <3>1. (ncyc.hi + 1) * UINT <= cyc.hi * UINT
            BY <1>1, <2>1 DEF Word
        <3>2. ncyc.hi * UINT + UINT <= cyc.hi * UINT
            BY <1>1, <3>1 DEF Word
        <3> QED
            BY <1>1, <1>5, <3>2 DEF Word
    <2>2. CASE ncyc.hi = cyc.hi
        BY <1>1, <1>4, <1>5, <2>2 DEF Word
    <2> QED
        BY <1>1, <1>4, <2>1, <2>2 DEF Word
<1>7. n \in 0 .. UINT - 1
    BY <1>1, <1>4, <1>6 DEF Word
<1>8. n % UINT = n
    BY <1>7, ModWord
<1>9. get_counter(cyc, ncyc) = n * UINT + lo
    BY <1>8 DEF get_counter
<1> HIDE DEF lo, borrow
<1>10. n * UINT = ncyc.hi * UINT - cyc.hi * UINT - borrow * UINT
    BY <1>1, <1>4 DEF Word
<1> QED
    BY <1>1, <1>3, <1>4, <1>9, <1>10 DEF Cycles, Word

\* If the whole counter has wrapped around, once, they are right as well.
LEMMA CounterWraps ==
    ASSUME NEW cyc \in Counter, NEW ncyc \in Counter, Cycles(ncyc) < Cycles(cyc)
    PROVE  get_counter(cyc, ncyc) = Cycles(ncyc) - Cycles(cyc) + UINT * UINT
<1> DEFINE lo == (ncyc.lo - cyc.lo) % UINT
           borrow == IF lo > ncyc.lo THEN 1 ELSE 0
           n == ncyc.hi - cyc.hi - borrow
<1> USE UintAssumption
<1>1. /\ cyc.hi \in Word /\ cyc.lo \in Word /\ ncyc.hi \in Word /\ ncyc.lo \in Word
    BY DEF Counter
<1>2. ncyc.lo - cyc.lo \in -UINT .. UINT - 1
    BY <1>1 DEF Word
<1>3. lo = IF ncyc.lo < cyc.lo THEN ncyc.lo - cyc.lo + UINT ELSE ncyc.lo - cyc.lo
    BY <1>1, <1>2, ModWord DEF Word
<1>4. borrow = IF ncyc.lo < cyc.lo THEN 1 ELSE 0
    BY <1>1, <1>3 DEF Word
<1>5. ncyc.hi * UINT + ncyc.lo < cyc.hi * UINT + cyc.lo
    BY DEF Cycles
<1>6. n < 0
    <2>1. CASE ncyc.hi > cyc.hi
        <3>1. (cyc.hi + 1) * UINT <= ncyc.hi * UINT
            BY <1>1, <2>1 DEF Word
        <3>2. cyc.hi * UINT + UINT <= ncyc.hi * UINT
            BY <1>1, <3>1 DEF Word
        <3> QED
            BY <1>1, <1>5, <3>2 DEF Word
    <2>2. CASE ncyc.hi = cyc.hi
        BY <1>1, <1>4, <1>5, <2>2 DEF Word
    <2> QED
        BY <1>1, <1>4, <2>1, <2>2 DEF Word
<1>7. n \in -UINT .. UINT - 1
    BY <1>1, <1>4, <1>6 DEF Word
<1>8. n % UINT = n + UINT
    BY <1>6, <1>7, ModWord
<1>9. get_counter(cyc, ncyc) = (n + UINT) * UINT + lo
    BY <1>8 DEF get_counter
<1>10. (n + UINT) * UINT = ncyc.hi * UINT - cyc.hi * UINT - borrow * UINT + UINT * UINT
    BY <1>1, <1>4 DEF Word
<1> QED
    BY <1>1, <1>3, <1>4, <1>9, <1>10 DEF Cycles, Word

\* A later reading is one, and stands for the cycles that it should.
LEMMA LaterIs ==
    ASSUME NEW c \in Counter, NEW elapsed \in 0 .. UINT * UINT - 1
    PROVE  /\ Later(c, elapsed) \in Counter
           /\ Cycles(Later(c, elapsed)) = (Cycles(c) + elapsed) % (UINT * UINT)
<1> USE UintAssumption
<1> DEFINE n == (Cycles(c) + elapsed) % (UINT * UINT)
<1>1. UINT * UINT \in Nat \ {0}
    OBVIOUS
<1>2. c.hi \in Nat /\ c.lo \in Nat /\ c.hi * UINT \in Nat
    BY DEF Counter, Word
<1>3. n \in 0 .. UINT * UINT - 1
    BY <1>1, <1>2 DEF Cycles
<1> HIDE DEF n
<1> DEFINE q == n \div UINT  r == n % UINT
<1>4. q \in Nat /\ r \in 0 .. UINT - 1 /\ n = UINT * q + r
    BY <1>3
<1> HIDE DEF q, r
<1>5. q < UINT
    <2> SUFFICES ASSUME q >= UINT PROVE FALSE
        BY <1>4
    <2>1. UINT * q >= UINT * UINT
        BY <1>4
    <2> QED
        BY <1>3, <1>4, <2>1
<1>6. Later(c, elapsed) = [hi |-> q, lo |-> r]
    BY DEF Later, n, q, r
<1>7. q * UINT = UINT * q
    BY <1>4
<1> QED
    BY <1>4, <1>5, <1>6, <1>7 DEF Counter, Word, Cycles, n

\* A run's cycles are read exactly, wherever the counter stands at its start.
LEMMA RunIsExact ==
    ASSUME NEW c \in Counter, NEW cost \in 0 .. UINT * UINT - 1
    PROVE  get_counter(c, Later(c, cost)) = cost
<1> USE UintAssumption
<1> DEFINE U == UINT * UINT
           m == Cycles(c)
           d == Later(c, cost)
<1>1. U \in Nat \ {0}
    OBVIOUS
<1>2. m \in 0 .. U - 1
    <2>1. c.hi \in 0 .. UINT - 1 /\ c.lo \in 0 .. UINT - 1
        BY DEF Counter, Word
    <2>2. c.hi * UINT <= (UINT - 1) * UINT /\ c.hi * UINT >= 0
        BY <2>1
    <2>3. (UINT - 1) * UINT = U - UINT
        OBVIOUS
    <2> QED
        BY <2>1, <2>2, <2>3 DEF Cycles
<1>3. d \in Counter /\ Cycles(d) = (m + cost) % U
    BY LaterIs
<1>4. cost \in 0 .. U - 1
    OBVIOUS
<1> HIDE DEF U, m, d
<1>5. CASE m + cost < U
    <2>1. (m + cost) % U = m + cost
        BY <1>1, <1>2, <1>4, <1>5
    <2> QED
        BY <1>2, <1>3, <1>4, <2>1, CounterExact DEF m, d
<1>6. CASE m + cost >= U
    <2>1. m + cost - U \in 0 .. U - 1 /\ m + cost = 1 * U + (m + cost - U)
        BY <1>1, <1>2, <1>4, <1>6
    <2>2. (m + cost) % U = m + cost - U
        BY <1>1, <2>1
    <2>3. Cycles(d) < Cycles(c)
        BY <1>1, <1>2, <1>3, <1>4, <2>2 DEF m
    <2>4. get_counter(c, d) = Cycles(d) - Cycles(c) + U
        BY <1>3, <2>3, CounterWraps DEF U
    <2> QED
        BY <1>1, <1>2, <1>3, <1>4, <2>2, <2>4 DEF m, d
<1> QED
    BY <1>1, <1>2, <1>4, <1>5, <1>6

-----------------------------------------------------------------------------
(* Offsets of pixels.                                                      *)

LEMMA Rows == ASSUME NEW n \in Nat, NEW a \in Int, NEW c \in Int, a < c
              PROVE  a * n + n <= c * n
<1>1. (c - a - 1) * n >= 0
    OBVIOUS
<1>2. (c - a - 1) * n = c * n - a * n - n
    OBVIOUS
<1>3. a * n \in Int /\ c * n \in Int
    OBVIOUS
<1> QED
    BY <1>1, <1>2, <1>3

\* A row and a column of the image have an offset in the image.
LEMMA OffsetInImage == ASSUME NEW n \in Nat, NEW a \in 0 .. n - 1, NEW b \in 0 .. n - 1
                       PROVE  RIDX(a, b, n) \in 0 .. n * n - 1
<1>1. a * n + n <= n * n
    BY Rows
<1>2. a * n \in Nat
    OBVIOUS
<1> QED
    BY <1>1, <1>2 DEF RIDX

\* Different pixels have different offsets.
LEMMA OffsetsDiffer == ASSUME NEW n \in Nat, NEW a \in 0 .. n - 1, NEW b \in 0 .. n - 1,
                              NEW c \in 0 .. n - 1, NEW d \in 0 .. n - 1,
                              RIDX(a, b, n) = RIDX(c, d, n)
                       PROVE  a = c /\ b = d
<1>1. a * n \in Int /\ c * n \in Int /\ a * n + b = c * n + d
    BY DEF RIDX
<1>2. CASE a < c
    <2>1. a * n + n <= c * n
        BY <1>2, Rows
    <2> QED
        BY <1>1, <2>1
<1>3. CASE c < a
    <2>1. c * n + n <= a * n
        BY <1>3, Rows
    <2> QED
        BY <1>1, <2>1
<1> QED
    BY <1>1, <1>2, <1>3

LEMMA DivNat == ASSUME NEW a \in Nat, NEW d \in Nat \ {0}
                PROVE  a \div d \in Nat
OBVIOUS

\* A write reaches the pixel it is for and no other.
LEMMA WritesOne ==
    ASSUME dim \in Nat, dst \in Image(dim, Nat),
           NEW a \in 0 .. dim - 1, NEW b \in 0 .. dim - 1, NEW value \in Nat,
           Write(RIDX(a, b, dim), value)
    PROVE  /\ dst' \in Image(dim, Nat)
           /\ dst'[RIDX(a, b, dim)] = value
           /\ \A c, d \in 0 .. dim - 1 :
                  ~(c = a /\ d = b) => dst'[RIDX(c, d, dim)] = dst[RIDX(c, d, dim)]
<1> DEFINE o == RIDX(a, b, dim)
<1>1. o \in 0 .. dim * dim - 1
    BY OffsetInImage
<1>2. dst' = [dst EXCEPT ![o] = value]
    BY DEF Write
<1> HIDE DEF o
<1>3. dst' \in Image(dim, Nat) /\ dst'[o] = value
    BY <1>1, <1>2 DEF Image
<1>4. ASSUME NEW c \in 0 .. dim - 1, NEW d \in 0 .. dim - 1, ~(c = a /\ d = b)
      PROVE  dst'[RIDX(c, d, dim)] = dst[RIDX(c, d, dim)]
    <2>1. RIDX(c, d, dim) \in 0 .. dim * dim - 1
        BY OffsetInImage
    <2>2. RIDX(c, d, dim) # o
        BY <1>4, OffsetsDiffer DEF o
    <2> QED
        BY <1>2, <2>1, <2>2 DEF Image
<1> QED
    BY <1>3, <1>4 DEF o

-----------------------------------------------------------------------------
(* The inductive invariant.                                                *)

\* The part of column b that is in the window of row a.
Strip(a, b) == Pixel(dim, src, a, b) + Pixel(dim, src, a + 1, b) + Pixel(dim, src, a + 2, b)

Window(a, b) == Strip(a, b) + Strip(a, b + 1) + Strip(a, b + 2)

KernelTypeOK == /\ kernel \in {"motion", "complex"}
                /\ Fits(kernel, dim)
                /\ src \in Image(dim, Nat) /\ dst \in Image(dim, Nat)

\* motion's running sum is that of the window last written, and all pixels up
\* to the current one are done.
MotionInv == kernel = "motion" =>
    /\ \/ pc = "box" /\ i \in 0 .. dim - 1 /\ j = 0
       \/ pc = "slide" /\ i \in 0 .. dim - 1 /\ j \in 1 .. dim - 1 /\ p = Window(i, j - 1)
       \/ pc = "done" /\ i = dim /\ j = 0
    /\ \A a, b \in 0 .. dim - 1 : a < i \/ (a = i /\ b < j) =>
           dst[RIDX(a, b, dim)] = weighted_combo(dim, src, a, b)

\* complex is in a block of the grid, and all pixels of the blocks before it,
\* and those of this block up to the current one, are done.
Aligned(n) == \E k \in Nat : n = k * W

Before(a, b) == \/ a < i
                \/ a < i + W /\ b < j
                \/ a < ii /\ b < j + W
                \/ a = ii /\ b < jj

Grey(a, b) == dst[RIDX(dim - a - 1, dim - b - 1, dim)] = src[RIDX(b, a, dim)] \div 3

ComplexInv == kernel = "complex" =>
    \/ /\ pc = "pixel"
       /\ i \in 0 .. dim - 1 /\ Aligned(i)
       /\ j \in 0 .. dim - 1 /\ Aligned(j)
       /\ ii \in i .. i + W - 1 /\ jj \in j .. j + W - 1
       /\ \A a, b \in 0 .. dim - 1 : Before(a, b) => Grey(a, b)
    \/ /\ pc = "done"
       /\ \A a, b \in 0 .. dim - 1 : Grey(a, b)

KernelInv == KernelTypeOK /\ MotionInv /\ ComplexInv

-----------------------------------------------------------------------------
(* The sliding window.                                                     *)

LEMMA PixelNat == ASSUME KernelTypeOK, NEW a \in Nat, NEW b \in Nat
                  PROVE  Pixel(dim, src, a, b) \in Nat
<1>1. CASE a < dim /\ b < dim
    <2>1. dim \in Nat /\ a \in 0 .. dim - 1 /\ b \in 0 .. dim - 1
        BY <1>1 DEF KernelTypeOK, Fits
    <2>2. RIDX(a, b, dim) \in 0 .. dim * dim - 1
        BY <2>1, OffsetInImage
    <2> QED
        BY <1>1, <2>2 DEF Pixel, KernelTypeOK, Image
<1> QED
    BY <1>1 DEF Pixel

LEMMA StripNat == ASSUME KernelTypeOK, NEW a \in Nat, NEW b \in Nat
                  PROVE  Strip(a, b) \in Nat /\ (b >= dim => Strip(a, b) = 0)
<1>1. /\ Pixel(dim, src, a, b) \in Nat
      /\ Pixel(dim, src, a + 1, b) \in Nat
      /\ Pixel(dim, src, a + 2, b) \in Nat
    <2>1. a + 1 \in Nat /\ a + 2 \in Nat
        OBVIOUS
    <2> QED
        BY <2>1, PixelNat
<1>2. b >= dim => ~(b < dim)
    BY DEF KernelTypeOK, Fits
<1> QED
    BY <1>1, <1>2 DEF Strip, Pixel

\* The sum of a column of the window, as the code picks its pixels.
LEMMA ColumnIsStrip ==
    ASSUME KernelTypeOK, i \in 0 .. dim - 1, NEW b \in 0 .. dim - 1
    PROVE  Column(RIDX(i, b, dim)) = Strip(i, b)
<1> USE DEF KernelTypeOK, Fits
<1>1. /\ RIDX(i, b, dim) + dim = RIDX(i + 1, b, dim)
      /\ RIDX(i, b, dim) + 2 * dim = RIDX(i + 2, b, dim)
    BY DEF RIDX
<1>2. (Height > 1 <=> i + 1 < dim) /\ (Height > 2 <=> i + 2 < dim)
    BY DEF Height
<1>3. Column(RIDX(i, b, dim)) = src[RIDX(i, b, dim)]
          + (IF i + 1 < dim THEN src[RIDX(i + 1, b, dim)] ELSE 0)
          + (IF i + 2 < dim THEN src[RIDX(i + 2, b, dim)] ELSE 0)
    BY <1>1, <1>2 DEF Column
<1>4. i < dim /\ b < dim
    OBVIOUS
<1> QED
    BY <1>3, <1>4 DEF Strip, Pixel

\* The naive sum, row by row, is that of the three columns of the window.
LEMMA NaiveIsWindow ==
    ASSUME KernelTypeOK, i \in 0 .. dim - 1, NEW b \in 0 .. dim - 1
    PROVE  /\ Window(i, b) \in Nat
           /\ weighted_combo(dim, src, i, b) = Window(i, b) \div (Span(dim, b) * Height)
           /\ weighted_combo(dim, src, i, b) \in Nat
<1> DEFINE P(x, y) == Pixel(dim, src, i + x, b + y)
<1>1. ASSUME NEW x \in 0 .. 2, NEW y \in 0 .. 2
      PROVE  P(x, y) \in Nat
    <2>1. i + x \in Nat /\ b + y \in Nat
        BY DEF KernelTypeOK, Fits
    <2> QED
        BY <2>1, PixelNat
<1> USE DEF KernelTypeOK, Fits
<1>2. Window(i, b) = P(0, 0) + P(1, 0) + P(2, 0) + (P(0, 1) + P(1, 1) + P(2, 1))
                     + (P(0, 2) + P(1, 2) + P(2, 2))
    BY DEF Window, Strip
<1>3. Triple(dim, src, i, b) + Triple(dim, src, i + 1, b) + Triple(dim, src, i + 2, b)
      = P(0, 0) + P(0, 1) + P(0, 2) + (P(1, 0) + P(1, 1) + P(1, 2))
        + (P(2, 0) + P(2, 1) + P(2, 2))
    BY DEF Triple
<1> HIDE DEF P
<1>4. /\ Window(i, b) \in Nat
      /\ Triple(dim, src, i, b) + Triple(dim, src, i + 1, b) + Triple(dim, src, i + 2, b)
         = Window(i, b)
    BY <1>1, <1>2, <1>3
<1>5. Span(dim, i) = Height /\ Height \in 1 .. 3 /\ Span(dim, b) \in 1 .. 3
    BY DEF Span, Height
<1>6. Height * Span(dim, b) = Span(dim, b) * Height /\ Height * Span(dim, b) \in Nat \ {0}
    BY <1>5
<1> QED
    BY <1>4, <1>5, <1>6, DivNat DEF weighted_combo

\* Writing the next pixel's average adds it to those that are done.
LEMMA OneMorePixel ==
    ASSUME KernelInv, kernel = "motion", i \in 0 .. dim - 1, j \in 0 .. dim - 1,
           Write(RIDX(i, j, dim), Window(i, j) \div (Span(dim, j) * Height))
    PROVE  /\ dst' \in Image(dim, Nat)
           /\ \A a, b \in 0 .. dim - 1 : a < i \/ (a = i /\ b <= j) =>
                  dst'[RIDX(a, b, dim)] = weighted_combo(dim, src, a, b)
<1> DEFINE value == weighted_combo(dim, src, i, j)
<1>1. KernelTypeOK /\ dim \in Nat /\ dst \in Image(dim, Nat)
    BY DEF KernelInv, KernelTypeOK, Fits
<1>2. value \in Nat /\ value = Window(i, j) \div (Span(dim, j) * Height)
    BY <1>1, NaiveIsWindow
<1> HIDE DEF value
<1>3. Write(RIDX(i, j, dim), value)
    BY <1>2
<1>4. /\ dst' \in Image(dim, Nat)
      /\ dst'[RIDX(i, j, dim)] = value
      /\ \A c, d \in 0 .. dim - 1 :
             ~(c = i /\ d = j) => dst'[RIDX(c, d, dim)] = dst[RIDX(c, d, dim)]
    BY <1>1, <1>2, <1>3, WritesOne
<1>5. ASSUME NEW a \in 0 .. dim - 1, NEW b \in 0 .. dim - 1, a < i \/ (a = i /\ b <= j)
      PROVE  dst'[RIDX(a, b, dim)] = weighted_combo(dim, src, a, b)
    <2>1. CASE a = i /\ b = j
        BY <1>4, <2>1 DEF value
    <2>2. CASE ~(a = i /\ b = j)
        <3>1. a < i \/ (a = i /\ b < j)
            BY <1>1, <1>5, <2>2
        <3>2. dst[RIDX(a, b, dim)] = weighted_combo(dim, src, a, b)
            BY <3>1 DEF KernelInv, MotionInv
        <3> QED
            BY <1>4, <2>2, <3>2
    <2> QED
        BY <2>1, <2>2
<1> QED
    BY <1>4, <1>5

LEMMA BoxStep == ASSUME KernelInv, kernel = "motion", add_full_box
                 PROVE  KernelInv'
<1> USE DEF add_full_box
<1>1. KernelTypeOK /\ dim \in Nat /\ dim >= 3 /\ i \in 0 .. dim - 1 /\ j = 0
    BY DEF KernelInv, KernelTypeOK, MotionInv, Fits
<1>2. RIDX(i, 0, dim) + 1 = RIDX(i, 1, dim) /\ RIDX(i, 0, dim) + 2 = RIDX(i, 2, dim)
    BY <1>1 DEF RIDX
<1>3. p' = Window(i, 0)
    <2>1. 0 \in 0 .. dim - 1 /\ 1 \in 0 .. dim - 1 /\ 2 \in 0 .. dim - 1
        BY <1>1
    <2>2. p' = Strip(i, 0) + Strip(i, 1) + Strip(i, 2)
        BY <1>1, <1>2, <2>1, ColumnIsStrip
    <2> QED
        BY <2>2 DEF Window
<1>4. Span(dim, 0) = 3
    BY <1>1 DEF Span
<1>5. /\ dst' \in Image(dim, Nat)
      /\ \A a, b \in 0 .. dim - 1 : a < i \/ (a = i /\ b <= 0) =>
             dst'[RIDX(a, b, dim)] = weighted_combo(dim, src, a, b)
    BY <1>1, <1>3, <1>4, OneMorePixel
<1>6. KernelTypeOK'
    BY <1>1, <1>5 DEF KernelTypeOK
<1>7. MotionInv'
    <2>1. Window(i, 0)' = Window(i, 0)
        BY DEF Window, Strip
    <2> QED
        BY <1>1, <1>3, <1>5, <2>1 DEF MotionInv
<1> QED
    BY <1>6, <1>7 DEF KernelInv, ComplexInv

\* The window after the current one shares two of its columns.
LEMMA Slides == ASSUME KernelTypeOK, i \in 0 .. dim - 1, j \in 1 .. dim - 1,
                       p = Window(i, j - 1)
                PROVE  /\ j < dim - 2 => Window(i, j) =
                              p - Column(RIDX(i, j, dim) - 1) + Column(RIDX(i, j, dim) + 2)
                       /\ j >= dim - 2 => Window(i, j) = p - Column(RIDX(i, j, dim) - 1)
<1>1. /\ RIDX(i, j, dim) - 1 = RIDX(i, j - 1, dim)
      /\ RIDX(i, j, dim) + 2 = RIDX(i, j + 2, dim)
    BY DEF RIDX, KernelTypeOK, Fits
<1>2. /\ j - 1 \in Nat /\ j \in Nat /\ j + 1 \in Nat /\ j + 2 \in Nat /\ i \in Nat
      /\ j >= dim - 2 => j + 2 >= dim
    BY DEF KernelTypeOK, Fits
<1>3. /\ Strip(i, j - 1) \in Nat /\ Strip(i, j) \in Nat /\ Strip(i, j + 1) \in Nat
      /\ Strip(i, j + 2) \in Nat
      /\ j >= dim - 2 => Strip(i, j + 2) = 0
    BY <1>2, StripNat
<1> USE DEF KernelTypeOK, Fits
<1>4. Column(RIDX(i, j, dim) - 1) = Strip(i, j - 1)
    BY <1>1, ColumnIsStrip
<1>5. j < dim - 2 => Column(RIDX(i, j, dim) + 2) = Strip(i, j + 2)
    BY <1>1, ColumnIsStrip
<1>6. p = Strip(i, j - 1) + Strip(i, j) + Strip(i, j + 1)
    <2>1. j - 1 + 1 = j /\ j - 1 + 2 = j + 1
        OBVIOUS
    <2> QED
        BY <2>1 DEF Window
<1>7. Window(i, j) = Strip(i, j) + Strip(i, j + 1) + Strip(i, j + 2)
    BY DEF Window
<1> QED
    BY <1>3, <1>4, <1>5, <1>6, <1>7

LEMMA SlideStep == ASSUME KernelInv, kernel = "motion", slide \/ edge
                   PROVE  KernelInv'
<1> USE DEF slide, edge
<1>1. /\ KernelTypeOK /\ dim \in Nat /\ dim >= 3 /\ i \in 0 .. dim - 1
      /\ j \in 1 .. dim - 1 /\ p = Window(i, j - 1)
    BY DEF KernelInv, KernelTypeOK, MotionInv, Fits
<1>2. p' = Window(i, j)
    BY <1>1, Slides
<1>3. Write(RIDX(i, j, dim), Window(i, j) \div (Span(dim, j) * Height))
    <2>1. CASE slide
        BY <1>1, <1>2, <2>1 DEF Span
    <2>2. CASE edge
        BY <1>1, <1>2, <2>2 DEF Span
    <2> QED
        BY <2>1, <2>2
<1>4. /\ dst' \in Image(dim, Nat)
      /\ \A a, b \in 0 .. dim - 1 : a < i \/ (a = i /\ b <= j) =>
             dst'[RIDX(a, b, dim)] = weighted_combo(dim, src, a, b)
    BY <1>1, <1>3, OneMorePixel
<1>5. KernelTypeOK'
    BY <1>1, <1>4 DEF KernelTypeOK
<1>6. MotionInv'
    <2>2. CASE j < dim - 1
        <3>1. /\ i' = i /\ j' = j + 1 /\ j' - 1 = j /\ j' \in 1 .. dim - 1
              /\ pc' = "slide" /\ dim' = dim /\ src' = src
            <4>1. pc = "slide"
                OBVIOUS
            <4>2. i' = i /\ j' = j + 1 /\ pc' = pc /\ dim' = dim /\ src' = src
                BY <1>1, <2>2
            <4> QED
                BY <1>1, <2>2, <4>1, <4>2
        <3>2. Window(i, j - 1)' = Window(i, j)
            BY <3>1 DEF Window, Strip
        <3> QED
            BY <1>1, <1>2, <1>4, <3>1, <3>2 DEF MotionInv
    <2>3. CASE j = dim - 1
        <3>1. /\ i' = i + 1 /\ j' = 0 /\ dim' = dim /\ src' = src
              /\ pc' = IF i + 1 < dim THEN "box" ELSE "done"
            BY <1>1, <2>3
        <3>2. \A a, b \in 0 .. dim - 1 : a < i + 1 => a < i \/ (a = i /\ b <= j)
            BY <1>1, <2>3
        <3> QED
            BY <1>1, <1>4, <3>1, <3>2 DEF MotionInv
    <2> QED
        BY <1>1, <2>2, <2>3
<1> QED
    BY <1>5, <1>6 DEF KernelInv, ComplexInv

-----------------------------------------------------------------------------
(* The blocks.                                                             *)

\* Blocks have a side.
LEMMA SideIs == W \in Nat \ {0}
BY SideAssumption DEF W, BlockSide

\* The side of the blocks depends on the image's alone.
LEMMA SideStays == dim' = dim => W' = W
BY DEF W, BlockSide

\* A block that starts in the image ends in it, and the next one starts on the grid.
LEMMA NextBlock == ASSUME NEW n \in Nat, Aligned(n), NEW x \in 0 .. n - 1, Aligned(x)
                   PROVE  Aligned(x + W) /\ x + W <= n
<1>1. PICK k \in Nat : x = k * W
    BY DEF Aligned
<1>2. PICK m \in Nat : n = m * W
    BY DEF Aligned
<1>3. x + W = (k + 1) * W
    BY <1>1, SideIs
<1>4. k < m
    <2>1. SUFFICES ASSUME m <= k PROVE FALSE
        OBVIOUS
    <2>2. m * W <= k * W
        <3>1. (k - m) * W >= 0
            BY <2>1, SideIs
        <3>2. (k - m) * W = k * W - m * W
            BY SideIs
        <3>3. k * W \in Int /\ m * W \in Int
            BY SideIs
        <3> QED
            BY <3>1, <3>2, <3>3
    <2> QED
        BY <1>1, <1>2, <2>2
<1>5. k * W + W <= m * W
    BY <1>4, Rows, SideIs
<1>6. x + W <= n
    BY <1>1, <1>2, <1>5
<1>7. Aligned(x + W)
    <2>1. k + 1 \in Nat
        OBVIOUS
    <2> QED
        BY <1>3, <2>1 DEF Aligned
<1> QED
    BY <1>6, <1>7

\* Every step of complex makes the current pixel grey and leaves those done.
LEMMA OneMoreGrey ==
    ASSUME KernelInv, kernel = "complex", pc = "pixel",
           ii \in 0 .. dim - 1, jj \in 0 .. dim - 1, grey, UNCHANGED <<dim, src>>
    PROVE  /\ dst' \in Image(dim, Nat)
           /\ \A a, b \in 0 .. dim - 1 :
                  Before(a, b) \/ (a = ii /\ b = jj) => Grey(a, b)'
<1> DEFINE value == src[RIDX(jj, ii, dim)] \div 3
           c == dim - ii - 1
           d == dim - jj - 1
<1>1. dim \in Nat /\ src \in Image(dim, Nat) /\ dst \in Image(dim, Nat)
    BY DEF KernelInv, KernelTypeOK, Fits
<1>2. c \in 0 .. dim - 1 /\ d \in 0 .. dim - 1
    BY <1>1
<1>3. RIDX(jj, ii, dim) \in 0 .. dim * dim - 1
    BY <1>1, OffsetInImage
<1>4. value \in Nat
    BY <1>1, <1>3, DivNat DEF Image
<1>5. dim * dim - dim * ii - jj - 1 = RIDX(c, d, dim)
    <2>1. c * dim = dim * dim - dim * ii - dim
        BY <1>1
    <2>2. dim * dim \in Int /\ dim * ii \in Int
        BY <1>1
    <2> QED
        BY <1>1, <2>1, <2>2 DEF RIDX
<1>6. Write(RIDX(c, d, dim), value)
    BY <1>5 DEF grey
<1> HIDE DEF value, c, d
<1>7. /\ dst' \in Image(dim, Nat)
      /\ dst'[RIDX(c, d, dim)] = value
      /\ \A x, y \in 0 .. dim - 1 :
             ~(x = c /\ y = d) => dst'[RIDX(x, y, dim)] = dst[RIDX(x, y, dim)]
    BY <1>1, <1>2, <1>4, <1>6, WritesOne
<1>8. ASSUME NEW a \in 0 .. dim - 1, NEW b \in 0 .. dim - 1,
             Before(a, b) \/ (a = ii /\ b = jj)
      PROVE  Grey(a, b)'
    <2>1. CASE a = ii /\ b = jj
        BY <1>7, <2>1 DEF Grey, value, c, d
    <2>2. CASE ~(a = ii /\ b = jj)
        <3>1. Grey(a, b)
            BY <1>8, <2>2 DEF KernelInv, ComplexInv
        <3>2. /\ dim - a - 1 \in 0 .. dim - 1 /\ dim - b - 1 \in 0 .. dim - 1
              /\ ~(dim - a - 1 = c /\ dim - b - 1 = d)
            BY <1>1, <2>2 DEF c, d
        <3> QED
            BY <1>7, <3>1, <3>2 DEF Grey
    <2> QED
        BY <2>1, <2>2
<1> QED
    BY <1>7, <1>8

LEMMA PixelStep == ASSUME KernelInv, kernel = "complex", complex_blocking
                   PROVE  KernelInv'
<1>1. /\ KernelTypeOK /\ dim \in Nat /\ pc = "pixel"
      /\ i \in 0 .. dim - 1 /\ j \in 0 .. dim - 1 /\ Aligned(i) /\ Aligned(j)
      /\ ii \in i .. i + W - 1 /\ jj \in j .. j + W - 1
    BY DEF KernelInv, KernelTypeOK, ComplexInv, complex_blocking, Fits
<1>2. Aligned(dim)
    BY <1>1 DEF KernelInv, KernelTypeOK, Fits, Aligned, W
<1>3. /\ Aligned(i + W) /\ i + W <= dim
      /\ Aligned(j + W) /\ j + W <= dim
    BY <1>1, <1>2, NextBlock
<1>4. ii \in 0 .. dim - 1 /\ jj \in 0 .. dim - 1
    BY <1>1, <1>3, SideIs
<1>5. UNCHANGED <<kernel, dim, src, p>> /\ grey /\ next_pixel
    BY DEF complex_blocking
<1>6. /\ dst' \in Image(dim, Nat)
      /\ \A a, b \in 0 .. dim - 1 :
             Before(a, b) \/ (a = ii /\ b = jj) => Grey(a, b)'
    BY <1>1, <1>4, <1>5, OneMoreGrey
<1>7. KernelTypeOK'
    BY <1>1, <1>5, <1>6 DEF KernelTypeOK
<1>8. ASSUME pc' = "pixel",
             i' \in 0 .. dim - 1, Aligned(i)', j' \in 0 .. dim - 1, Aligned(j)',
             ii' \in i' .. i' + W - 1, jj' \in j' .. j' + W - 1,
             \A a, b \in 0 .. dim - 1 :
                 Before(a, b)' => Before(a, b) \/ (a = ii /\ b = jj)
      PROVE  ComplexInv'
    BY <1>5, <1>6, <1>8, SideStays DEF ComplexInv
<1>9. ComplexInv'
    <2>0. W' = W /\ W \in Nat \ {0}
        BY <1>5, SideIs, SideStays
    <2>1. CASE jj + 1 < j + W
        <3>1. jj' = jj + 1 /\ UNCHANGED <<i, j, ii, pc>>
            BY <1>1, <2>0, <1>5, <2>1 DEF next_pixel
        <3>2. jj' \in j' .. j' + W - 1 /\ ii' \in i' .. i' + W - 1
            BY <1>1, <2>0, <2>1, <3>1
        <3>3. \A a, b \in 0 .. dim - 1 : Before(a, b)' => Before(a, b) \/ (a = ii /\ b = jj)
            BY <1>1, <2>0, <3>1 DEF Before
        <3>4. Aligned(i)' /\ Aligned(j)'
            BY <1>1, <2>0, <3>1 DEF Aligned
        <3> QED
            BY <1>1, <2>0, <1>8, <3>1, <3>2, <3>3, <3>4
    <2>2. CASE jj + 1 >= j + W /\ ii + 1 < i + W
        <3>1. jj' = j /\ ii' = ii + 1 /\ UNCHANGED <<i, j, pc>>
            BY <1>1, <2>0, <1>5, <2>2 DEF next_pixel
        <3>2. jj' \in j' .. j' + W - 1 /\ ii' \in i' .. i' + W - 1
            BY <1>1, <2>0, <2>2, <3>1
        <3>3. \A a, b \in 0 .. dim - 1 : Before(a, b)' => Before(a, b) \/ (a = ii /\ b = jj)
            BY <1>1, <2>0, <2>2, <3>1 DEF Before
        <3>4. Aligned(i)' /\ Aligned(j)'
            BY <1>1, <2>0, <3>1 DEF Aligned
        <3> QED
            BY <1>1, <2>0, <1>8, <3>1, <3>2, <3>3, <3>4
    <2>3. CASE jj + 1 >= j + W /\ ii + 1 >= i + W /\ j + W < dim
        <3>1. j' = j + W /\ jj' = j + W /\ ii' = i /\ UNCHANGED <<i, pc>>
            BY <1>1, <2>0, <1>5, <2>3 DEF next_pixel
        <3>2. /\ jj' \in j' .. j' + W - 1 /\ ii' \in i' .. i' + W - 1
              /\ j' \in 0 .. dim - 1
            BY <1>1, <2>0, <2>3, <3>1
        <3>3. \A a, b \in 0 .. dim - 1 : Before(a, b)' => Before(a, b) \/ (a = ii /\ b = jj)
            BY <1>1, <2>0, <2>3, <3>1 DEF Before
        <3>4. Aligned(i)' /\ Aligned(j)'
            BY <1>1, <2>0, <1>3, <3>1 DEF Aligned
        <3> QED
            BY <1>1, <2>0, <1>8, <3>1, <3>2, <3>3, <3>4
    <2>4. CASE jj + 1 >= j + W /\ ii + 1 >= i + W /\ j + W >= dim
        <3>1. /\ i' = i + W /\ ii' = i + W /\ j' = 0 /\ jj' = 0
              /\ pc' = IF i + W < dim THEN "pixel" ELSE "done"
            BY <1>1, <2>0, <1>5, <2>4 DEF next_pixel
        <3>2. ASSUME NEW a \in 0 .. dim - 1, NEW b \in 0 .. dim - 1, a < i + W
              PROVE  Before(a, b) \/ (a = ii /\ b = jj)
            BY <1>1, <2>0, <2>4, <3>2 DEF Before
        <3>3. CASE i + W < dim
            <4>1. /\ jj' \in j' .. j' + W - 1 /\ ii' \in i' .. i' + W - 1
                  /\ i' \in 0 .. dim - 1 /\ j' \in 0 .. dim - 1
                BY <1>1, <2>0, <3>1, <3>3
            <4>2. \A a, b \in 0 .. dim - 1 :
                      Before(a, b)' => Before(a, b) \/ (a = ii /\ b = jj)
                <5>1. \A a, b \in 0 .. dim - 1 : Before(a, b)' => a < i + W
                    BY <1>1, <2>0, <3>1 DEF Before
                <5> QED
                    BY <3>2, <5>1
            <4>3. Aligned(i)' /\ Aligned(j)'
                <5>1. 0 = 0 * W
                    BY <2>0
                <5> QED
                    BY <1>3, <2>0, <3>1, <5>1 DEF Aligned
            <4> QED
                BY <1>8, <2>0, <3>1, <3>3, <4>1, <4>2, <4>3
        <3>4. CASE ~(i + W < dim)
            <4>1. \A a \in 0 .. dim - 1 : a < i + W
                BY <1>1, <2>0, <3>4
            <4>2. \A a, b \in 0 .. dim - 1 : Grey(a, b)'
                BY <1>6, <3>2, <4>1
            <4> QED
                BY <1>5, <3>1, <3>4, <4>2 DEF ComplexInv
        <3> QED
            BY <3>3, <3>4
    <2> QED
        BY <1>1, <2>0, <2>1, <2>2, <2>3, <2>4
<1> QED
    BY <1>5, <1>7, <1>9 DEF KernelInv, MotionInv

-----------------------------------------------------------------------------
LEMMA KernelStart == KernelInit => KernelInv
<1> SUFFICES ASSUME KernelInit PROVE KernelInv
    OBVIOUS
<1> USE DEF KernelInit
<1>1. KernelTypeOK
    BY DEF KernelTypeOK
<1>2. MotionInv
    BY DEF MotionInv, Fits
<1>3. ComplexInv
    <2>1. SUFFICES ASSUME kernel = "complex" PROVE ComplexInv
        BY DEF ComplexInv
    <2>2. dim \in Nat /\ dim >= 1
        BY <2>1 DEF Fits
    <2>3. 0 = 0 * W
        BY SideIs
    <2>4. \A a, b \in 0 .. dim - 1 : ~Before(a, b)
        BY <2>2 DEF Before
    <2> QED
        BY <2>2, <2>3, <2>4, SideIs DEF ComplexInv, Aligned
<1> QED
    BY <1>1, <1>2, <1>3 DEF KernelInv

LEMMA KernelStep == KernelInv /\ [KernelNext]_kernel_vars => KernelInv'
<1> SUFFICES ASSUME KernelInv, [KernelNext]_kernel_vars PROVE KernelInv'
    OBVIOUS
<1>1. CASE dp_motion
    <2>1. kernel = "motion"
        BY <1>1 DEF KernelInv, KernelTypeOK, ComplexInv, dp_motion, add_full_box, slide, edge
    <2> QED
        BY <1>1, <2>1, BoxStep, SlideStep DEF dp_motion
<1>2. CASE complex_blocking
    <2>1. kernel = "complex"
        BY <1>2 DEF KernelInv, KernelTypeOK, MotionInv, complex_blocking
    <2> QED
        BY <1>2, <2>1, PixelStep
<1>3. CASE UNCHANGED kernel_vars
    BY <1>3 DEF KernelInv, KernelTypeOK, MotionInv, ComplexInv, Before, Grey, Aligned,
                Window, Strip, W, kernel_vars
<1> QED
    BY <1>1, <1>2, <1>3 DEF KernelNext

LEMMA KernelInvAgrees == KernelInv => AgreesWithNaive
<1> SUFFICES ASSUME KernelInv, pc = "done"
             PROVE  /\ kernel = "motion" => naive_motion(dim, src, dst)
                    /\ kernel = "complex" => naive_complex(dim, src, dst)
    BY DEF AgreesWithNaive
<1>1. dim \in Nat
    BY DEF KernelInv, KernelTypeOK, Fits
<1>2. ASSUME kernel = "motion" PROVE naive_motion(dim, src, dst)
    BY <1>1, <1>2 DEF KernelInv, MotionInv, naive_motion
<1>3. ASSUME kernel = "complex" PROVE naive_complex(dim, src, dst)
    <2>1. \A a, b \in 0 .. dim - 1 : Grey(b, a)
        BY <1>3 DEF KernelInv, ComplexInv
    <2> QED
        BY <2>1 DEF Grey, naive_complex
<1> QED
    BY <1>2, <1>3

\* The optimised kernels make of every image, of every size they are made for,
\* what the naive ones make of it: no pixel that slides out of motion's window
\* is missed or dropped twice, and complex's blocks cover the image.
THEOREM KernelsAgree == KernelSpec => []AgreesWithNaive
<1>1. KernelInit => KernelInv
    BY KernelStart
<1>2. KernelInv /\ [KernelNext]_kernel_vars => KernelInv'
    BY KernelStep
<1>3. KernelInv => AgreesWithNaive
    BY KernelInvAgrees
<1> QED
    BY <1>1, <1>2, <1>3, PTL DEF KernelSpec

-----------------------------------------------------------------------------
(* The sampler.                                                            *)

Ordered(s) == \A m, n \in DOMAIN s : m < n => s[m] <= s[n]

\* A set of natural numbers has a least element.
LEMMA Least ==
    ASSUME NEW S \in SUBSET Nat, S # {}
    PROVE  \E n \in S : \A m \in S : n <= m
<1>0. OpToRel(<, Nat) = {ss \in Nat \X Nat : ss[1] < ss[2]}
    BY Zenon DEF OpToRel
<1> DEFINE R == OpToRel(<, Nat)
<1>1. \E x \in S : \A y \in S : ~ (<<y, x>> \in R)
    BY NatLessThanWellFounded, WFMin
<1>2. R = {ss \in Nat \X Nat : ss[1] < ss[2]}
    BY <1>0
<1> HIDE DEF R
<1>3. PICK x \in S : \A y \in S : ~ (<<y, x>> \in R)
    BY <1>1
<1>4. ASSUME NEW y \in S, y < x PROVE FALSE
    <2>1. <<y, x>> \in Nat \X Nat /\ <<y, x>>[1] < <<y, x>>[2]
        BY <1>4
    <2>2. <<y, x>> \in R
        BY <2>1, <1>2
    <2> QED
        BY <2>2, <1>3
<1> QED
    BY <1>4, <1>3

\* The insertion sort stops somewhere.
LEMMA PlaceIs ==
    ASSUME NEW s \in Seq(Int), NEW val \in Int
    PROVE  /\ Place(s, val) \in 0 .. Len(s)
           /\ Place(s, val) > 0 => s[Place(s, val)] <= val
           /\ \A k \in Place(s, val) + 1 .. Len(s) : s[k] > val
<1> DEFINE Passes(n) == \A k \in n + 1 .. Len(s) : s[k] > val
           T == {n \in 0 .. Len(s) : Passes(n)}
<1>1. Len(s) \in Nat
    OBVIOUS
<1>2. \A k \in 1 .. Len(s) : s[k] \in Int
    OBVIOUS
<1>3. T \in SUBSET Nat /\ T # {}
    <2>1. Passes(Len(s))
        BY <1>1
    <2> QED
        BY <1>1, <2>1
<1> HIDE DEF T
<1>4. PICK n \in T : \A m \in T : n <= m
    BY <1>3, Least
<1>5. n \in 0 .. Len(s) /\ Passes(n)
    BY <1>4 DEF T
<1>6. ASSUME n > 0 PROVE s[n] <= val
    <2> SUFFICES ASSUME s[n] > val PROVE FALSE
        BY <1>1, <1>2, <1>5, <1>6
    <2>1. Passes(n - 1)
        <3> SUFFICES ASSUME NEW k \in n - 1 + 1 .. Len(s) PROVE s[k] > val
            OBVIOUS
        <3>1. k = n \/ k \in n + 1 .. Len(s)
            BY <1>1, <1>5
        <3> QED
            BY <1>5, <3>1
    <2>2. n - 1 \in T
        BY <1>5, <1>6, <2>1 DEF T
    <2> QED
        BY <1>4, <1>5, <2>2
<1>7. \E q \in 0 .. Len(s) : /\ q > 0 => s[q] <= val
                             /\ \A k \in q + 1 .. Len(s) : s[k] > val
    BY <1>5, <1>6
<1> QED
    BY <1>7 DEF Place

\* What the insertion sort makes of the values.
LEMMA InsertedIs ==
    ASSUME NEW s \in Seq(Int), NEW val \in Int
    PROVE  /\ Inserted(s, val) \in Seq(Int)
           /\ Len(Inserted(s, val)) = Len(s) + 1
           /\ \A k \in 1 .. Place(s, val) : Inserted(s, val)[k] = s[k]
           /\ Inserted(s, val)[Place(s, val) + 1] = val
           /\ \A k \in Place(s, val) + 2 .. Len(s) + 1 : Inserted(s, val)[k] = s[k - 1]
<1> DEFINE n == Place(s, val)
           front == SubSeq(s, 1, n)  back == SubSeq(s, n + 1, Len(s))
           mid == front \o <<val>>  t == mid \o back
<1>1. Inserted(s, val) = t
    BY DEF Inserted
<1>2. Len(s) \in Nat /\ n \in 0 .. Len(s)
    BY PlaceIs
<1> HIDE DEF n
<1>3. /\ front \in Seq(Int) /\ Len(front) = n
      /\ \A k \in 1 .. n : front[k] = s[k]
    BY <1>2
<1>4. /\ back \in Seq(Int) /\ Len(back) = Len(s) - n
      /\ \A k \in 1 .. Len(s) - n : back[k] = s[n + k]
    BY <1>2
<1>5. <<val>> \in Seq(Int) /\ Len(<<val>>) = 1 /\ <<val>>[1] = val
    OBVIOUS
<1> HIDE DEF front, back
<1>6. /\ mid \in Seq(Int) /\ Len(mid) = n + 1 /\ mid[n + 1] = val
      /\ \A k \in 1 .. n : mid[k] = s[k]
    BY <1>2, <1>3, <1>5
<1> HIDE DEF mid
<1>7. t \in Seq(Int) /\ Len(t) = Len(s) + 1
    BY <1>2, <1>4, <1>6
<1>8. t[n + 1] = val /\ \A k \in 1 .. n : t[k] = s[k]
    BY <1>2, <1>4, <1>6
<1>9. ASSUME NEW k \in n + 2 .. Len(s) + 1 PROVE t[k] = s[k - 1]
    <2>1. k - (n + 1) \in 1 .. Len(s) - n
        BY <1>2
    <2>2. t[k] = back[k - (n + 1)]
        <3>1. k \in Len(mid) + 1 .. Len(mid) + Len(back) /\ Len(mid) = n + 1
            BY <1>2, <1>4, <1>6
        <3>2. t[k] = back[k - Len(mid)]
            BY <1>4, <1>6, <3>1
        <3> QED
            BY <3>1, <3>2
    <2>3. n + (k - (n + 1)) = k - 1
        BY <1>2
    <2> QED
        BY <1>4, <2>1, <2>2, <2>3
<1> HIDE DEF t
<1> QED
    BY <1>1, <1>7, <1>8, <1>9 DEF n

\* Inserting keeps the values in order.
LEMMA InsertedOrdered ==
    ASSUME NEW s \in Seq(Int), NEW val \in Int, Ordered(s)
    PROVE  Ordered(Inserted(s, val))
<1> DEFINE n == Place(s, val)  t == Inserted(s, val)
<1>1. /\ n \in 0 .. Len(s)
      /\ n > 0 => s[n] <= val
      /\ \A k \in n + 1 .. Len(s) : s[k] > val
    BY PlaceIs
<1>2. Len(s) \in Nat /\ DOMAIN s = 1 .. Len(s) /\ \A k \in 1 .. Len(s) : s[k] \in Int
    OBVIOUS
<1>4. /\ t \in Seq(Int) /\ Len(t) = Len(s) + 1
      /\ \A k \in 1 .. n : t[k] = s[k]
      /\ t[n + 1] = val
      /\ \A k \in n + 2 .. Len(s) + 1 : t[k] = s[k - 1]
    BY InsertedIs
<1> HIDE DEF n, t
<1>5. DOMAIN t = 1 .. Len(s) + 1
    BY <1>4
<1>6. \A k \in 1 .. Len(s) : k <= n => s[k] <= val
    BY <1>1, <1>2 DEF Ordered
<1>7. ASSUME NEW a \in 1 .. Len(s) + 1, NEW b \in 1 .. Len(s) + 1, a < b PROVE t[a] <= t[b]
    <2>1. CASE b <= n
        <3>1. a \in 1 .. n /\ b \in 1 .. n /\ a \in 1 .. Len(s) /\ b \in 1 .. Len(s)
            BY <1>1, <1>2, <1>7, <2>1
        <3>2. t[a] = s[a] /\ t[b] = s[b]
            BY <1>4, <3>1
        <3> QED
            BY <1>2, <1>7, <3>1, <3>2 DEF Ordered
    <2>2. CASE b = n + 1
        BY <1>1, <1>2, <1>4, <1>6, <1>7, <2>2
    <2>3. CASE b > n + 1
        <3>1. t[b] = s[b - 1] /\ b - 1 \in n + 1 .. Len(s) /\ s[b - 1] > val /\ s[b - 1] \in Int
            BY <1>1, <1>2, <1>4, <2>3
        <3>2. CASE a <= n
            <4>1. t[a] = s[a] /\ a \in 1 .. Len(s) /\ a < b - 1
                BY <1>1, <1>2, <1>4, <2>3, <3>2
            <4>2. b - 1 \in 1 .. Len(s)
                BY <1>1, <1>2, <3>1
            <4> QED
                BY <1>2, <3>1, <4>1, <4>2 DEF Ordered
        <3>3. CASE a = n + 1
            BY <1>1, <1>2, <1>4, <3>1, <3>3
        <3>4. CASE a > n + 1
            <4>1. t[a] = s[a - 1] /\ a - 1 \in 1 .. Len(s) /\ a - 1 < b - 1 /\ b - 1 \in 1 .. Len(s)
                BY <1>1, <1>2, <1>4, <1>7, <2>3, <3>4
            <4> QED
                BY <1>2, <3>1, <4>1 DEF Ordered
        <3> QED
            BY <1>1, <3>2, <3>3, <3>4
    <2> QED
        BY <1>1, <2>1, <2>2, <2>3
<1> QED
    BY <1>5, <1>7 DEF Ordered, t

\* The values are those of some runs, each of another one.
Kept(vals, durs, run) ==
    /\ run \in [1 .. Len(vals) -> 1 .. Len(durs)]
    /\ \A m, n \in 1 .. Len(vals) : run[m] = run[n] => m = n
    /\ \A n \in 1 .. Len(vals) : vals[n] = durs[run[n]]

Covered(vals, run, d) == \E k \in 1 .. Len(vals) : run[k] = d

\* Inserting keeps that.
LEMMA InsertedKept ==
    ASSUME NEW s \in Seq(Int), NEW val \in Int, NEW durs \in Seq(Int), NEW run, Kept(s, durs, run)
    PROVE  \E longer :
               /\ Kept(Inserted(s, val), Append(durs, val), longer)
               /\ Covered(Inserted(s, val), longer, Len(durs) + 1)
               /\ \A d : Covered(s, run, d) => Covered(Inserted(s, val), longer, d)
<1> DEFINE n == Place(s, val)  t == Inserted(s, val)  N == Len(durs)
           more == Append(durs, val)
           longer == [k \in 1 .. Len(s) + 1 |-> IF k <= n THEN run[k]
                                                ELSE IF k = n + 1 THEN N + 1 ELSE run[k - 1]]
<1>1. n \in 0 .. Len(s) /\ Len(s) \in Nat /\ N \in Nat
    <2>1. n \in 0 .. Len(s)
        BY PlaceIs
    <2> QED
        BY <2>1
<1>2. /\ Len(t) = Len(s) + 1
      /\ \A k \in 1 .. n : t[k] = s[k]
      /\ t[n + 1] = val
      /\ \A k \in n + 2 .. Len(s) + 1 : t[k] = s[k - 1]
    BY InsertedIs
<1>3. /\ Len(more) = N + 1 /\ more[N + 1] = val
      /\ \A k \in 1 .. N : more[k] = durs[k]
    OBVIOUS
<1>4. /\ \A k \in 1 .. Len(s) : run[k] \in 1 .. N
      /\ \A k, m \in 1 .. Len(s) : run[k] = run[m] => k = m
      /\ \A k \in 1 .. Len(s) : s[k] = durs[run[k]]
    BY DEF Kept
<1> HIDE DEF n, t, more, N
<1>5. /\ DOMAIN longer = 1 .. Len(s) + 1
      /\ \A k \in 1 .. n : longer[k] = run[k]
      /\ longer[n + 1] = N + 1
      /\ longer = [k \in 1 .. Len(s) + 1 |-> longer[k]]
    BY <1>1
<1>10. \A k \in n + 2 .. Len(s) + 1 : longer[k] = run[k - 1]
    BY <1>1
<1>11. \A k \in n + 2 .. Len(s) + 1 : t[k] = s[k - 1]
    BY <1>2
<1> HIDE DEF longer
<1>6. ASSUME NEW k \in 1 .. Len(s) + 1
      PROVE  k \in 1 .. n \/ k = n + 1 \/ k \in n + 2 .. Len(s) + 1
    BY <1>1
<1>7. Kept(t, more, longer)
    <2>1. \A k \in 1 .. n : k \in 1 .. Len(s)
        BY <1>1
    <2>2. \A k \in n + 2 .. Len(s) + 1 : k - 1 \in 1 .. Len(s) /\ k - 1 \notin 1 .. n
        BY <1>1
    <2>3. ASSUME NEW k \in 1 .. Len(s) + 1
          PROVE  longer[k] \in 1 .. N + 1 /\ t[k] = more[longer[k]]
        <3>1. CASE k \in 1 .. n
            <4>1. longer[k] \in 1 .. N /\ t[k] = durs[longer[k]]
                BY <1>2, <1>4, <1>5, <2>1, <3>1
            <4> QED
                BY <1>1, <1>3, <4>1
        <3>2. CASE k = n + 1
            BY <1>1, <1>2, <1>3, <1>5, <3>2
        <3>3. CASE k \in n + 2 .. Len(s) + 1
            <4>1. longer[k] = run[k - 1] /\ t[k] = s[k - 1]
                BY <1>10, <1>11, <3>3
            <4>2. k - 1 \in 1 .. Len(s)
                BY <2>2, <3>3
            <4>3. run[k - 1] \in 1 .. N /\ s[k - 1] = durs[run[k - 1]]
                BY <1>4, <4>2
            <4> QED
                BY <1>1, <1>3, <4>1, <4>3
        <3> QED
            BY <1>6, <3>1, <3>2, <3>3
    <2>4. longer \in [1 .. Len(t) -> 1 .. Len(more)]
        BY <1>2, <1>3, <1>5, <2>3
    <2>5. ASSUME NEW k \in 1 .. Len(s) + 1
          PROVE  \/ k \in 1 .. n /\ k \in 1 .. Len(s) /\ longer[k] = run[k] /\ longer[k] # N + 1
                 \/ k = n + 1 /\ longer[k] = N + 1
                 \/ /\ k - 1 \in 1 .. Len(s) /\ k - 1 \notin 1 .. n
                    /\ longer[k] = run[k - 1] /\ longer[k] # N + 1
        <3>1. \A m \in 1 .. Len(s) : run[m] # N + 1
            BY <1>1, <1>4
        <3>2. CASE k \in 1 .. n
            BY <1>5, <2>1, <3>1, <3>2
        <3>3. CASE k = n + 1
            BY <1>5, <3>3
        <3>4. CASE k \in n + 2 .. Len(s) + 1
            <4>1. longer[k] = run[k - 1]
                BY <1>10, <3>4
            <4>2. k - 1 \in 1 .. Len(s) /\ k - 1 \notin 1 .. n
                BY <2>2, <3>4
            <4> QED
                BY <3>1, <4>1, <4>2
        <3> QED
            BY <1>6, <3>2, <3>3, <3>4
    <2>6. ASSUME NEW k \in 1 .. Len(s) + 1, NEW m \in 1 .. Len(s) + 1, longer[k] = longer[m]
          PROVE  k = m
        <3>1. CASE longer[k] = N + 1
            BY <2>5, <2>6, <3>1
        <3>2. CASE longer[k] # N + 1
            <4>1. /\ \/ k \in 1 .. n /\ k \in 1 .. Len(s) /\ longer[k] = run[k]
                     \/ k - 1 \in 1 .. Len(s) /\ k - 1 \notin 1 .. n /\ longer[k] = run[k - 1]
                  /\ \/ m \in 1 .. n /\ m \in 1 .. Len(s) /\ longer[m] = run[m]
                     \/ m - 1 \in 1 .. Len(s) /\ m - 1 \notin 1 .. n /\ longer[m] = run[m - 1]
                BY <2>5, <2>6, <3>2
            <4>2. k - 1 = m - 1 => k = m
                BY <1>1
            <4> QED
                BY <1>4, <2>6, <4>1, <4>2
        <3> QED
            BY <3>1, <3>2
    <2> QED
        BY <1>2, <2>3, <2>4, <2>6 DEF Kept
<1>8. Covered(t, longer, N + 1)
    BY <1>1, <1>2, <1>5 DEF Covered
<1>9. ASSUME NEW d, Covered(s, run, d) PROVE Covered(t, longer, d)
    <2>1. PICK k \in 1 .. Len(s) : run[k] = d
        BY <1>9 DEF Covered
    <2>2. CASE k <= n
        <3>1. k \in 1 .. n /\ k \in 1 .. Len(t)
            BY <1>1, <1>2, <2>2
        <3> QED
            BY <1>5, <2>1, <3>1 DEF Covered
    <2>3. CASE k > n
        <3>1. k + 1 \in n + 2 .. Len(s) + 1 /\ k + 1 \in 1 .. Len(t) /\ k + 1 - 1 = k
            BY <1>1, <1>2, <2>3
        <3>2. longer[k + 1] = run[k + 1 - 1]
            BY <1>10, <3>1
        <3>3. longer[k + 1] = d
            BY <2>1, <3>1, <3>2, Zenon
        <3> QED
            BY <3>1, <3>3 DEF Covered
    <2> QED
        BY <1>1, <2>2, <2>3
<1> QED
    BY <1>7, <1>8, <1>9 DEF t, more, N

\* So does leaving the last value out.
LEMMA FrontKept ==
    ASSUME NEW s \in Seq(Int), Len(s) > 0, NEW durs \in Seq(Int), NEW run, Kept(s, durs, run)
    PROVE  \E shorter :
               /\ Kept(SubSeq(s, 1, Len(s) - 1), durs, shorter)
               /\ \A d : Covered(s, run, d) =>
                      \/ Covered(SubSeq(s, 1, Len(s) - 1), shorter, d)
                      \/ d = run[Len(s)]
<1> DEFINE last == Len(s) - 1
           t == SubSeq(s, 1, last)
           shorter == [k \in 1 .. last |-> run[k]]
<1>1. Len(s) \in Nat \ {0} /\ last \in 0 .. Len(s) /\ Len(s) = last + 1
    OBVIOUS
<1> HIDE DEF last
<1>4. Len(t) = last /\ \A k \in 1 .. last : t[k] = s[k]
    BY <1>1
<1> HIDE DEF t
<1>2. Kept(t, durs, shorter)
    BY <1>1, <1>4 DEF Kept
<1>3. ASSUME NEW d, Covered(s, run, d) PROVE Covered(t, shorter, d) \/ d = run[Len(s)]
    <2>1. PICK k \in 1 .. Len(s) : run[k] = d
        BY <1>3 DEF Covered
    <2>2. k = Len(s) \/ k \in 1 .. last
        BY <1>1
    <2> QED
        BY <1>1, <1>4, <2>1, <2>2 DEF Covered
<1> HIDE DEF shorter
<1> QED
    BY <1>2, <1>3 DEF t, last

\* The values are the least that have been sampled.
Fastest(vals, durs, run) == \A d \in 1 .. Len(durs) :
    \/ Covered(vals, run, d)
    \/ Len(durs) >= kbest /\ \A n \in 1 .. Len(vals) : vals[n] <= durs[d]

\* What is inserted stays below what all are below.
LEMMA InsertedBelow ==
    ASSUME NEW s \in Seq(Int), NEW val \in Int, NEW b \in Int,
           val <= b, \A k \in 1 .. Len(s) : s[k] <= b
    PROVE  \A k \in 1 .. Len(s) + 1 : Inserted(s, val)[k] <= b
<1> DEFINE n == Place(s, val)  t == Inserted(s, val)
<1>1. n \in 0 .. Len(s) /\ Len(s) \in Nat
    <2>1. n \in 0 .. Len(s)
        BY PlaceIs
    <2> QED
        BY <2>1
<1>2. /\ \A k \in 1 .. n : t[k] = s[k]
      /\ t[n + 1] = val
      /\ \A k \in n + 2 .. Len(s) + 1 : t[k] = s[k - 1]
    BY InsertedIs
<1> HIDE DEF n, t
<1>3. ASSUME NEW k \in 1 .. Len(s) + 1 PROVE t[k] <= b
    <2>1. CASE k \in 1 .. n
        <3>1. k \in 1 .. Len(s) /\ t[k] = s[k]
            BY <1>1, <1>2, <2>1
        <3> QED
            BY <3>1
    <2>2. CASE k = n + 1
        BY <1>2, <2>2
    <2>3. CASE k \in n + 2 .. Len(s) + 1
        <3>1. k - 1 \in 1 .. Len(s)
            BY <1>1, <2>3
        <3>2. t[k] = s[k - 1]
            BY <1>2, <2>3
        <3> QED
            BY <3>1, <3>2
    <2> QED
        BY <1>1, <2>1, <2>2, <2>3
<1> QED
    BY <1>3 DEF t

SamplerInv ==
    /\ values \in Seq(Int) /\ durations \in Seq(Int)
    /\ samplecount = Len(durations)
    /\ Len(values) = IF samplecount < kbest THEN samplecount ELSE kbest
    /\ Ordered(values)
    /\ \E run : Kept(values, durations, run) /\ Fastest(values, durations, run)

\* The last of the values in order is the greatest.
LEMMA LastGreatest ==
    ASSUME NEW s \in Seq(Int), Len(s) > 0, Ordered(s)
    PROVE  \A n \in 1 .. Len(s) : s[n] <= s[Len(s)]
<1>1. DOMAIN s = 1 .. Len(s) /\ \A n \in 1 .. Len(s) : s[n] \in Int
    OBVIOUS
<1>3. Len(s) \in Nat
    OBVIOUS
<1>2. ASSUME NEW n \in 1 .. Len(s) PROVE s[n] <= s[Len(s)]
    <2>1. CASE n = Len(s)
        <3>1. s[n] <= s[n]
            BY <1>1
        <3> QED
            BY <2>1, <3>1
    <2>2. CASE n < Len(s)
        BY <1>1, <1>3, <2>2 DEF Ordered
    <2>3. n = Len(s) \/ n < Len(s)
        BY <1>3
    <2> QED
        BY <2>1, <2>2, <2>3
<1> QED
    BY <1>2

\* A further sample is put where it belongs, and the greatest dropped for it.
LEMMA AddSample ==
    ASSUME SamplerInv, NEW val \in Int, add_sample(val), durations' = Append(durations, val)
    PROVE  SamplerInv'
<1> DEFINE N == Len(durations)  more == Append(durations, val)
<1>1. /\ values \in Seq(Int) /\ durations \in Seq(Int) /\ samplecount = N /\ N \in Nat
      /\ Ordered(values) /\ kbest \in Nat \ {0}
    BY FcycAssumption DEF SamplerInv
<1>2. PICK run : Kept(values, durations, run) /\ Fastest(values, durations, run)
    BY DEF SamplerInv
<1>3. /\ more \in Seq(Int) /\ Len(more) = N + 1 /\ more[N + 1] = val
      /\ \A k \in 1 .. N : more[k] = durations[k] /\ durations[k] \in Int
      /\ durations' = more /\ samplecount' = N + 1
    BY <1>1 DEF add_sample
<1>4. \A k \in 1 .. Len(values) : values[k] \in Int
    BY <1>1
<1>8. DOMAIN values = 1 .. Len(values)
    BY <1>1
<1> HIDE DEF N, more
<1>5. CASE N < kbest
    <2> DEFINE t == Inserted(values, val)
    <2>1. values' = t /\ Len(values) = N
        BY <1>1, <1>5 DEF add_sample, SamplerInv
    <2>2. t \in Seq(Int) /\ Len(t) = N + 1
        BY <1>1, <2>1, InsertedIs
    <2>3. Ordered(t)
        BY <1>1, InsertedOrdered
    <2>4. PICK longer : /\ Kept(t, more, longer)
                        /\ Covered(t, longer, N + 1)
                        /\ \A d : Covered(values, run, d) => Covered(t, longer, d)
        BY <1>1, <1>2, InsertedKept DEF N, more
    <2>5. Fastest(t, more, longer)
        <3> SUFFICES ASSUME NEW d \in 1 .. N + 1 PROVE Covered(t, longer, d)
            BY <1>3 DEF Fastest
        <3>1. CASE d = N + 1
            BY <2>4, <3>1
        <3>2. CASE d # N + 1
            <4>1. d \in 1 .. N
                BY <1>1, <3>2
            <4>2. Covered(values, run, d)
                BY <1>1, <1>2, <1>5, <4>1 DEF Fastest, N
            <4> QED
                BY <2>4, <4>2
        <3> QED
            BY <3>1, <3>2
    <2> HIDE DEF t
    <2>6. Len(t) = IF N + 1 < kbest THEN N + 1 ELSE kbest
        BY <1>1, <1>5, <2>2
    <2> QED
        BY <1>3, <2>1, <2>2, <2>3, <2>4, <2>5, <2>6 DEF SamplerInv
<1>6. CASE N >= kbest /\ val < values[kbest]
    <2> DEFINE s == SubSeq(values, 1, kbest - 1)  t == Inserted(s, val)
    <2>1. values' = t /\ Len(values) = kbest
        BY <1>1, <1>6 DEF add_sample, SamplerInv
    <2>2. s \in Seq(Int) /\ Len(s) = kbest - 1 /\ \A k \in 1 .. kbest - 1 : s[k] = values[k]
        <3> DEFINE last == kbest - 1
        <3>1. last \in 0 .. Len(values)
            BY <1>1, <2>1
        <3> HIDE DEF last
        <3>2. /\ SubSeq(values, 1, last) \in Seq(Int) /\ Len(SubSeq(values, 1, last)) = last
              /\ \A k \in 1 .. last : SubSeq(values, 1, last)[k] = values[k]
            BY <1>1, <3>1
        <3> QED
            BY <3>2 DEF last
    <2>3. PICK shorter : /\ Kept(s, durations, shorter)
                         /\ \A d : Covered(values, run, d) =>
                                Covered(s, shorter, d) \/ d = run[kbest]
        <3>1. Len(values) > 0
            BY <1>1, <2>1
        <3>2. \E shorter : /\ Kept(SubSeq(values, 1, Len(values) - 1), durations, shorter)
                           /\ \A d : Covered(values, run, d) =>
                                  \/ Covered(SubSeq(values, 1, Len(values) - 1), shorter, d)
                                  \/ d = run[Len(values)]
            BY <1>1, <1>2, <3>1, FrontKept
        <3> QED
            BY <2>1, <3>2
    <2> HIDE DEF s
    <2>4. Ordered(s)
        <3>1. DOMAIN s = 1 .. kbest - 1 /\ \A k \in 1 .. kbest - 1 : k \in DOMAIN values
            BY <1>1, <1>8, <2>1, <2>2
        <3> QED
            BY <1>1, <2>2, <3>1 DEF Ordered
    <2>5. t \in Seq(Int) /\ Len(t) = kbest
        BY <1>1, <2>2, InsertedIs
    <2>6. Ordered(t)
        BY <2>2, <2>4, InsertedOrdered
    <2>7. PICK longer : /\ Kept(t, more, longer)
                        /\ Covered(t, longer, N + 1)
                        /\ \A d : Covered(s, shorter, d) => Covered(t, longer, d)
        BY <1>1, <2>2, <2>3, InsertedKept DEF N, more
    <2> HIDE DEF t
    <2>8. \A n \in 1 .. kbest : values[n] <= values[kbest]
        <3>1. Len(values) > 0
            BY <1>1, <2>1
        <3>2. \A n \in 1 .. Len(values) : values[n] <= values[Len(values)]
            BY <1>1, <3>1, LastGreatest
        <3> QED
            BY <2>1, <3>2
    <2>9. \A n \in 1 .. kbest : t[n] <= values[kbest]
        <3>1. values[kbest] \in Int /\ val <= values[kbest]
            BY <1>1, <1>4, <1>6, <2>1
        <3>2. \A k \in 1 .. Len(s) : s[k] <= values[kbest]
            BY <1>1, <2>2, <2>8
        <3>3. Len(s) + 1 = kbest
            BY <1>1, <2>2
        <3> QED
            BY <2>2, <3>1, <3>2, <3>3, InsertedBelow DEF t
    <2>10. Fastest(t, more, longer)
        <3> SUFFICES ASSUME NEW d \in 1 .. N + 1, ~Covered(t, longer, d)
                     PROVE  \A n \in 1 .. kbest : t[n] <= more[d]
            BY <1>1, <1>3, <1>6, <2>5 DEF Fastest
        <3>1. d \in 1 .. N /\ ~Covered(s, shorter, d)
            BY <1>1, <2>7
        <3>2. values[kbest] <= durations[d]
            <4>1. CASE Covered(values, run, d)
                <5>1. d = run[kbest]
                    BY <2>3, <3>1, <4>1
                <5>2. values[kbest] = durations[d]
                    BY <1>1, <1>2, <2>1, <5>1 DEF Kept
                <5> QED
                    BY <1>1, <1>4, <2>1, <5>2
            <4>2. CASE ~Covered(values, run, d)
                BY <1>1, <1>2, <2>1, <3>1, <4>2 DEF Fastest, N
            <4> QED
                BY <4>1, <4>2
        <3>3. values[kbest] \in Int /\ more[d] = durations[d] /\ durations[d] \in Int
            BY <1>1, <1>3, <1>4, <2>1, <3>1
        <3>4. \A n \in 1 .. kbest : t[n] \in Int
            BY <2>5
        <3> QED
            BY <2>9, <3>2, <3>3, <3>4
    <2>11. kbest = IF N + 1 < kbest THEN N + 1 ELSE kbest
        BY <1>1, <1>6
    <2> QED
        BY <1>3, <2>1, <2>5, <2>6, <2>7, <2>10, <2>11 DEF SamplerInv
<1>7. CASE N >= kbest /\ ~(val < values[kbest])
    <2>1. values' = values /\ Len(values) = kbest
        BY <1>1, <1>7 DEF add_sample, SamplerInv
    <2>2. Kept(values, more, run)
        <3>1. /\ run \in [1 .. Len(values) -> 1 .. N]
              /\ \A m, n \in 1 .. Len(values) : run[m] = run[n] => m = n
              /\ \A n \in 1 .. Len(values) : values[n] = durations[run[n]]
            BY <1>2 DEF Kept, N
        <3>2. \A n \in 1 .. Len(values) : run[n] \in 1 .. N /\ values[n] = more[run[n]]
            BY <1>3, <3>1
        <3>3. run \in [1 .. Len(values) -> 1 .. N + 1]
            BY <1>1, <3>1
        <3> QED
            BY <1>3, <3>1, <3>2, <3>3 DEF Kept
    <2>3. \A n \in 1 .. kbest : values[n] <= values[kbest]
        <3>1. Len(values) > 0
            BY <1>1, <2>1
        <3>2. \A n \in 1 .. Len(values) : values[n] <= values[Len(values)]
            BY <1>1, <3>1, LastGreatest
        <3> QED
            BY <2>1, <3>2
    <2>4. \A n \in 1 .. kbest : values[n] <= val
        BY <1>1, <1>4, <1>7, <2>1, <2>3
    <2>5. Fastest(values, more, run)
        <3> SUFFICES ASSUME NEW d \in 1 .. N + 1
                     PROVE  \/ Covered(values, run, d)
                            \/ \A n \in 1 .. kbest : values[n] <= more[d]
            BY <1>1, <1>3, <1>7, <2>1 DEF Fastest
        <3>1. CASE d = N + 1
            BY <1>3, <2>4, <3>1
        <3>2. CASE d # N + 1
            <4>1. d \in 1 .. N
                BY <1>1, <3>2
            <4> QED
                BY <1>2, <1>3, <2>1, <4>1 DEF Fastest, N
        <3> QED
            BY <3>1, <3>2
    <2>6. kbest = IF N + 1 < kbest THEN N + 1 ELSE kbest
        BY <1>1, <1>7
    <2> QED
        BY <1>1, <1>3, <2>1, <2>2, <2>5, <2>6 DEF SamplerInv
<1> QED
    BY <1>1, <1>5, <1>6, <1>7

\* No run takes as many cycles as the counter can count.
ShortRuns == \A cost \in Costs, ticks \in Ticks : cost + ticks[1] * TICK < UINT * UINT

\* What is sampled is what the run took.
LEMMA SampleIs ==
    ASSUME ShortRuns, Sample
    PROVE  \E val \in Int : add_sample(val) /\ durations' = Append(durations, val)
<1>1. PICK cost \in Costs, cyc \in Starts, ticks \in Ticks :
        /\ add_sample(get_comp_counter(cyc, Later(cyc, cost + ticks[1] * TICK),
                                       ticks[1] + ticks[2], cyc_per_tick))
        /\ durations' = Append(durations, (cost + ticks[1] * TICK)
                                             - (ticks[1] + ticks[2]) * cyc_per_tick)
    BY DEF Sample
<1> DEFINE elapsed == cost + ticks[1] * TICK
           counted == ticks[1] + ticks[2]
           val == elapsed - counted * cyc_per_tick
<1>2. /\ cost \in Nat /\ cyc \in Counter /\ TICK \in Nat /\ cyc_per_tick \in Nat
      /\ ticks[1] \in Nat /\ ticks[2] \in Nat
      /\ elapsed < UINT * UINT
    BY FcycAssumption DEF ShortRuns
<1>3. UINT * UINT \in Nat
    BY UintAssumption
<1>4. elapsed \in 0 .. UINT * UINT - 1 /\ counted \in Nat
    <2>1. ticks[1] * TICK \in Nat
        BY <1>2
    <2> QED
        BY <1>2, <1>3, <2>1
<1> HIDE DEF elapsed, counted
<1>5. get_counter(cyc, Later(cyc, elapsed)) = elapsed
    BY <1>2, <1>4, RunIsExact
<1>6. get_comp_counter(cyc, Later(cyc, elapsed), counted, cyc_per_tick) = val
    BY <1>4, <1>5 DEF get_comp_counter
<1>7. val \in Int
    <2>1. counted * cyc_per_tick \in Int
        BY <1>2, <1>4
    <2> QED
        BY <1>4, <2>1
<1> HIDE DEF val
<1>8. add_sample(val) /\ durations' = Append(durations, val)
    BY <1>1, <1>6 DEF elapsed, counted, val
<1> QED
    BY <1>7, <1>8

\* A sampler that has no samples.
LEMMA SamplerStart ==
    values = <<>> /\ samplecount = 0 /\ durations = <<>> => SamplerInv
<1> SUFFICES ASSUME values = <<>> /\ samplecount = 0 /\ durations = <<>> PROVE SamplerInv
    OBVIOUS
<1> DEFINE none == <<>>
<1>2. none \in Seq(Int) /\ Len(none) = 0 /\ DOMAIN none = 1 .. 0
    OBVIOUS
<1>3. Kept(none, none, [k \in 1 .. 0 |-> k]) /\ Fastest(none, none, [k \in 1 .. 0 |-> k])
    BY DEF Kept, Fastest
<1>4. Ordered(none)
    BY <1>2 DEF Ordered
<1>5. values = none /\ samplecount = 0 /\ durations = none
    OBVIOUS
<1> HIDE DEF none
<1>6. 0 = IF 0 < kbest THEN 0 ELSE kbest
    BY FcycAssumption
<1> QED
    BY <1>2, <1>3, <1>4, <1>5, <1>6 DEF SamplerInv

\* What the invariant of the sampler is for.
LEMMA SamplerKeeps == ASSUME SamplerInv PROVE KeepsSmallest
<1>1. /\ Len(values) = IF Len(durations) < kbest THEN Len(durations) ELSE kbest
      /\ DOMAIN values = 1 .. Len(values) /\ DOMAIN durations = 1 .. Len(durations)
    BY DEF SamplerInv
<1>2. \A m, n \in DOMAIN values : m < n => values[m] <= values[n]
    BY DEF SamplerInv, Ordered
<1>3. PICK run : Kept(values, durations, run) /\ Fastest(values, durations, run)
    BY DEF SamplerInv
<1>4. run \in Injection(DOMAIN values, DOMAIN durations)
    BY <1>1, <1>3 DEF Kept, Injection, IsInjective
<1>5. \A n \in DOMAIN values : values[n] = durations[run[n]]
    BY <1>1, <1>3 DEF Kept
<1>6. \A d \in DOMAIN durations \ Range(run) :
          \A n \in DOMAIN values : values[n] <= durations[d]
    <2> SUFFICES ASSUME NEW d \in DOMAIN durations, d \notin Range(run),
                        NEW n \in DOMAIN values
                 PROVE  values[n] <= durations[d]
        OBVIOUS
    <2>1. ~Covered(values, run, d)
        BY <1>3 DEF Covered, Kept, Range
    <2> QED
        BY <1>1, <1>3, <2>1 DEF Fastest
<1> QED
    BY <1>1, <1>2, <1>4, <1>5, <1>6 DEF KeepsSmallest

-----------------------------------------------------------------------------
(* The driver.                                                             *)

\* What the driver knows of the version it is at: the test of a size follows the
\* odd size of the same round, and the measurement follows both.
StageInv ==
    /\ stage \in {"odd", "test", "measure"}
    /\ phase = "run" => stage \in {"odd", "test"}
    /\ stage \in {"test", "measure"} => <<bench, test_num, "odd">> \in passed
    /\ stage = "measure" => <<bench, test_num, "test">> \in passed
    /\ phase \in {"sample", "score"} => stage = "measure"

\* Times in the table are those of versions that were right in the round.
TimesInv == \A v \in DOMAIN cpes : \A n \in DOMAIN cpes[v] : cpes[v][n] # 0 => RightIn(v, n)

\* No step of a kernel changes the size of the image.
LEMMA KernelKeepsDim == KernelNext => dim' = dim
BY DEF KernelNext, dp_motion, add_full_box, slide, edge, complex_blocking

\* A version passes the check if and only if it has drawn the right image and
\* left its original alone.
LEMMA CheckIsRight == check <=> Right
BY DEF check, check_orig, Right

\* What a check finds out is what is written down of it.
LEMMA CheckPasses ==
    ASSUME Check
    PROVE  passed' = IF check THEN passed \cup {<<bench, test_num, stage>>} ELSE passed
BY CheckIsRight DEF Check

\* Every step keeps the order of the stages.
LEMMA StageStep == ASSUME StageInv, [Next]_vars PROVE StageInv'
<1>1. CASE Create
    BY <1>1 DEF Create, StageInv
<1>2. CASE Run
    BY <1>2 DEF Run, StageInv, driver_vars
<1>3. CASE Check
    <2>1. CASE check
        <3>1. /\ stage' = IF stage = "odd" THEN "test" ELSE "measure"
              /\ phase' = "create" /\ passed' = passed \cup {<<bench, test_num, stage>>}
              /\ UNCHANGED <<bench, test_num>> /\ stage \in {"odd", "test"}
            BY <1>3, <2>1, CheckPasses DEF Check, StageInv
        <3>2. CASE stage = "odd"
            BY <3>1, <3>2 DEF StageInv
        <3>3. CASE stage = "test"
            BY <3>1, <3>3 DEF StageInv
        <3> QED
            BY <3>1, <3>2, <3>3
    <2>2. CASE ~check
        BY <1>3, <2>2 DEF Check, NextVersion, StageInv
    <2> QED
        BY <2>1, <2>2
<1>4. CASE Measure
    BY <1>4 DEF Measure, StageInv, driver_vars
<1>5. CASE Record
    BY <1>5 DEF Record, StageInv
<1>6. CASE Score
    BY <1>6 DEF Score, NextVersion, StageInv
<1>7. CASE UNCHANGED vars
    BY <1>7 DEF vars, driver_vars, StageInv
<1> QED
    BY <1>1, <1>2, <1>3, <1>4, <1>5, <1>6, <1>7 DEF Next

\* Nothing that was drawn rightly is forgotten.
LEMMA PassedGrows == [Next]_vars => passed \subseteq passed'
<1>1. Check => passed \subseteq passed'
    BY CheckPasses
<1> QED
    BY <1>1 DEF Next, Create, Run, Measure, Record, Score, vars, driver_vars

\* Only Record writes a time.
LEMMA OnlyRecordWrites == [Next]_vars /\ ~Record => cpes' = cpes
BY DEF Next, Create, Run, Check, Measure, Score, vars, driver_vars

\* A time is written after both checks of its round.
LEMMA TimesStep == ASSUME StageInv, TimesInv, [Next]_vars PROVE TimesInv'
<1>1. ASSUME NEW v, NEW n, RightIn(v, n) PROVE RightIn(v, n)'
    BY <1>1, PassedGrows DEF RightIn
<1>2. CASE Record
    <2>1. /\ cpes' = [cpes EXCEPT ![bench][test_num] = values[1]]
          /\ RightIn(bench, test_num)
        BY <1>2 DEF Record, StageInv, RightIn
    <2>2. ASSUME NEW v \in DOMAIN cpes', NEW n \in DOMAIN cpes'[v], cpes'[v][n] # 0
          PROVE  RightIn(v, n)
        <3>1. v \in DOMAIN cpes /\ n \in DOMAIN cpes[v]
            BY <2>1
        <3>2. CASE v = bench /\ n = test_num
            BY <2>1, <3>2
        <3>3. CASE ~(v = bench /\ n = test_num)
            <4>1. cpes'[v][n] = cpes[v][n]
                BY <2>1, <3>1, <3>3
            <4> QED
                BY <2>2, <3>1, <4>1 DEF TimesInv
        <3> QED
            BY <3>2, <3>3
    <2> QED
        BY <1>1, <2>2 DEF TimesInv
<1>3. CASE ~Record
    BY <1>1, <1>3, OnlyRecordWrites DEF TimesInv
<1> QED
    BY <1>2, <1>3

\* Only versions that have passed both checks of the round, on the odd size and on
\* that of the round, are measured in it or keep its time (driver.c:480-533).
THEOREM OnlyRightIsTimedCorrect == Spec => []OnlyRightIsTimed
<1>1. Init => StageInv /\ TimesInv
    <2>1. Init => StageInv
        BY DEF Init, StageInv
    <2>2. Init => TimesInv
        BY DEF Init, TimesInv
    <2> QED
        BY <2>1, <2>2
<1>2. StageInv /\ TimesInv /\ [Next]_vars => StageInv' /\ TimesInv'
    BY StageStep, TimesStep
<1>3. StageInv /\ TimesInv => OnlyRightIsTimed
    BY DEF StageInv, TimesInv, OnlyRightIsTimed, RightIn
<1> QED
    BY <1>1, <1>2, <1>3, PTL DEF Spec

-----------------------------------------------------------------------------
(* Types, and the kernels inside the driver.                               *)

\* Where the driver is in its loops.
LoopInv ==
    /\ phase \in {"create", "run", "sample", "score", "summary", "failed"}
    /\ stage \in {"odd", "test", "measure"}
    /\ bench \in 1 .. Len(Versions) + 1
    /\ phase # "summary" => /\ bench \in 1 .. Len(Versions)
                            /\ test_num \in 1 .. Len(test_dim[Version.kernel])

\* The kernel that runs in it, if it is one of ours, is where it could be by
\* itself; any other version is done at once.
KernelRuns ==
    /\ dim \in Nat /\ dst \in Image(dim, Nat)
    /\ \/ kernel \notin {"motion", "complex"} /\ pc = "done"
       \/ KernelInv
    /\ phase = "run" => dim \in Sizes(Version.kernel)

\* The versions registered are ours or others of one of the kernels.
LEMMA VersionsAre ==
    \A b \in 1 .. Len(Versions) :
        Versions[b] \in [kernel : {"motion", "complex"}, code : {"ours", "other"}]
<1> DEFINE R == [kernel : {"motion", "complex"}, code : {"ours", "other"}]
<1>1. Versions \in Seq(R)
    BY DriverAssumption
<1> HIDE DEF R
<1>2. \A b \in 1 .. Len(Versions) : Versions[b] \in R
    BY <1>1
<1> QED
    BY <1>2 DEF R

\* While a version is tested there is one, and a size to test it on.
LEMMA VersionIs ==
    ASSUME LoopInv, phase # "summary"
    PROVE  /\ Version \in [kernel : {"motion", "complex"}, code : {"ours", "other"}]
           /\ test_dim[Version.kernel] \in Seq(Nat)
           /\ Len(test_dim[Version.kernel]) \in Nat \ {0}
           /\ Size \in Sizes(Version.kernel)
<1>1. Version \in [kernel : {"motion", "complex"}, code : {"ours", "other"}]
    BY VersionsAre DEF LoopInv, Version
<1> DEFINE k == Version.kernel
<1>2. k \in {"motion", "complex"}
    BY <1>1
<1>3. test_num \in 1 .. Len(test_dim[k])
    BY DEF LoopInv
<1> HIDE DEF k
<1>4. test_dim[k] \in Seq(Nat) /\ test_dim[k] # <<>>
    BY <1>2, DriverAssumption
<1>5. test_dim[k] \in Seq(Nat) /\ Len(test_dim[k]) \in Nat \ {0}
    BY <1>4
<1>6. test_num \in DOMAIN test_dim[k]
    BY <1>3, <1>5
<1>7. test_dim[k][test_num] \in Sizes(k) /\ ODD_DIM \in Sizes(k)
    BY <1>6 DEF Sizes, Range
<1> QED
    BY <1>1, <1>5, <1>7 DEF Size, k

\* The next version begins with the first of its sizes.
LEMMA NextVersionLoops ==
    ASSUME LoopInv, phase \in {"run", "score"}, NextVersion
    PROVE  LoopInv'
<1>1. /\ bench' = bench + 1 /\ test_num' = 1 /\ stage' = "odd"
      /\ phase' = IF bench < Len(Versions) THEN "create" ELSE "summary"
      /\ bench \in 1 .. Len(Versions) /\ Len(Versions) \in Nat
    BY DriverAssumption DEF NextVersion, LoopInv
<1>2. CASE bench < Len(Versions)
    <2>1. Versions[bench + 1].kernel \in {"motion", "complex"}
        <3>1. bench + 1 \in 1 .. Len(Versions)
            BY <1>1, <1>2
        <3>2. Versions[bench + 1] \in [kernel : {"motion", "complex"}, code : {"ours", "other"}]
            BY <3>1, VersionsAre
        <3> QED
            BY <3>2
    <2> DEFINE k == Versions[bench + 1].kernel
    <2>2. Version'.kernel = k
        BY <1>1 DEF Version
    <2> HIDE DEF k
    <2>3. test_dim[k] \in Seq(Nat) /\ test_dim[k] # <<>>
        BY <2>1, DriverAssumption DEF k
    <2>4. 1 \in 1 .. Len(test_dim[k])
        BY <2>3
    <2> QED
        BY <1>1, <1>2, <2>2, <2>4 DEF LoopInv
<1>3. CASE ~(bench < Len(Versions))
    BY <1>1, <1>3 DEF LoopInv
<1> QED
    BY <1>2, <1>3

\* Every step keeps the loops in their bounds.
LEMMA LoopStep == ASSUME LoopInv, [Next]_vars PROVE LoopInv'
<1>1. CASE Create
    BY <1>1 DEF Create, LoopInv, Version
<1>2. CASE Run
    BY <1>2 DEF Run, LoopInv, Version, driver_vars
<1>3. CASE Check
    <2>1. CASE check
        BY <1>3, <2>1 DEF Check, LoopInv, Version
    <2>2. CASE ~check
        BY <1>3, <2>2, NextVersionLoops DEF Check
    <2> QED
        BY <2>1, <2>2
<1>4. CASE Measure
    BY <1>4 DEF Measure, LoopInv, Version, driver_vars
<1>5. CASE Record
    <2>1. phase = "sample" /\ bench' = bench
        BY <1>5 DEF Record
    <2>2. Len(test_dim[Version.kernel]) \in Nat
        BY <2>1, VersionIs
    <2>3. test_num' \in 1 .. Len(test_dim[Version.kernel])
        BY <1>5, <2>1, <2>2 DEF Record, LoopInv
    <2> QED
        BY <1>5, <2>1, <2>3 DEF Record, LoopInv, Version
<1>6. CASE Score
    <2>1. CASE phase' = "failed" /\ UNCHANGED <<stage, test_num, bench>>
        BY <1>6, <2>1 DEF Score, LoopInv, Version
    <2>2. CASE NextVersion
        BY <1>6, <2>2, NextVersionLoops DEF Score
    <2> QED
        BY <1>6, <2>1, <2>2 DEF Score
<1>7. CASE UNCHANGED vars
    BY <1>7 DEF LoopInv, Version, vars, driver_vars
<1> QED
    BY <1>1, <1>2, <1>3, <1>4, <1>5, <1>6, <1>7 DEF Next

\* Every step lets a kernel of ours run as it does by itself.
LEMMA KernelRunsStep == ASSUME LoopInv, KernelRuns, [Next]_vars PROVE KernelRuns'
<1>1. CASE Create
    <2>1. PICK image \in Images(Size) \cup {Black(Size)} :
              Enter(Version.kernel, Size, image, Black(Size))
        BY <1>1 DEF Create
    <2> DEFINE k == Version.kernel  n == Size
    <2>2. phase = "create" /\ Version' = Version
        BY <1>1 DEF Create, Version
    <2>3. k \in {"motion", "complex"} /\ n \in Sizes(k)
        <3>1. Version \in [kernel : {"motion", "complex"}, code : {"ours", "other"}]
            BY <2>2, VersionIs
        <3>2. n \in Sizes(k)
            BY <2>2, VersionIs
        <3> QED
            BY <3>1, <3>2
    <2> HIDE DEF k, n
    <2>4. Fits(k, n) /\ Images(n) \subseteq Image(n, Nat)
        BY <2>3, DriverAssumption
    <2>5. n \in Nat
        BY <2>4 DEF Fits
    <2>6. Black(n) \in Image(n, Nat)
        BY <2>5 DEF Black, Image
    <2>7. /\ kernel' = k /\ dim' = n /\ src' = image /\ dst' = Black(n)
          /\ pc' = IF k = "motion" THEN "box" ELSE "pixel"
          /\ i' = 0 /\ j' = 0 /\ ii' = 0 /\ jj' = 0 /\ p' = 0
        BY <2>1 DEF Enter, k, n
    <2>8. image \in Image(n, Nat)
        BY <2>4, <2>6 DEF n
    <2>9. KernelInit'
        BY <2>3, <2>4, <2>6, <2>7, <2>8 DEF KernelInit
    <2>10. KernelInit' => KernelInv'
        BY KernelStart, PTL
    <2> QED
        BY <2>2, <2>3, <2>5, <2>6, <2>7, <2>9, <2>10 DEF KernelRuns, k
<1>2. CASE Run
    <2>1. UNCHANGED driver_vars /\ phase = "run" /\ pc # "done" /\ KernelInv
        BY <1>2 DEF Run, KernelRuns
    <2>2. phase' = phase /\ Sizes(Version.kernel)' = Sizes(Version.kernel)
        BY <2>1 DEF driver_vars, Sizes, Version
    <2>3. CASE KernelNext
        <3>1. KernelInv' /\ dim' = dim
            BY <2>1, <2>3, KernelStep, KernelKeepsDim
        <3>2. dst' \in Image(dim', Nat)
            BY <3>1 DEF KernelInv, KernelTypeOK
        <3> QED
            BY <2>2, <3>1, <3>2 DEF KernelRuns
    <2>4. CASE dst' \in Drawings(dim) /\ pc' = "done" /\ kernel' = "other" /\ dim' = dim
        <3>1. Version \in [kernel : {"motion", "complex"}, code : {"ours", "other"}]
            BY <2>1, VersionIs
        <3> DEFINE k == Version.kernel
        <3>2. k \in {"motion", "complex"} /\ dim \in Sizes(k)
            BY <2>1, <3>1 DEF KernelRuns
        <3> HIDE DEF k
        <3>3. dst' \in Image(dim, Nat)
            BY <2>4, <3>2, DriverAssumption
        <3> QED
            BY <2>2, <2>4, <3>3 DEF KernelRuns
    <2> QED
        BY <1>2, <2>3, <2>4 DEF Run
<1>3. CASE UNCHANGED kernel_vars /\ phase' # "run"
    <2>1. KernelInv => KernelInv'
        BY <1>3, KernelStep
    <2> QED
        BY <1>3, <2>1 DEF kernel_vars, KernelRuns
<1>4. CASE UNCHANGED vars
    <2>1. KernelInv => KernelInv'
        BY <1>4, KernelStep DEF vars
    <2> QED
        BY <1>4, <2>1 DEF vars, kernel_vars, driver_vars, KernelRuns, Sizes, Version
<1>5. CASE Check \/ Measure \/ Record \/ Score
    <2>1. UNCHANGED kernel_vars
        BY <1>5 DEF Check, Measure, Record, Score
    <2>2. phase' # "run"
        BY <1>5 DEF Check, Measure, Record, Score, NextVersion, driver_vars
    <2> QED
        BY <1>3, <2>1, <2>2
<1> QED
    BY <1>1, <1>2, <1>4, <1>5 DEF Next

\* So it all begins.
LEMMA DriverStart == Init => LoopInv /\ KernelRuns
<1> SUFFICES ASSUME Init PROVE LoopInv /\ KernelRuns
    OBVIOUS
<1>1. LoopInv
    <2>1. Versions \in Seq([kernel : {"motion", "complex"}, code : {"ours", "other"}])
          /\ Versions # <<>>
        BY DriverAssumption
    <2>2. 1 \in 1 .. Len(Versions) /\ Len(Versions) \in Nat
        BY <2>1
    <2>3. Versions[1] \in [kernel : {"motion", "complex"}, code : {"ours", "other"}]
        BY <2>2, VersionsAre
    <2> DEFINE k == Versions[1].kernel
    <2>4. k \in {"motion", "complex"}
        BY <2>3
    <2> HIDE DEF k
    <2>5. test_dim[k] \in Seq(Nat) /\ test_dim[k] # <<>>
        BY <2>4, DriverAssumption
    <2>6. 1 \in 1 .. Len(test_dim[k])
        BY <2>5
    <2> QED
        BY <2>2, <2>6 DEF Init, LoopInv, Version, k
<1>2. KernelRuns
    <2> DEFINE none == <<>>
    <2>1. dim = 0 /\ dst = none /\ kernel = "none" /\ pc = "done" /\ phase = "create"
        BY DEF Init
    <2>2. none \in [0 .. 0 * 0 - 1 -> Nat]
        OBVIOUS
    <2> HIDE DEF none
    <2> QED
        BY <2>1, <2>2 DEF KernelRuns, Image
<1> QED
    BY <1>1, <1>2

\* The kernels agree with the naive ones inside the driver, too, whatever other
\* versions have run before them (driver.c:470-533).
THEOREM DriverKernelsAgree == Spec => []AgreesWithNaive
<1>1. Init => LoopInv /\ KernelRuns
    BY DriverStart
<1>2. LoopInv /\ KernelRuns /\ [Next]_vars => LoopInv' /\ KernelRuns'
    BY LoopStep, KernelRunsStep
<1>3. KernelRuns => AgreesWithNaive
    BY KernelInvAgrees DEF KernelRuns, AgreesWithNaive
<1> QED
    BY <1>1, <1>2, <1>3, PTL DEF Spec

\* The sampler's types, whatever its readings of the counter.
SamplerTypes ==
    /\ values \in Seq(Int)
    /\ samplecount \in 0 .. maxsamples
    /\ Len(values) = IF samplecount < kbest THEN samplecount ELSE kbest

\* A reading is a number, be it right or not.
LEMMA ReadingIsInt ==
    ASSUME NEW cyc \in Counter, NEW elapsed \in Nat, NEW ticks \in Nat
    PROVE  get_comp_counter(cyc, Later(cyc, elapsed), ticks, cyc_per_tick) \in Int
<1> DEFINE d == Later(cyc, elapsed)
<1>1. UINT \in Nat \ {0} /\ UINT * UINT \in Nat \ {0} /\ cyc_per_tick \in Nat
    BY UintAssumption, FcycAssumption
<1>2. cyc.hi \in Nat /\ cyc.lo \in Nat /\ Cycles(cyc) \in Nat
    BY <1>1 DEF Counter, Word, Cycles
<1>3. d.hi \in Int /\ d.lo \in Int
    <2> DEFINE n == (Cycles(cyc) + elapsed) % (UINT * UINT)
    <2>1. n \in Int
        BY <1>1, <1>2
    <2> HIDE DEF n
    <2>2. n \div UINT \in Int /\ n % UINT \in Int
        BY <1>1, <2>1
    <2>3. d = [hi |-> n \div UINT, lo |-> n % UINT]
        BY DEF Later, n
    <2> HIDE DEF d
    <2> QED
        BY <2>2, <2>3
<1> HIDE DEF d
<1> DEFINE lo == (d.lo - cyc.lo) % UINT
           borrow == IF lo > d.lo THEN 1 ELSE 0
           hi == (d.hi - cyc.hi - borrow) % UINT
<1>4. lo \in Int
    BY <1>1, <1>2, <1>3
<1> HIDE DEF lo
<1>5. borrow \in Int
    OBVIOUS
<1> HIDE DEF borrow
<1>6. hi \in Int
    BY <1>1, <1>2, <1>3, <1>5
<1> HIDE DEF hi
<1>7. get_counter(cyc, d) = hi * UINT + lo
    BY DEF get_counter, hi, borrow, lo
<1>8. hi * UINT + lo \in Int
    BY <1>1, <1>4, <1>6
<1>9. ticks * cyc_per_tick \in Int
    BY <1>1
<1> QED
    BY <1>7, <1>8, <1>9 DEF get_comp_counter, d

\* A further sample keeps the types.
LEMMA SamplerTypesStep ==
    ASSUME SamplerTypes, samplecount < maxsamples, Sample PROVE SamplerTypes'
<1>1. PICK cost \in Costs, cyc \in Starts, ticks \in Ticks :
        add_sample(get_comp_counter(cyc, Later(cyc, cost + ticks[1] * TICK),
                                    ticks[1] + ticks[2], cyc_per_tick))
    BY DEF Sample
<1> DEFINE elapsed == cost + ticks[1] * TICK
           counted == ticks[1] + ticks[2]
           val == get_comp_counter(cyc, Later(cyc, elapsed), counted, cyc_per_tick)
<1>2. elapsed \in Nat /\ counted \in Nat /\ cyc \in Counter
    <2>1. ticks[1] \in Nat /\ ticks[2] \in Nat /\ cost \in Nat /\ TICK \in Nat
        BY FcycAssumption
    <2>2. ticks[1] * TICK \in Nat
        BY <2>1
    <2> QED
        BY <2>1, <2>2, FcycAssumption
<1>3. val \in Int
    BY <1>2, ReadingIsInt
<1>4. add_sample(val)
    BY <1>1
<1> HIDE DEF val
<1>5. /\ samplecount' = samplecount + 1 /\ samplecount' \in 0 .. maxsamples
      /\ samplecount \in Nat /\ kbest \in Nat \ {0}
    BY <1>4, FcycAssumption DEF add_sample, SamplerTypes
<1>6. CASE samplecount < kbest
    <2>1. values' = Inserted(values, val) /\ values \in Seq(Int) /\ Len(values) = samplecount
        BY <1>4, <1>6 DEF add_sample, SamplerTypes
    <2>2. values' \in Seq(Int) /\ Len(values') = samplecount + 1
        BY <1>3, <2>1, InsertedIs
    <2> QED
        BY <1>5, <1>6, <2>2 DEF SamplerTypes
<1>7. CASE samplecount >= kbest /\ val < values[kbest]
    <2> DEFINE last == kbest - 1  s == SubSeq(values, 1, last)
    <2>1. values \in Seq(Int) /\ Len(values) = kbest
        BY <1>5, <1>7 DEF SamplerTypes
    <2>2. values' = Inserted(s, val)
        BY <1>4, <1>5, <1>7 DEF add_sample
    <2>3. last \in 0 .. Len(values)
        BY <1>5, <2>1
    <2>4. last + 1 = kbest
        BY <1>5
    <2> HIDE DEF last
    <2>5. s \in Seq(Int) /\ Len(s) = last
        BY <2>1, <2>3
    <2> HIDE DEF s
    <2>6. values' \in Seq(Int) /\ Len(values') = kbest
        BY <1>3, <2>2, <2>4, <2>5, InsertedIs
    <2> QED
        BY <1>5, <1>7, <2>6 DEF SamplerTypes
<1>8. CASE samplecount >= kbest /\ ~(val < values[kbest])
    <2>1. values' = values
        BY <1>4, <1>5, <1>8 DEF add_sample
    <2> QED
        BY <1>5, <1>8, <2>1 DEF SamplerTypes
<1> QED
    BY <1>5, <1>6, <1>7, <1>8

\* A sampler at its start has them,
LEMMA NoSamples == values = <<>> /\ samplecount = 0 => SamplerTypes
<1> SUFFICES ASSUME values = <<>>, samplecount = 0 PROVE SamplerTypes
    OBVIOUS
<1> DEFINE none == <<>>
<1>1. values = none /\ none \in Seq(Int) /\ Len(none) = 0
    OBVIOUS
<1> HIDE DEF none
<1> QED
    BY <1>1, FcycAssumption DEF SamplerTypes

\* and every step keeps them, if a run may be sampled at all.
LEMMA SamplerTypesStay ==
    ASSUME maxsamples # 0, SamplerTypes, [Next]_vars PROVE SamplerTypes'
<1>1. CASE init_sampler
    <2>1. (values = <<>> /\ samplecount = 0)'
        BY <1>1 DEF init_sampler
    <2>2. (values = <<>> /\ samplecount = 0)' => SamplerTypes'
        BY NoSamples, PTL
    <2> QED
        BY <2>1, <2>2
<1>2. CASE Measure
    <2>1. samplecount < maxsamples /\ Sample
        BY <1>2, FcycAssumption DEF Measure, Measured, SamplerTypes
    <2> QED
        BY <2>1, SamplerTypesStep
<1>3. CASE UNCHANGED fcyc_vars
    BY <1>3 DEF fcyc_vars, SamplerTypes
<1> QED
    BY <1>1, <1>2, <1>3 DEF Next, Create, Run, Check, Record, Score, vars

\* The types of the driver's variables, if a run may be sampled at all: fcyc
\* takes one sample even then (fcyc.c:160-169).
THEOREM DriverTypeCorrect ==
    ASSUME maxsamples # 0 PROVE Spec => []TypeOK
<1>1. Init => LoopInv /\ KernelRuns /\ SamplerTypes
    BY DriverStart, NoSamples DEF Init
<1>2. LoopInv /\ KernelRuns /\ SamplerTypes /\ [Next]_vars
          => LoopInv' /\ KernelRuns' /\ SamplerTypes'
    BY LoopStep, KernelRunsStep, SamplerTypesStay
<1>3. LoopInv /\ KernelRuns /\ SamplerTypes => TypeOK
    BY FcycAssumption DEF LoopInv, KernelRuns, SamplerTypes, TypeOK, Image
<1> QED
    BY <1>1, <1>2, <1>3, PTL DEF Spec

-----------------------------------------------------------------------------
(* The measurement.                                                        *)

\* The values the sampler holds are those of the fastest runs of the version
\* that is measured, in order, provided that no run is longer than the counter
\* counts (fcyc.c:53-74 and 160-169, clock.c:86-98).
THEOREM KeepsSmallestCorrect ==
    ASSUME ShortRuns PROVE Spec => []KeepsSmallest
<1>1. Init => SamplerInv
    BY SamplerStart DEF Init
<1>2. SamplerInv /\ [Next]_vars => SamplerInv'
    <2> SUFFICES ASSUME SamplerInv, [Next]_vars PROVE SamplerInv'
        OBVIOUS
    <2>1. CASE init_sampler
        <3>1. (values = <<>> /\ samplecount = 0 /\ durations = <<>>)'
            BY <2>1 DEF init_sampler
        <3>2. (values = <<>> /\ samplecount = 0 /\ durations = <<>>)' => SamplerInv'
            BY SamplerStart, PTL
        <3> QED
            BY <3>1, <3>2
    <2>2. CASE Sample
        <3>1. PICK val \in Int : add_sample(val) /\ durations' = Append(durations, val)
            BY <2>2, SampleIs
        <3> QED
            BY <3>1, AddSample
    <2>3. CASE UNCHANGED fcyc_vars
        BY <2>3 DEF fcyc_vars, SamplerInv
    <2> QED
        BY <2>1, <2>2, <2>3 DEF Next, Create, Run, Check, Measure, Record, Score, vars
<1>3. SamplerInv => KeepsSmallest
    BY SamplerKeeps
<1> QED
    BY <1>1, <1>2, <1>3, PTL DEF Spec

-----------------------------------------------------------------------------
(* The best version.                                                       *)

\* Induction over the natural numbers.
LEMMA InductionOnNat ==
    ASSUME NEW S \in SUBSET Nat, 0 \in S, \A n \in Nat : n \in S => n + 1 \in S
    PROVE  S = Nat
<1> SUFFICES ASSUME S # Nat PROVE FALSE
    OBVIOUS
<1> DEFINE T == Nat \ S
<1>1. T \in SUBSET Nat /\ T # {}
    OBVIOUS
<1> HIDE DEF T
<1>2. PICK n \in T : \A m \in T : n <= m
    BY <1>1, Least
<1>3. n \in Nat /\ n \notin S /\ n # 0
    BY <1>1, <1>2 DEF T
<1>4. n - 1 \in Nat /\ n - 1 \notin T
    BY <1>2, <1>3
<1>5. (n - 1) + 1 \in S
    BY <1>4 DEF T
<1> QED
    BY <1>3, <1>5

\* The product of the first n factors is defined for every n.
LEMMA ProductsExist ==
    ASSUME NEW t, NEW len \in Nat
    PROVE  \E f : f = [n \in 0 .. len |-> IF n = 0 THEN 1 ELSE f[n-1] * t[n]]
<1> DEFINE S == {m \in Nat : \E f : f = [n \in 0 .. m |-> IF n = 0 THEN 1 ELSE f[n-1] * t[n]]}
<1>1. 0 \in S
    <2> DEFINE f == [n \in 0 .. 0 |-> 1]
    <2>1. f = [n \in 0 .. 0 |-> IF n = 0 THEN 1 ELSE f[n-1] * t[n]]
        OBVIOUS
    <2> QED
        BY <2>1
<1>2. ASSUME NEW m \in Nat, m \in S PROVE m + 1 \in S
    <2>1. PICK f : f = [n \in 0 .. m |-> IF n = 0 THEN 1 ELSE f[n-1] * t[n]]
        BY <1>2
    <2> DEFINE g == [n \in 0 .. m + 1 |-> IF n = m + 1 THEN f[m] * t[m+1] ELSE f[n]]
    <2>2. \A n \in 0 .. m : f[n] = IF n = 0 THEN 1 ELSE f[n-1] * t[n]
        BY <2>1
    <2>3. ASSUME NEW n \in 0 .. m + 1
          PROVE  g[n] = IF n = 0 THEN 1 ELSE g[n-1] * t[n]
        <3>1. CASE n = m + 1
            <4>1. g[n] = f[m] * t[m+1] /\ g[m] = f[m] /\ n - 1 = m /\ n # 0
                BY <3>1
            <4> QED
                BY <3>1, <4>1
        <3>2. CASE n = 0
            <4>1. g[n] = f[n] /\ n \in 0 .. m
                BY <3>2
            <4> QED
                BY <2>2, <3>2, <4>1
        <3>3. CASE n # 0 /\ n # m + 1
            <4>1. n \in 0 .. m /\ n - 1 \in 0 .. m
                BY <3>3
            <4>2. g[n] = f[n] /\ g[n-1] = f[n-1]
                BY <4>1
            <4>3. f[n] = f[n-1] * t[n]
                BY <2>2, <3>3, <4>1
            <4> QED
                BY <3>3, <4>2, <4>3
        <3> QED
            BY <3>1, <3>2, <3>3
    <2>4. g = [n \in 0 .. m + 1 |-> g[n]]
        OBVIOUS
    <2> HIDE DEF g
    <2>5. g = [n \in 0 .. m + 1 |-> IF n = 0 THEN 1 ELSE g[n-1] * t[n]]
        BY <2>3, <2>4
    <2> QED
        BY <2>5
<1>3. S \in SUBSET Nat
    OBVIOUS
<1> HIDE DEF S
<1>4. S = Nat
    BY <1>1, <1>2, <1>3, InductionOnNat
<1> QED
    BY <1>4 DEF S

\* So a product of numbers is a number.
LEMMA ProductIsInt == ASSUME NEW s \in Seq(Int) PROVE Product(s) \in Int
<1> DEFINE len == Len(s)
           F(f) == [n \in 0 .. len |-> IF n = 0 THEN 1 ELSE f[n-1] * s[n]]
           times == CHOOSE f : f = F(f)
           S == {n \in Nat : n <= len => times[n] \in Int}
<1>1. len \in Nat /\ \A n \in 1 .. len : s[n] \in Int
    OBVIOUS
<1>2. Product(s) = times[len]
    BY DEF Product
<1> HIDE DEF len
<1>3. \E f : f = F(f)
    BY <1>1, ProductsExist
<1> HIDE DEF F
<1>4. times = F(times)
    BY <1>3
<1> HIDE DEF times
<1>5. \A n \in 0 .. len : times[n] = IF n = 0 THEN 1 ELSE times[n-1] * s[n]
    BY <1>4 DEF F
<1>6. 0 \in S
    BY <1>1, <1>5
<1>7. ASSUME NEW n \in Nat, n \in S PROVE n + 1 \in S
    <2> SUFFICES ASSUME n + 1 <= len PROVE times[n+1] \in Int
        OBVIOUS
    <2>1. times[n] \in Int /\ s[n+1] \in Int
        BY <1>1, <1>7
    <2>2. times[n+1] = times[n] * s[n+1]
        <3>1. n + 1 \in 0 .. len /\ n + 1 # 0 /\ (n + 1) - 1 = n
            BY <1>1
        <3> QED
            BY <1>5, <3>1
    <2> QED
        BY <2>1, <2>2
<1>8. S = Nat
    <2>1. S \in SUBSET Nat
        OBVIOUS
    <2> HIDE DEF S
    <2> QED
        BY <1>6, <1>7, <2>1, InductionOnNat
<1> QED
    BY <1>1, <1>2, <1>8

\* The table has a line for each version, and a time for each of its sizes.
TableInv ==
    /\ DOMAIN cpes = 1 .. Len(Versions)
    /\ \A v \in 1 .. Len(Versions) :
           cpes[v] \in Seq(Int) /\ Len(cpes[v]) = Len(test_dim[Versions[v].kernel])

\* What has been drawn rightly was drawn before: by an earlier version, or by this
\* one in an earlier round or an earlier stage of this round.
Past(v, n, s) == \/ v < bench
                 \/ v = bench /\ n < test_num
                 \/ v = bench /\ n = test_num /\ s = "odd" /\ stage # "odd"
                 \/ v = bench /\ n = test_num /\ s = "test" /\ stage = "measure"

RoundsInv ==
    /\ \A v, n \in Nat : \A s : <<v, n, s>> \in passed => Past(v, n, s)
    /\ phase # "summary" => \A n \in 1 .. test_num - 1 : RightIn(bench, n)
    /\ phase = "score" => \A n \in DOMAIN cpes[bench] : RightIn(bench, n)

BestInv == DOMAIN best = {"motion", "complex"} /\ BestIsFastest

DriverInv == LoopInv /\ SamplerTypes /\ StageInv /\ TableInv /\ RoundsInv /\ BestInv

\* The sizes of a version, as often as they are needed.
LEMMA SizesOf ==
    ASSUME NEW v \in 1 .. Len(Versions)
    PROVE  /\ Versions[v].kernel \in {"motion", "complex"}
           /\ test_dim[Versions[v].kernel] \in Seq(Nat)
           /\ Len(test_dim[Versions[v].kernel]) \in Nat \ {0}
<1>1. Versions[v] \in [kernel : {"motion", "complex"}, code : {"ours", "other"}]
    BY VersionsAre
<1> DEFINE k == Versions[v].kernel
<1>2. k \in {"motion", "complex"}
    BY <1>1
<1> HIDE DEF k
<1>3. test_dim[k] \in Seq(Nat) /\ test_dim[k] # <<>>
    BY <1>2, DriverAssumption
<1> QED
    BY <1>2, <1>3 DEF k

\* A sampler that has sampled has a fastest time.
LEMMA FastestIsInt ==
    ASSUME SamplerTypes, samplecount > 0 PROVE values[1] \in Int
<1>1. Len(values) > 0 /\ values \in Seq(Int)
    BY FcycAssumption DEF SamplerTypes
<1> QED
    BY <1>1

\* Record writes one time, of the version that is measured.
LEMMA TableStep == ASSUME TableInv, LoopInv, SamplerTypes, [Next]_vars PROVE TableInv'
<1>1. CASE Record
    <2>1. /\ cpes' = [cpes EXCEPT ![bench][test_num] = values[1]]
          /\ bench \in 1 .. Len(Versions) /\ test_num \in 1 .. Len(test_dim[Versions[bench].kernel])
          /\ values[1] \in Int
        BY <1>1, FastestIsInt DEF Record, LoopInv, Version
    <2>2. DOMAIN cpes' = 1 .. Len(Versions)
        BY <2>1 DEF TableInv
    <2>3. ASSUME NEW v \in 1 .. Len(Versions)
          PROVE  cpes'[v] \in Seq(Int) /\ Len(cpes'[v]) = Len(test_dim[Versions[v].kernel])
        <3>1. cpes[v] \in Seq(Int) /\ Len(cpes[v]) = Len(test_dim[Versions[v].kernel])
            BY DEF TableInv
        <3>2. CASE v = bench
            <4> DEFINE s == cpes[v]
            <4>1. cpes'[v] = [s EXCEPT ![test_num] = values[1]]
                BY <2>1, <3>2 DEF TableInv
            <4>2. s \in Seq(Int) /\ test_num \in 1 .. Len(s)
                BY <2>1, <3>1, <3>2
            <4> HIDE DEF s
            <4>3. [s EXCEPT ![test_num] = values[1]] \in Seq(Int)
                  /\ Len([s EXCEPT ![test_num] = values[1]]) = Len(s)
                BY <2>1, <4>2
            <4> QED
                BY <3>1, <4>1, <4>3 DEF s
        <3>3. CASE v # bench
            <4>1. cpes'[v] = cpes[v]
                BY <2>1, <3>3 DEF TableInv
            <4> QED
                BY <3>1, <4>1
        <3> QED
            BY <3>2, <3>3
    <2> QED
        BY <2>2, <2>3 DEF TableInv
<1>2. CASE ~Record
    BY <1>2, OnlyRecordWrites DEF TableInv
<1> QED
    BY <1>1, <1>2

\* Every step keeps the order of the rounds.
LEMMA PastStep ==
    ASSUME LoopInv, StageInv, RoundsInv, [Next]_vars, NEW v \in Nat, NEW n \in Nat, NEW s,
           <<v, n, s>> \in passed'
    PROVE  Past(v, n, s)'
<1> DEFINE P == Past(v, n, s)
<1>1. ASSUME <<v, n, s>> \in passed PROVE P
    BY <1>1 DEF RoundsInv
<1>2. CASE UNCHANGED <<bench, test_num, stage, passed>>
    BY <1>1, <1>2 DEF Past
<1>3. CASE Check
    <2>1. phase = "run" /\ bench \in Nat /\ test_num \in Nat
        BY <1>3, SizesOf DEF Check, LoopInv, Version
    <2>2. passed' = IF check THEN passed \cup {<<bench, test_num, stage>>} ELSE passed
        BY <1>3, CheckPasses
    <2>3. CASE check
        <3>1. stage' = (IF stage = "odd" THEN "test" ELSE "measure")
              /\ UNCHANGED <<bench, test_num>> /\ stage \in {"odd", "test"}
            BY <1>3, <2>1, <2>3 DEF Check, StageInv
        <3>2. CASE <<v, n, s>> = <<bench, test_num, stage>>
            BY <3>1, <3>2 DEF Past
        <3>3. CASE <<v, n, s>> # <<bench, test_num, stage>>
            <4>1. P
                BY <1>1, <2>2, <2>3, <3>3
            <4> QED
                BY <3>1, <4>1 DEF Past
        <3> QED
            BY <3>2, <3>3
    <2>4. CASE ~check
        <3>1. P /\ bench' = bench + 1
            BY <1>1, <1>3, <2>2, <2>4 DEF Check, NextVersion
        <3> QED
            BY <2>1, <3>1 DEF Past
    <2> QED
        BY <2>3, <2>4
<1>4. CASE Record
    <2>1. P /\ bench' = bench /\ phase = "sample"
        BY <1>1, <1>4 DEF Record
    <2>2. CASE UNCHANGED <<stage, test_num>>
        BY <2>1, <2>2 DEF Past
    <2>3. CASE test_num' = test_num + 1
        <3>1. test_num \in Nat
            BY <2>1, SizesOf DEF LoopInv, Version
        <3> QED
            BY <2>1, <2>3, <3>1 DEF Past
    <2> QED
        BY <1>4, <2>2, <2>3 DEF Record
<1>5. CASE Score
    <2>1. P
        BY <1>1, <1>5 DEF Score
    <2>2. CASE bench' = bench + 1
        <3>1. bench \in Nat
            BY DEF LoopInv
        <3> QED
            BY <2>1, <2>2, <3>1 DEF Past
    <2>3. CASE UNCHANGED <<stage, bench, test_num>>
        BY <2>1, <2>3 DEF Past
    <2> QED
        BY <1>5, <2>2, <2>3 DEF Score, NextVersion
<1> QED
    BY <1>2, <1>3, <1>4, <1>5 DEF Next, Create, Run, Measure, vars, driver_vars

LEMMA RoundsStep ==
    ASSUME LoopInv, StageInv, TableInv, RoundsInv, [Next]_vars PROVE RoundsInv'
<1> DEFINE Then(v, n) == {<<v, n, "odd">>, <<v, n, "test">>} \subseteq passed'
<1>1. \A v, n : RightIn(v, n) => Then(v, n)
    BY PassedGrows DEF RightIn
<1>2. (\A v, n \in Nat : \A s : <<v, n, s>> \in passed => Past(v, n, s))'
    BY PastStep
<1>3. phase # "summary" => \A n \in 1 .. test_num - 1 : Then(bench, n)
    BY <1>1 DEF RoundsInv
<1>4. phase = "score" => \A n \in DOMAIN cpes[bench] : Then(bench, n)
    BY <1>1 DEF RoundsInv
<1> SUFFICES /\ phase' # "summary" => \A n \in 1 .. test_num' - 1 : Then(bench', n)
             /\ phase' = "score" => \A n \in DOMAIN cpes'[bench'] : Then(bench', n)
    BY <1>2 DEF RoundsInv, RightIn
<1> HIDE DEF Then
<1>5. CASE NextVersion
    BY <1>5 DEF NextVersion
<1>6. CASE UNCHANGED <<phase, bench, test_num, cpes>>
    BY <1>3, <1>4, <1>6
<1>7. CASE UNCHANGED <<bench, test_num>> /\ phase # "summary" /\ phase' # "score"
    BY <1>3, <1>7
<1>8. CASE Record
    <2>1. /\ bench' = bench /\ phase = "sample" /\ RightIn(bench, test_num)
          /\ test_num \in 1 .. Len(test_dim[Version.kernel]) /\ bench \in 1 .. Len(Versions)
        BY <1>8 DEF Record, StageInv, RightIn, LoopInv
    <2>2. Len(test_dim[Version.kernel]) \in Nat
        BY <2>1, SizesOf DEF Version
    <2>3. \A n \in 1 .. test_num : Then(bench, n)
        BY <1>1, <1>3, <2>1, <2>2
    <2>4. CASE test_num' = test_num + 1 /\ phase' = "create"
        BY <2>1, <2>2, <2>3, <2>4
    <2>5. CASE test_num' = test_num /\ ~(test_num < Len(test_dim[Version.kernel]))
        <3>1. test_num = Len(test_dim[Version.kernel])
            BY <2>1, <2>2, <2>5
        <3>2. DOMAIN cpes'[bench] = 1 .. test_num
            <4>1. cpes' = [cpes EXCEPT ![bench][test_num] = values[1]]
                BY <1>8 DEF Record
            <4>2. DOMAIN cpes'[bench] = DOMAIN cpes[bench]
                BY <2>1, <4>1 DEF TableInv
            <4>3. cpes[bench] \in Seq(Int) /\ Len(cpes[bench]) = test_num
                BY <2>1, <3>1 DEF TableInv, Version
            <4> QED
                BY <4>2, <4>3
        <3> QED
            BY <2>1, <2>2, <2>3, <2>5, <3>2
    <2> QED
        BY <1>8, <2>4, <2>5 DEF Record
<1> QED
    BY <1>5, <1>6, <1>7, <1>8
       DEF Next, Create, Run, Check, Measure, Score, vars, driver_vars

-----------------------------------------------------------------------------
\* What is said of the versions that are through stays true of them.
LEMMA FinishedStays ==
    ASSUME LoopInv, TableInv, [Next]_vars, NEW v \in 1 .. bench - 1
    PROVE  /\ cpes'[v] = cpes[v]
           /\ \A n : RightIn(v, n)' <=> RightIn(v, n)
<1>1. v # bench /\ v \in DOMAIN cpes
    BY DriverAssumption DEF LoopInv, TableInv
<1>2. cpes'[v] = cpes[v]
    BY <1>1, OnlyRecordWrites DEF Record
<1>3. passed' = passed \/ passed' = passed \cup {<<bench, test_num, stage>>}
    BY CheckPasses DEF Next, Create, Run, Measure, Record, Score, vars, driver_vars
<1>4. \A n : RightIn(v, n)' <=> RightIn(v, n)
    BY <1>1, <1>3 DEF RightIn
<1> QED
    BY <1>2, <1>4

\* A failed check keeps the version out for good.
LEMMA FailedIsOut ==
    ASSUME LoopInv, StageInv, TableInv, RoundsInv, Check, ~check
    PROVE  \E n \in DOMAIN cpes[bench] : ~RightIn(bench, n)
<1>1. /\ bench \in 1 .. Len(Versions) /\ test_num \in 1 .. Len(test_dim[Versions[bench].kernel])
      /\ stage \in {"odd", "test"}
    BY DEF Check, LoopInv, Version, StageInv
<1>2. test_num \in DOMAIN cpes[bench]
    BY <1>1 DEF TableInv
<1>3. bench \in Nat /\ test_num \in Nat
    BY <1>1, SizesOf
<1>4. <<bench, test_num, stage>> \notin passed
    BY <1>1, <1>3 DEF RoundsInv, Past
<1>5. ~RightIn(bench, test_num)
    BY <1>1, <1>4 DEF RightIn
<1> QED
    BY <1>2, <1>5

\* The versions that are through are those that were, and the one at the end of
\* its last round.
LEMMA FinishedIs ==
    ASSUME DriverInv, [Next]_vars, NEW k
    PROVE  Finished(k)' = IF NextVersion /\ phase = "score" /\ Version.kernel = k
                          THEN Finished(k) \cup {bench} ELSE Finished(k)
<1> DEFINE Through(v) == Versions[v].kernel = k /\ \A n \in DOMAIN cpes[v] : RightIn(v, n)
           Then(v) == Versions[v].kernel = k
                      /\ \A n \in DOMAIN cpes'[v] :
                             {<<v, n, "odd">>, <<v, n, "test">>} \subseteq passed'
<1> USE DEF DriverInv
<1>1. Finished(k) = {v \in 1 .. bench - 1 : Through(v)}
      /\ Finished(k)' = {v \in 1 .. bench' - 1 : Then(v)}
    BY DEF Finished, RightIn
<1>2. \A v \in 1 .. bench - 1 : Then(v) <=> Through(v)
    BY FinishedStays DEF RightIn
<1>3. bench \in Nat
    BY DEF LoopInv
<1>4. CASE bench' = bench
    <2>1. ~NextVersion
        BY <1>3, <1>4 DEF NextVersion
    <2> QED
        BY <1>1, <1>2, <1>4, <2>1
<1>5. CASE NextVersion /\ Check
    <2>1. ~check
        BY <1>3, <1>5 DEF Check, NextVersion
    <2>2. ~Then(bench)
        <3>1. cpes' = cpes /\ passed' = passed
            BY <1>5, <2>1, CheckPasses DEF Check
        <3>2. PICK n \in DOMAIN cpes[bench] : ~RightIn(bench, n)
            BY <1>5, <2>1, FailedIsOut
        <3> QED
            BY <3>1, <3>2 DEF RightIn
    <2>3. phase = "run" /\ bench' = bench + 1
        BY <1>5 DEF Check, NextVersion
    <2> HIDE DEF Then, Through
    <2>4. \A v \in 1 .. bench' - 1 : v \in 1 .. bench - 1 \/ v = bench
        BY <1>3, <2>3
    <2>5. \A v \in 1 .. bench - 1 : v \in 1 .. bench' - 1
        BY <1>3, <2>3
    <2> QED
        BY <1>1, <1>2, <2>2, <2>3, <2>4, <2>5
<1>6. CASE NextVersion /\ Score
    <2>1. phase = "score" /\ bench' = bench + 1 /\ UNCHANGED <<cpes, passed>>
        BY <1>6 DEF Score, NextVersion
    <2>2. Then(bench) <=> Version.kernel = k
        BY <2>1 DEF RoundsInv, RightIn, Version
    <2> HIDE DEF Then, Through
    <2>4. \A v \in 1 .. bench' - 1 : v \in 1 .. bench - 1 \/ v = bench
        BY <1>3, <2>1
    <2>5. (\A v \in 1 .. bench - 1 : v \in 1 .. bench' - 1) /\ bench \in 1 .. bench' - 1
        BY <1>3, <2>1 DEF LoopInv
    <2>6. CASE Version.kernel = k
        BY <1>1, <1>2, <1>6, <2>1, <2>2, <2>4, <2>5, <2>6
    <2>7. CASE Version.kernel # k
        BY <1>1, <1>2, <1>6, <2>1, <2>2, <2>4, <2>5, <2>7
    <2> QED
        BY <2>6, <2>7
<1> QED
    BY <1>4, <1>5, <1>6 DEF Next, Create, Run, Check, Measure, Record, Score, vars, driver_vars

\* As long as no other version is through, the best stays the best.
LEMMA BestStays ==
    ASSUME DriverInv, [Next]_vars, NEW k \in {"motion", "complex"},
           best'[k] = best[k], Finished(k)' = Finished(k)
    PROVE  IF Finished(k)' = {} THEN best'[k] = <<>>
           ELSE \E v \in Finished(k)' :
                   /\ best'[k] = cpes'[v]
                   /\ \A w \in Finished(k)' : Product(cpes'[v]) <= Product(cpes'[w])
<1> DEFINE F == Finished(k)
<1>1. IF F = {} THEN best[k] = <<>>
      ELSE \E v \in F : /\ best[k] = cpes[v]
                        /\ \A w \in F : Product(cpes[v]) <= Product(cpes[w])
    BY DEF DriverInv, BestInv, BestIsFastest
<1>2. \A v \in F : cpes'[v] = cpes[v]
    BY FinishedStays DEF Finished, DriverInv
<1> HIDE DEF F
<1>3. CASE F = {}
    BY <1>1, <1>3 DEF F
<1>4. CASE F # {}
    <2>1. PICK v \in F : /\ best[k] = cpes[v]
                         /\ \A w \in F : Product(cpes[v]) <= Product(cpes[w])
        BY <1>1, <1>4
    <2>2. best'[k] = cpes'[v] /\ \A w \in F : Product(cpes'[v]) <= Product(cpes'[w])
        BY <1>2, <2>1
    <2> QED
        BY <1>4, <2>2 DEF F
<1> QED
    BY <1>3, <1>4

\* The cycles of a version are numbers, and so is their product.
LEMMA CyclesAre ==
    ASSUME TableInv, NEW v \in 1 .. Len(Versions)
    PROVE  cpes[v] # <<>> /\ Product(cpes[v]) \in Int
<1>1. cpes[v] \in Seq(Int) /\ Len(cpes[v]) \in Nat \ {0}
    BY SizesOf DEF TableInv
<1>2. Len(<<>>) = 0
    OBVIOUS
<1> QED
    BY <1>1, <1>2, ProductIsInt

\* A version that is through and faster than the best takes its place.
LEMMA BestReplaced ==
    ASSUME DriverInv, Score, NextVersion, NEW k, k = Version.kernel,
           best' = IF best[k] = <<>> \/ Product(cpes[bench]) < Product(best[k])
                   THEN [best EXCEPT ![k] = cpes[bench]] ELSE best
    PROVE  \E v \in Finished(k)' :
                /\ best'[k] = cpes'[v]
                /\ \A w \in Finished(k)' : Product(cpes'[v]) <= Product(cpes'[w])
<1> DEFINE F == Finished(k)  c == cpes[bench]
<1>1. /\ cpes' = cpes /\ bench \in 1 .. Len(Versions) /\ k \in DOMAIN best
      /\ Finished(k)' = F \cup {bench}
    <2>1. Finished(k)' = F \cup {bench}
        BY FinishedIs DEF Score, Next
    <2>2. cpes' = cpes /\ bench \in 1 .. Len(Versions)
        BY DEF Score, DriverInv, LoopInv
    <2>3. k \in DOMAIN best
        BY <2>2, SizesOf DEF DriverInv, BestInv, Version
    <2> QED
        BY <2>1, <2>2, <2>3
<1>2. c # <<>> /\ Product(c) \in Int
    BY <1>1, CyclesAre DEF DriverInv
<1>3. \A w \in F : cpes[w] # <<>> /\ Product(cpes[w]) \in Int
    <2>1. \A w \in F : w \in 1 .. Len(Versions)
        BY <1>1 DEF Finished
    <2> QED
        BY <2>1, CyclesAre DEF DriverInv
<1>4. IF F = {} THEN best[k] = <<>>
      ELSE \E v \in F : /\ best[k] = cpes[v]
                        /\ \A w \in F : Product(cpes[v]) <= Product(cpes[w])
    BY <1>1 DEF DriverInv, BestInv, BestIsFastest
<1> HIDE DEF F, c
<1> SUFFICES \E v \in F \cup {bench} :
                  /\ best'[k] = cpes[v]
                  /\ \A w \in F \cup {bench} : Product(cpes[v]) <= Product(cpes[w])
    BY <1>1
<1>5. CASE F = {}
    <2>1. best'[k] = c
        BY <1>1, <1>4, <1>5 DEF c
    <2> QED
        BY <1>2, <1>5, <2>1 DEF c
<1>6. CASE F # {}
    <2>1. PICK v \in F : /\ best[k] = cpes[v]
                         /\ \A w \in F : Product(cpes[v]) <= Product(cpes[w])
        BY <1>4, <1>6
    <2>2. best[k] # <<>>
        BY <1>3, <2>1
    <2>3. CASE Product(c) < Product(cpes[v])
        <3>1. best'[k] = c
            BY <1>1, <2>1, <2>3 DEF c
        <3>2. \A w \in F : Product(c) <= Product(cpes[w])
            BY <1>2, <1>3, <2>1, <2>3
        <3> QED
            BY <1>2, <3>1, <3>2 DEF c
    <2>4. CASE ~(Product(c) < Product(cpes[v]))
        <3>1. best'[k] = cpes[v]
            BY <2>1, <2>2, <2>4 DEF c
        <3>2. Product(cpes[v]) <= Product(c)
            BY <1>2, <1>3, <2>1, <2>4
        <3> QED
            BY <2>1, <3>1, <3>2 DEF c
    <2> QED
        BY <2>3, <2>4
<1> QED
    BY <1>5, <1>6

LEMMA BestStep == ASSUME DriverInv, [Next]_vars PROVE BestInv'
<1>1. DOMAIN best' = DOMAIN best /\ DOMAIN best = {"motion", "complex"}
    BY DEF DriverInv, BestInv, Next, Create, Run, Check, Measure, Record, Score, vars,
           driver_vars
<1>2. ASSUME NEW k \in {"motion", "complex"}
      PROVE  IF Finished(k)' = {} THEN best'[k] = <<>>
             ELSE \E v \in Finished(k)' :
                     /\ best'[k] = cpes'[v]
                     /\ \A w \in Finished(k)' : Product(cpes'[v]) <= Product(cpes'[w])
    <2>1. CASE NextVersion /\ Score /\ Version.kernel = k
        <3>1. best' = IF best[k] = <<>> \/ Product(cpes[bench]) < Product(best[k])
                      THEN [best EXCEPT ![k] = cpes[bench]] ELSE best
            BY <2>1 DEF Score, NextVersion, DriverInv, LoopInv
        <3> QED
            BY <2>1, <3>1, BestReplaced
    <2>2. CASE ~(NextVersion /\ Score /\ Version.kernel = k)
        <3>1. best'[k] = best[k]
            BY <1>1, <2>2
               DEF Next, Create, Run, Check, Measure, Record, Score, vars, driver_vars
        <3>2. Finished(k)' = Finished(k)
            <4>1. ~(NextVersion /\ phase = "score" /\ Version.kernel = k)
                BY <2>2 DEF Next, NextVersion, Create, Run, Check, Measure, Record, vars,
                            driver_vars, DriverInv, LoopInv
            <4> QED
                BY <4>1, FinishedIs
        <3> QED
            BY <3>1, <3>2, BestStays
    <2> QED
        BY <2>1, <2>2
<1> QED
    BY <1>1, <1>2 DEF BestInv, BestIsFastest

\* So it all begins.
LEMMA BestStart == Init => DriverInv
<1> SUFFICES ASSUME Init PROVE DriverInv
    OBVIOUS
<1>1. LoopInv /\ SamplerTypes
    BY DriverStart, NoSamples DEF Init
<1>2. StageInv
    BY DEF Init, StageInv
<1>3. TableInv
    <2>1. cpes = [v \in DOMAIN Versions |->
                     [n \in DOMAIN test_dim[Versions[v].kernel] |-> 0]]
        BY DEF Init
    <2>2. DOMAIN Versions = 1 .. Len(Versions)
        BY DriverAssumption
    <2>3. ASSUME NEW v \in 1 .. Len(Versions)
          PROVE  cpes[v] \in Seq(Int) /\ Len(cpes[v]) = Len(test_dim[Versions[v].kernel])
        <3> DEFINE dims == test_dim[Versions[v].kernel]
        <3>1. dims \in Seq(Nat)
            BY SizesOf
        <3>2. cpes[v] = [n \in DOMAIN dims |-> 0]
            BY <2>1, <2>2
        <3> HIDE DEF dims
        <3>3. DOMAIN dims = 1 .. Len(dims) /\ Len(dims) \in Nat
            BY <3>1
        <3> QED
            BY <3>2, <3>3 DEF dims
    <2> QED
        BY <2>1, <2>2, <2>3 DEF TableInv
<1>4. RoundsInv
    BY DEF Init, RoundsInv
<1>5. BestInv
    <2>1. \A k : Finished(k) = {}
        BY DEF Init, Finished
    <2> QED
        BY <2>1 DEF Init, BestInv, BestIsFastest
<1> QED
    BY <1>1, <1>2, <1>3, <1>4, <1>5 DEF DriverInv

\* The best version of a kernel is the fastest of those that were right in every
\* round, whatever the versions do and in which round they fail (driver.c:556-581).
THEOREM BestIsFastestCorrect ==
    ASSUME maxsamples # 0 PROVE Spec => []BestIsFastest
<1>1. Init => DriverInv
    BY BestStart
<1>2. DriverInv /\ [Next]_vars => DriverInv'
    BY LoopStep, SamplerTypesStay, StageStep, TableStep, RoundsStep, BestStep DEF DriverInv
<1>3. DriverInv => BestIsFastest
    BY DEF DriverInv, BestInv
<1> QED
    BY <1>1, <1>2, <1>3, PTL DEF Spec
=============================================================================
