--------------------------------- MODULE Kernels ---------------------------------
(***************************************************************************)
(* The two optimised kernels of Performance/kernels.c, loop step by loop   *)
(* step, and the naive ones they must agree with.                          *)
(*                                                                         *)
(* An image is a function from offsets to numbers.  To motion they are one *)
(* of the three colours, which it treats alike; to complex, the sum of the *)
(* three, all that it reads.  The greatest sum, nine times 65535, is far   *)
(* below the greatest unsigned int.                                        *)
(***************************************************************************)
EXTENDS Integers

CONSTANTS SIDE,         \* side of the blocks of complex: 16,
          LARGE,        \* but for images of this many rows, 1024,
          LARGE_SIDE    \* it is 32

ASSUME SideAssumption == SIDE \in Nat \ {0} /\ LARGE_SIDE \in Nat \ {0}

VARIABLES kernel,       \* the kernel that runs
          dim, src, dst,\* its arguments
          pc,           \* where it is: "box", "slide", "pixel" or "done"
          i, j, ii, jj, \* loop counters
          p             \* motion's running sum

kernel_vars == <<kernel, dim, src, dst, pc, i, j, ii, jj, p>>

RIDX(a, b, n) == a * n + b
Image(n, Values) == [0 .. n * n - 1 -> Values]

-----------------------------------------------------------------------------
(* The naive kernels.                                                      *)

\* The rows or columns, of three from k on, that lie in the image.
Span(n, k) == IF k + 2 < n THEN 3 ELSE n - k

Pixel(n, image, a, b) == IF a < n /\ b < n THEN image[RIDX(a, b, n)] ELSE 0
Triple(n, image, a, b) ==
    Pixel(n, image, a, b) + Pixel(n, image, a, b + 1) + Pixel(n, image, a, b + 2)

\* The average of the pixels from (a, b) on, three rows and columns of them.
weighted_combo(n, image, a, b) ==
    ( Triple(n, image, a, b) + Triple(n, image, a + 1, b) + Triple(n, image, a + 2, b) )
    \div (Span(n, a) * Span(n, b))

\* What the naive kernels make of the n x n image: complex turns it over and
\* makes it grey, motion averages.
naive_complex(n, image, result) == \A a, b \in 0 .. n - 1 :
    result[RIDX(n - b - 1, n - a - 1, n)] = image[RIDX(a, b, n)] \div 3

naive_motion(n, image, result) == \A a, b \in 0 .. n - 1 :
    result[RIDX(a, b, n)] = weighted_combo(n, image, a, b)

-----------------------------------------------------------------------------
(* dp_motion: in each row the window slides to the right, losing a column  *)
(* and gaining one, and at the edge only losing two.  The code is written  *)
(* out three times, for windows of three, two and one rows.                *)

Height == IF i < dim - 2 THEN 3 ELSE dim - i

Column(o) == src[o] + (IF Height > 1 THEN src[o + dim] ELSE 0)
                    + (IF Height > 2 THEN src[o + 2 * dim] ELSE 0)

Write(o, value) == dst' = [dst EXCEPT ![o] = value]

add_full_box == LET o == RIDX(i, 0, dim) IN
    /\ pc = "box"
    /\ p' = Column(o) + Column(o + 1) + Column(o + 2)
    /\ Write(o, p' \div (3 * Height))
    /\ j' = 1 /\ pc' = "slide"
    /\ UNCHANGED <<kernel, dim, src, i, ii, jj>>

\* Mutant of slide: the last column is one of those that slide.
slide_far == LET o == RIDX(i, j, dim) IN
    /\ pc = "slide" /\ j <= dim - 2
    /\ p' = p - Column(o - 1) + (IF j < dim - 2 THEN Column(o + 2) ELSE 0)
    /\ Write(o, p' \div (3 * Height))
    /\ j' = j + 1
    /\ UNCHANGED <<kernel, dim, src, pc, i, ii, jj>>

slide == LET o == RIDX(i, j, dim) IN
    /\ pc = "slide" /\ j < dim - 2
    /\ p' = p - Column(o - 1) + Column(o + 2)
    /\ Write(o, p' \div (3 * Height))
    /\ j' = j + 1
    /\ UNCHANGED <<kernel, dim, src, pc, i, ii, jj>>

\* The last two columns, and after the last the next row.
edge == LET o == RIDX(i, j, dim) IN
    /\ pc = "slide" /\ j >= dim - 2
    /\ p' = p - Column(o - 1)
    /\ Write(o, p' \div ((dim - j) * Height))
    /\ IF j < dim - 1
       THEN j' = j + 1 /\ UNCHANGED <<i, pc>>
       ELSE j' = 0 /\ i' = i + 1 /\ pc' = IF i + 1 < dim THEN "box" ELSE "done"
    /\ UNCHANGED <<kernel, dim, src, ii, jj>>

-----------------------------------------------------------------------------
(* complex_blocking: the pixels of a block, row by row, and the blocks in  *)
(* the same order.                                                         *)

BlockSide(n) == IF n = LARGE THEN LARGE_SIDE ELSE SIDE
W == BlockSide(dim)

grey == Write(dim * dim - dim * ii - jj - 1, src[RIDX(jj, ii, dim)] \div 3)

\* Mutant of next_pixel: the first band of blocks is done over and over.
next_pixel_stuck ==
    \/ /\ jj + 1 < j + W
       /\ jj' = jj + 1 /\ UNCHANGED <<i, j, ii, pc>>
    \/ /\ jj + 1 >= j + W /\ ii + 1 < i + W
       /\ jj' = j /\ ii' = ii + 1 /\ UNCHANGED <<i, j, pc>>
    \/ /\ jj + 1 >= j + W /\ ii + 1 >= i + W
       /\ j' = (IF j + W < dim THEN j + W ELSE 0) /\ jj' = j' /\ ii' = i /\ UNCHANGED <<i, pc>>

next_pixel ==
    \/ /\ jj + 1 < j + W
       /\ jj' = jj + 1 /\ UNCHANGED <<i, j, ii, pc>>
    \/ /\ jj + 1 >= j + W /\ ii + 1 < i + W
       /\ jj' = j /\ ii' = ii + 1 /\ UNCHANGED <<i, j, pc>>
    \/ /\ jj + 1 >= j + W /\ ii + 1 >= i + W /\ j + W < dim
       /\ j' = j + W /\ jj' = j + W /\ ii' = i /\ UNCHANGED <<i, pc>>
    \/ /\ jj + 1 >= j + W /\ ii + 1 >= i + W /\ j + W >= dim
       /\ i' = i + W /\ ii' = i + W /\ j' = 0 /\ jj' = 0
       /\ pc' = IF i + W < dim THEN "pixel" ELSE "done"

complex_blocking ==
    /\ pc = "pixel"
    /\ grey /\ next_pixel
    /\ UNCHANGED <<kernel, dim, src, p>>

-----------------------------------------------------------------------------
dp_motion == add_full_box \/ slide \/ edge

\* The start of kernel k on an image of n rows.
Enter(k, n, image, canvas) ==
    /\ kernel' = k /\ dim' = n /\ src' = image /\ dst' = canvas
    /\ pc' = IF k = "motion" THEN "box" ELSE "pixel"
    /\ i' = 0 /\ j' = 0 /\ ii' = 0 /\ jj' = 0 /\ p' = 0

\* The sizes each kernel is made for: motion has no other code for a row that
\* has no full window, complex writes whole blocks only.
Fits(k, n) == /\ n \in Nat
              /\ k = "motion" => n >= 3
              /\ k = "complex" => \E m \in 1 .. n : n = m * BlockSide(n)

\* A kernel by itself, on any image of a size that fits.
KernelInit ==
    /\ kernel \in {"motion", "complex"}
    /\ Fits(kernel, dim)
    /\ src \in Image(dim, Nat) /\ dst \in Image(dim, Nat)
    /\ pc = IF kernel = "motion" THEN "box" ELSE "pixel"
    /\ i = 0 /\ j = 0 /\ ii = 0 /\ jj = 0 /\ p = 0

KernelNext == dp_motion \/ complex_blocking

KernelSpec == KernelInit /\ [][KernelNext]_kernel_vars

-----------------------------------------------------------------------------
\* A kernel that has finished has computed what its naive version computes, in
\* every pixel: no column or row was counted twice, missed, or divided by the
\* count of another one.
AgreesWithNaive == pc = "done" =>
    /\ kernel = "motion" => naive_motion(dim, src, dst)
    /\ kernel = "complex" => naive_complex(dim, src, dst)
=======================================================
