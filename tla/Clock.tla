---------------------------------- MODULE Clock ----------------------------------
(***************************************************************************)
(* The cycle counter of Performance/clock.c: two unsigned words, read at   *)
(* the start and at the end of a measurement and subtracted word by word.  *)
(***************************************************************************)
EXTENDS Integers

CONSTANT UINT           \* number of values of an unsigned int: 2^32

ASSUME UintAssumption == UINT \in Nat \ {0}

Word == 0 .. UINT - 1
Counter == [hi : Word, lo : Word]

\* The number of cycles a reading of the counter stands for.
Cycles(c) == c.hi * UINT + c.lo

\* Mutant of get_counter: nothing is borrowed from the high word.
get_counter_unborrowed(cyc, ncyc) ==
    ((ncyc.hi - cyc.hi) % UINT) * UINT + ((ncyc.lo - cyc.lo) % UINT)

\* cyc is the reading of start_counter, ncyc the one of get_counter.
get_counter(cyc, ncyc) ==
    LET lo == (ncyc.lo - cyc.lo) % UINT
        borrow == IF lo > ncyc.lo THEN 1 ELSE 0
        hi == (ncyc.hi - cyc.hi - borrow) % UINT
    IN  hi * UINT + lo

\* What the timer's interrupts are thought to have taken is subtracted.
get_comp_counter(cyc, ncyc, ticks, cyc_per_tick) ==
    get_counter(cyc, ncyc) - ticks * cyc_per_tick
=============================================================================
