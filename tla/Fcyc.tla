---------------------------------- MODULE Fcyc -----------------------------------
(***************************************************************************)
(* The measurement of a function by Performance/fcyc.c: it is run until    *)
(* the kbest fastest runs agree within a hundredth, or maxsamples times,   *)
(* and the fastest run counts.                                             *)
(***************************************************************************)
EXTENDS Clock, Sequences, SequencesExt

CONSTANTS kbest, maxsamples,
          EPSILON,      \* runs agree within 1/EPSILON: 100
          Costs,        \* bound: cycles a run of the function takes
          Starts,       \* readings of the counter when a run begins
          TICK,         \* cycles the timer's interrupt takes
          Ticks,        \* bound: how many there are, <<within the run, at its ends>>
          cyc_per_tick  \* and what callibrate took it for

ASSUME FcycAssumption == /\ kbest \in Nat \ {0} /\ maxsamples \in Nat /\ EPSILON \in Nat \ {0}
                         /\ Costs \subseteq Nat /\ Starts \subseteq Counter
                         /\ TICK \in Nat /\ cyc_per_tick \in Nat
                         /\ Ticks \subseteq Nat \X Nat

VARIABLES values,       \* the fastest runs, fastest first
          samplecount,
          durations     \* history: how long each run took, less what the
                        \* interrupts it was charged with are thought to take

fcyc_vars == <<values, samplecount, durations>>

init_sampler == values' = <<>> /\ samplecount' = 0 /\ durations' = <<>>

\* How many values the insertion sort leaves in front of val: it passes those
\* that are greater, from the last one on.
Place(sorted, val) == CHOOSE n \in 0 .. Len(sorted) :
    /\ n > 0 => sorted[n] <= val
    /\ \A k \in n + 1 .. Len(sorted) : sorted[k] > val

Inserted(sorted, val) == LET n == Place(sorted, val) IN
    SubSeq(sorted, 1, n) \o <<val>> \o SubSeq(sorted, n + 1, Len(sorted))

add_sample(val) ==
    /\ samplecount' = samplecount + 1
    /\ values' = IF samplecount < kbest THEN Inserted(values, val)
                 ELSE IF val < values[kbest] THEN Inserted(SubSeq(values, 1, kbest - 1), val)
                 ELSE values

has_converged == /\ samplecount >= kbest
                 /\ (EPSILON + 1) * values[1] >= EPSILON * values[kbest]

\* The counter shows a later number of cycles, modulo its width.
Later(c, cycles) ==
    LET n == (Cycles(c) + cycles) % (UINT * UINT)
    IN  [hi |-> n \div UINT, lo |-> n % UINT]

\* One run of the function.  Interrupts lengthen it; those between the readings
\* of the clock and of the counter are counted although they do not.
Sample == \E cost \in Costs, cyc \in Starts, ticks \in Ticks :
    LET cycles == cost + ticks[1] * TICK
        counted == ticks[1] + ticks[2]
    IN  /\ add_sample(get_comp_counter(cyc, Later(cyc, cycles), counted, cyc_per_tick))
        /\ durations' = Append(durations, cycles - counted * cyc_per_tick)

\* Mutant of Measured: one sample more than is allowed.
Measured_late == has_converged \/ samplecount > maxsamples

Measured == has_converged \/ samplecount >= maxsamples

-----------------------------------------------------------------------------
\* The values kept are the least of those the runs took, in order; so the result
\* is the time of the fastest run, however the counter's low word wrapped around.
KeepsSmallest ==
    /\ Len(values) = IF Len(durations) < kbest THEN Len(durations) ELSE kbest
    /\ \A m, n \in DOMAIN values : m < n => values[m] <= values[n]
    /\ \E run \in Injection(DOMAIN values, DOMAIN durations) :
        /\ \A n \in DOMAIN values : values[n] = durations[run[n]]
        /\ \A other \in DOMAIN durations \ Range(run) :
               \A n \in DOMAIN values : values[n] <= durations[other]
=============================================================================
