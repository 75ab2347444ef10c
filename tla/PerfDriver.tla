-------------------------------- MODULE PerfDriver --------------------------------
(***************************************************************************)
(* Performance/driver.c: every version of the two kernels is checked on an *)
(* image of an odd size and on one of each test size, measured on another, *)
(* and the version with the best mean over the sizes wins.                 *)
(***************************************************************************)
EXTENDS Kernels, Fcyc

CONSTANTS Versions,     \* the versions registered, in order: [kernel, code]
          test_dim,     \* of each kernel: the sequence of the test sizes
          ODD_DIM,
          Images(_),    \* bound: the images create may make of a size
          Drawings(_)   \* bound: what a version that is wrong may draw

\* The sizes of the images on which versions of kernel k run.
Sizes(k) == {ODD_DIM} \cup Range(test_dim[k])

ASSUME DriverAssumption ==
    /\ Versions \in Seq([kernel : {"motion", "complex"}, code : {"ours", "other"}]) \ {<<>>}
    /\ test_dim \in [{"motion", "complex"} -> Seq(Nat) \ {<<>>}]
    /\ \A k \in {"motion", "complex"} : \A n \in Sizes(k) :
        /\ Fits(k, n)
        /\ Images(n) \subseteq Image(n, Nat) /\ Drawings(n) \subseteq Image(n, Nat)

VARIABLES phase,        \* where test_complex or test_motion is
          stage,        \* of a test: "odd", "test" or "measure"
          bench,        \* the version under test
          test_num,
          copy_of_orig,
          cpes,         \* of each version, its cycles at each test size, 0 before
          best,         \* of each kernel, the cycles of the best version, <<>> for none
          passed        \* history: <<version, round, stage>> of what was drawn rightly

driver_vars == <<phase, stage, bench, test_num, copy_of_orig, cpes, best, passed>>
vars == <<kernel_vars, fcyc_vars, driver_vars>>

Version == Versions[bench]
Size == IF stage = "odd" THEN ODD_DIM ELSE test_dim[Version.kernel][test_num]
Black(n) == [o \in 0 .. n * n - 1 |-> 0]

Init ==
    /\ kernel = "none" /\ dim = 0 /\ src = <<>> /\ dst = <<>> /\ pc = "done"
    /\ i = 0 /\ j = 0 /\ ii = 0 /\ jj = 0 /\ p = 0
    /\ values = <<>> /\ samplecount = 0 /\ durations = <<>>
    /\ phase = "create" /\ stage = "odd" /\ bench = 1 /\ test_num = 1
    /\ copy_of_orig = <<>> /\ passed = {}
    /\ cpes = [v \in DOMAIN Versions |-> [n \in DOMAIN test_dim[Versions[v].kernel] |-> 0]]
    /\ best = [k \in {"motion", "complex"} |-> <<>>]

\* The next version, or the end of main.
NextVersion ==
    /\ bench' = bench + 1
    /\ phase' = IF bench < Len(Versions) THEN "create" ELSE "summary"
    /\ stage' = "odd" /\ test_num' = 1

\* create draws an image; measuring starts at once, a check runs the version once.
\* What is measured on is left black: nothing looks at it.
Create == \E image \in (IF stage = "measure" THEN {Black(Size)} ELSE Images(Size)) :
    /\ phase = "create"
    /\ Enter(Version.kernel, Size, image, Black(Size))
    /\ copy_of_orig' = image
    /\ init_sampler
    /\ phase' = IF stage = "measure" THEN "sample" ELSE "run"
    /\ UNCHANGED <<stage, bench, test_num, cpes, best, passed>>

\* A version of ours runs; any other one may leave anything in both images.
Run ==
    /\ phase = "run" /\ pc # "done"
    /\ IF Version.code = "ours"
       THEN KernelNext
       ELSE /\ src' \in {src, [src EXCEPT ![0] = @ + 1]}
            /\ dst' \in Drawings(dim)
            /\ pc' = "done" /\ kernel' = "other"
            /\ UNCHANGED <<dim, i, j, ii, jj, p>>
    /\ UNCHANGED <<fcyc_vars, driver_vars>>

check_orig == src = copy_of_orig

\* What the check is for: the right image, and the original untouched.
Right == /\ src = copy_of_orig
         /\ IF Version.kernel = "motion" THEN naive_motion(dim, copy_of_orig, dst)
                                         ELSE naive_complex(dim, copy_of_orig, dst)

\* Mutant of check: whether the version left its original alone is not asked.
check_result_only == IF Version.kernel = "motion" THEN naive_motion(dim, src, dst)
                                                  ELSE naive_complex(dim, src, dst)

\* check_motion and check_complex.
check == /\ check_orig
         /\ IF Version.kernel = "motion" THEN naive_motion(dim, src, dst)
                                         ELSE naive_complex(dim, src, dst)

\* Mutant of Check: the odd size decides in the first round only.
Check_once ==
    /\ phase = "run" /\ pc = "done"
    /\ passed' = IF Right THEN passed \cup {<<bench, test_num, stage>>} ELSE passed
    /\ IF check \/ (stage = "odd" /\ test_num > 1)
       THEN /\ stage' = IF stage = "odd" THEN "test" ELSE "measure"
            /\ phase' = "create"
            /\ UNCHANGED <<bench, test_num>>
       ELSE NextVersion
    /\ UNCHANGED <<cpes, best, copy_of_orig, kernel_vars, fcyc_vars>>

Check ==
    /\ phase = "run" /\ pc = "done"
    /\ passed' = IF Right THEN passed \cup {<<bench, test_num, stage>>} ELSE passed
    /\ IF check
       THEN /\ stage' = IF stage = "odd" THEN "test" ELSE "measure"
            /\ phase' = "create"
            /\ UNCHANGED <<bench, test_num>>
       ELSE NextVersion
    /\ UNCHANGED <<cpes, best, copy_of_orig, kernel_vars, fcyc_vars>>

\* fcyc_v runs the version again, on an image nobody looks at afterwards.
Measure ==
    /\ phase = "sample"
    /\ samplecount = 0 \/ ~Measured
    /\ Sample
    /\ UNCHANGED <<kernel_vars, driver_vars>>

\* The cycles of a test size; the next size begins with the odd one again.
Record ==
    /\ phase = "sample" /\ samplecount > 0 /\ Measured
    /\ cpes' = [cpes EXCEPT ![bench][test_num] = values[1]]
    /\ IF test_num < Len(test_dim[Version.kernel])
       THEN phase' = "create" /\ stage' = "odd" /\ test_num' = test_num + 1
       ELSE phase' = "score" /\ UNCHANGED <<stage, test_num>>
    /\ init_sampler
    /\ UNCHANGED <<bench, best, passed, copy_of_orig, kernel_vars>>

\* A mean is greater when the product of the cycles is less.
Product(s) == LET times[n \in 0 .. Len(s)] == IF n = 0 THEN 1 ELSE times[n-1] * s[n]
              IN  times[Len(s)]

\* The speedup; cycles that are not positive end the program.
Score ==
    LET cycles == cpes[bench] IN
    /\ phase = "score"
    /\ IF \E c \in Range(cycles) : c <= 0
       THEN phase' = "failed" /\ UNCHANGED <<stage, bench, test_num, best>>
       ELSE /\ best' = IF best[Version.kernel] = <<>>
                          \/ Product(cycles) < Product(best[Version.kernel])
                       THEN [best EXCEPT ![Version.kernel] = cycles] ELSE best
            /\ NextVersion
    /\ UNCHANGED <<cpes, passed, copy_of_orig, kernel_vars, fcyc_vars>>

Next == Create \/ Run \/ Check \/ Measure \/ Record \/ Score

Spec == Init /\ [][Next]_vars /\ WF_vars(Next)

-----------------------------------------------------------------------------
\* The types of the driver's variables.
TypeOK ==
    /\ phase \in {"create", "run", "sample", "score", "summary", "failed"}
    /\ stage \in {"odd", "test", "measure"}
    /\ bench \in 1 .. Len(Versions) + 1
    /\ samplecount \in 0 .. maxsamples
    /\ Len(values) <= kbest /\ Len(values) <= samplecount
    /\ dst \in [0 .. dim * dim - 1 -> Nat]

\* Version v has drawn the right image of the odd size and of test size n, both in
\* the round of n, and has left its originals alone.
RightIn(v, n) == {<<v, n, "odd">>, <<v, n, "test">>} \subseteq passed

\* No version is timed at a size, or keeps a time, unless it was right in that round:
\* not even one that was right before, or had times already (driver.c:484-508).
OnlyRightIsTimed ==
    /\ phase = "sample" => RightIn(bench, test_num)
    /\ \A v \in DOMAIN cpes : \A n \in DOMAIN cpes[v] : cpes[v][n] # 0 => RightIn(v, n)

\* The versions of kernel k that are through and were right in every round.
Finished(k) == {v \in 1 .. bench - 1 :
    Versions[v].kernel = k /\ \A n \in DOMAIN cpes[v] : RightIn(v, n)}

\* The score of a kernel is that of the fastest of the versions that were right
\* from the first round to the last, and there is none as long as there is no such
\* version: a failure in whatever round keeps a version out for good, with the times
\* it has in the table, and no version that was right is forgotten (driver.c:91, 577).
BestIsFastest == \A k \in DOMAIN best :
    IF Finished(k) = {} THEN best[k] = <<>>
    ELSE \E v \in Finished(k) :
            /\ best[k] = cpes[v]
            /\ \A w \in Finished(k) : Product(cpes[v]) <= Product(cpes[w])

\* The driver ends, however much the times of the runs scatter.
Ends == <>(phase \in {"summary", "failed"})
=============================================================================
