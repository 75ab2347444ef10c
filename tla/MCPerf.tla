---------------------------------- MODULE MCPerf ----------------------------------
(* Three versions, one of them not ours, on images of up to 5 by 5.          *)
EXTENDS PerfDriver

MCVersions == << [kernel |-> "complex", code |-> "ours"],
                 [kernel |-> "motion", code |-> "ours"], [kernel |-> "motion", code |-> "other"] >>

MCTicks == {<<0, 0>>, <<1, 0>>, <<0, 1>>}

MCtest_dim == [complex |-> <<4>>, motion |-> <<3, 5>>]

\* A single bright pixel anywhere, and the driver's gradient.
MCImages(n) ==
    {[o \in 0 .. n * n - 1 |-> IF o = bright THEN 65535 ELSE 0] : bright \in 0 .. n * n - 1}
    \cup {[o \in 0 .. n * n - 1 |-> ((o \div n + (o % n)) * 65536) \div (2 * n)]}

\* A black image, and the one motion makes of a bright pixel at the first place.
MCDrawings(n) == {[o \in 0 .. n * n - 1 |-> IF o = 0 THEN corner ELSE 0] : corner \in {0, 7281}}

MCStarts == {[hi |-> 0, lo |-> 0], [hi |-> 0, lo |-> 15], [hi |-> 15, lo |-> 14]}

\* The closed form of weighted_combo is the loop over the window.
WindowSum(n, image, a, b) ==
    FoldSet(LAMBDA w, sum : sum + image[RIDX(a + w[1], b + w[2], n)], 0,
            {w \in (0 .. 2) \X (0 .. 2) : a + w[1] < n /\ b + w[2] < n})
Neighbors(n, a, b) == Cardinality({w \in (0 .. 2) \X (0 .. 2) : a + w[1] < n /\ b + w[2] < n})

ASSUME \A n \in 2 .. 5 : \A image \in MCImages(n) : \A a, b \in 0 .. n - 1 :
    weighted_combo(n, image, a, b) = WindowSum(n, image, a, b) \div Neighbors(n, a, b)
=============================================================================
