-------------------------------- MODULE MCTsh --------------------------------
(* Tsh on small instances. *)
EXTENDS Tsh, TLC

CONSTANTS p1, p2

PidSymmetry == Permutations(Pid)
=============================================================================
