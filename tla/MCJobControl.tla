----------------------------- MODULE MCJobControl -----------------------------
(* Constants of the checked instances of JobControl. *)
EXTENDS JobControl, TLC

Symmetry == Permutations(Pids)

===============================================================================
