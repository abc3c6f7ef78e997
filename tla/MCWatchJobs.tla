------------------------------ MODULE MCWatchJobs ------------------------------
(* Constants of the checked instances of WatchJobs. *)
EXTENDS WatchJobs, TLC

Symmetry == Permutations(Pids)

===============================================================================
