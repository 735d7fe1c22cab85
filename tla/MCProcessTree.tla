--------------------------- MODULE MCProcessTree ---------------------------
(* A small instance of ProcessTree. *)
EXTENDS ProcessTree, TLC

PidSymmetry == Permutations(Pids \ {InitPid})
=============================================================================
