------------------------------- MODULE MCPoll -------------------------------
(* A small instance of Poll: one eventfd, one socket, two waiters. *)
EXTENDS Poll, TLC

TaskSymmetry == Permutations(Tasks)
=============================================================================
