--------------------------- MODULE MCSignalQueue ---------------------------
(* A TLC instance of SignalQueue: two processes of one user.  The signal numbers
   are those of the source, the limits small enough to be reached. *)
EXTENDS SignalQueue

CONSTANTS p1, p2

UnequalLimits == [p \in Procs |-> IF p = p1 THEN 1 ELSE 2]

\* The first process gets every kind of signal, in its two queues; the second one
\* shares the account with it.
AllKinds ==
         {<<p1, "task">>} \X {9, 11, 34} \X {FALSE}
    \cup {<<p1, "task">>} \X {34} \X {TRUE}
    \cup {<<p1, "group">>} \X {11} \X {TRUE}
    \cup {<<p2, "task">>} \X {34} \X {FALSE}
=============================================================================
