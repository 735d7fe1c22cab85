--------------------------- MODULE MCThreadGroup ---------------------------
(* Small instances of ThreadGroup. *)
EXTENDS ThreadGroup

CONSTANTS m, a, b, p1, p2, p3
=============================================================================
