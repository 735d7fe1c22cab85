-------------------------- MODULE MCThreadSignals --------------------------
(* Small instances of ThreadSignals. *)
EXTENDS ThreadSignals

CONSTANTS l, t1
=============================================================================
