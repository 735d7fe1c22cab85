------------------------------ MODULE MCFutex ------------------------------
(* A small instance of Futex. *)
EXTENDS Futex, TLC

CONSTANTS t1, t2

\* One thread waits for vectors of words, the other one for single words.
MCCalls == (t1 :> {"waitv"}) @@ (t2 :> {"wait"})
=============================================================================
