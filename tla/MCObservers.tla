----------------------------- MODULE MCObservers -----------------------------
(* A small instance of the dispatcher and its observers for TLC.           *)
EXTENDS Observers

CONSTANTS t1, t2, p1
=============================================================================
