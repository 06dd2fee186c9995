---------------------------- MODULE MCDispatcher ----------------------------
(* Small instances of the dispatcher for TLC.                              *)
EXTENDS DispatcherProperties, TLC

CONSTANTS t1, t2, p1, p2

(* The threads of the pool are interchangeable.                            *)
PoolSymmetry == Permutations(Pool)
=============================================================================
