------------------------------ MODULE MCWorkers ------------------------------
(* A small instance of the workers for TLC.                                *)
EXTENDS WorkersProperties, TLC

CONSTANTS w1, w2, c1, c2, c3, sum, wait

(* Two tasks of one type and one of another.                               *)
ThreeCalls == (c1 :> sum) @@ (c2 :> sum) @@ (c3 :> wait)

(* What the name service returns: both workers, or w2 twice.                *)
SomeLists == {<<w1, w2>>, <<w2, w2>>}

(* The two tasks of one type are interchangeable.                          *)
CallSymmetry == Permutations({c1, c2})

(* Where the instance looks: w2 serves from the start and goes through its *)
(* whole life with two tasks at a time, w1 comes late and may stop before  *)
(* it serves, a call it gets waits there, and c3 is selected in between    *)
(* but does not run. States beyond are checked and not continued.          *)
Focus ==
  /\ phase[w1] \in {"off", "starting", "serving"}
  /\ At(w1, InPool) = {}
  /\ handler[c3].pc \in {"none", "queued", "ended"}
=============================================================================
