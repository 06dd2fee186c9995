---------------------------- MODULE MCNameService ----------------------------
(* Small instances of the name service for TLC.                            *)
EXTENDS NameServiceProperties, FiniteSets, TLC

CONSTANTS w1, w2, sum, reverse

(* One worker serves both types, the other one only the first.             *)
TwoAndOne == (w1 :> <<sum, reverse>>) @@ (w2 :> <<sum>>)
EachOne   == (w1 :> <<sum>>) @@ (w2 :> <<sum>>)
Two       == w1 :> <<sum, reverse>>
One       == w1 :> <<sum>>

(* Workers that serve the same type may be exchanged.                      *)
Alike == Permutations({w1, w2})

(* Bounds. A process for which no call is left does not try to register,   *)
(* and losses of heartbeats, calls and restarts are counted together.      *)
CallLeft ==
  made = MaxCalls =>
    \A w \in Workers : phase[w] = "registering" =>
      \E h \in handlers : h.w = w /\ h.k = attempt[w]
Unheard == {w \in Workers : Alive(w) /\ ~steady[w]}
OneHeartbeat ==
  \A v, w \in Workers : v # w => Answered(v) \/ Answered(w)

TwoCalls == CallLeft /\ made + restarts + Cardinality(Unheard) <= 2
ThreeCalls ==
  /\ CallLeft /\ OneHeartbeat /\ Unheard = {}
  /\ made + 2 * restarts <= 3 /\ Cardinality(handlers) <= 2
=============================================================================
