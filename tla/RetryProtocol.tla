--------------------------- MODULE RetryProtocol ----------------------------
(***************************************************************************)
(* What the retry mechanism of the dispatcher promises of each task, with  *)
(* queues, threads, timers and statuses abstracted away: a task waits in   *)
(* one place, is sent under the guard of one timeout at a time, waits      *)
(* again only when that timeout expired, and is sent at most MaxRetries    *)
(* times before it is over.                                                *)
(***************************************************************************)
EXTENDS Naturals

CONSTANTS Tasks, MaxRetries

VARIABLES phase, tries

vars == <<phase, tries>>

Init ==
  /\ phase = [t \in Tasks |-> "new"]
  /\ tries = [t \in Tasks |-> 0]

Move(t, from, to) ==
  /\ phase[t] = from
  /\ phase' = [phase EXCEPT ![t] = to]

Post(t)   == Move(t, "new", "waiting") /\ UNCHANGED tries
Send(t)   == /\ Move(t, "waiting", "sent")
             /\ tries[t] < MaxRetries
             /\ tries' = [tries EXCEPT ![t] = @ + 1]
Expire(t) == Move(t, "sent", "waiting") /\ tries[t] < MaxRetries /\ UNCHANGED tries

(* The task was settled or given up while it waited or while it was sent.  *)
Leave(t) == (Move(t, "waiting", "over") \/ Move(t, "sent", "over")) /\ UNCHANGED tries

(* What a task does within one phase is not seen here.                     *)
Hidden == UNCHANGED vars

Next == Hidden \/ \E t \in Tasks : Post(t) \/ Send(t) \/ Expire(t) \/ Leave(t)

Spec == Init /\ [][Next]_vars

=============================================================================
