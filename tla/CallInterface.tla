---------------------------- MODULE CallInterface ----------------------------
(***************************************************************************)
(* What the dispatcher relies on in an ExecuteTask call, with worker       *)
(* processes, threads and shutdown abstracted away: the worker reports to  *)
(* the dispatcher before it answers, answers "accepted" only after the     *)
(* COMPLETED report was handled, falls back to FAILED at most once, and    *)
(* nobody is answered who no longer waits. Both the worker processes       *)
(* (Workers) and the calls of the dispatcher (Dispatcher) implement it.    *)
(***************************************************************************)
CONSTANT Calls

VARIABLES stage, handled, awaited

vars == <<stage, handled, awaited>>

Init ==
  /\ stage = [c \in Calls |-> "none"]
  /\ handled = [c \in Calls |-> FALSE]
  /\ awaited = [c \in Calls |-> FALSE]

Move(c, from, to) == stage[c] = from /\ stage' = [stage EXCEPT ![c] = to]

Send(c) ==
  /\ Move(c, "none", "sent")
  /\ awaited' = [awaited EXCEPT ![c] = TRUE]
  /\ UNCHANGED handled

WorkerSends(c) ==
  /\ Move(c, "sent", "sendingCOMPLETED") \/ Move(c, "sent", "sendingFAILED")
  /\ UNCHANGED <<handled, awaited>>

WorkerSendFails(c) ==
  /\ Move(c, "sendingCOMPLETED", "sendingFAILED")
  /\ handled' = [handled EXCEPT ![c] = FALSE]
  /\ UNCHANGED awaited

(* ReturnResult has run for the report that is under way.                  *)
ReportHandled(c) ==
  /\ stage[c] \in {"sendingCOMPLETED", "sendingFAILED"}
  /\ handled' = [handled EXCEPT ![c] = TRUE]
  /\ UNCHANGED <<stage, awaited>>

(* The deadline, or a connection error.                                    *)
GiveUp(c) ==
  /\ awaited[c]
  /\ awaited' = [awaited EXCEPT ![c] = FALSE]
  /\ UNCHANGED <<stage, handled>>

WorkerAnswers(c) ==
  /\ awaited[c]
  /\ \/ Move(c, "sent", "refused")
     \/ handled[c] /\ Move(c, "sendingCOMPLETED", "accepted")
     \/ handled[c] /\ Move(c, "sendingFAILED", "refused")
  /\ awaited' = [awaited EXCEPT ![c] = FALSE]
  /\ handled' = [handled EXCEPT ![c] = FALSE]

(* Workers stop working on calls without an answer, for good: they crash,  *)
(* or nobody waits any more, who then may or may not have noticed.         *)
Ends(C) ==
  /\ \A c \in C : stage[c] \in {"sent", "sendingCOMPLETED", "sendingFAILED"}
  /\ stage' = [c \in Calls |-> IF c \in C THEN "ended" ELSE stage[c]]
  /\ handled' = [c \in Calls |-> c \notin C /\ handled[c]]
  /\ \/ UNCHANGED awaited
     \/ awaited' = [c \in Calls |-> c \notin C /\ awaited[c]]

(* A step that shows nothing of a call stutters: most steps of the modules  *)
(* that implement this one do, so Next names it first.                     *)
Hidden == UNCHANGED vars

Next ==
  \/ Hidden
  \/ \E c \in Calls :
       \/ Send(c) \/ GiveUp(c)
       \/ WorkerSends(c) \/ WorkerSendFails(c) \/ ReportHandled(c) \/ WorkerAnswers(c)
  \/ \E C \in SUBSET Calls : Ends(C)

Spec == Init /\ [][Next]_vars

=============================================================================
