-------------------------- MODULE WorkersProperties --------------------------
(***************************************************************************)
(* What must be true of the workers, of their selection and of the calls.  *)
(***************************************************************************)
EXTENDS Workers

(* The main threads, the calls and the selector stay within the values the *)
(* code gives them.                                                        *)
TypeOK ==
  /\ phase \in [Workers -> {"off", "starting", "serving", "updating", "waiting",
                            "joining", "quitting", "hurrying", "stuck", "jammed", "gone"}]
  /\ is_draining \in [Workers -> BOOLEAN]
  /\ current_load \in [Workers -> 0..Cardinality(Calls)]
  /\ timedOut \in [Workers -> BOOLEAN]
  /\ counters \in [Types -> 0..Cardinality(Calls)]
  /\ thread \in [Calls -> {"idle", "select", "wait", "over"}]
  /\ list \in [Calls -> Seq(Workers)]
  /\ target \in [Calls -> Workers \cup {NoOne}]
  /\ handler \in [Calls -> [pc : HandlerPC, answer : Answers, early : BOOLEAN]]
  /\ handled \in [Calls -> BOOLEAN]
  /\ got \in [Calls -> {"none", "accepted", "refused"}]

(* current_load is the number of calls between increase_load and           *)
(* decrease_load, also when sending the result fails twice and the         *)
(* exception leaves ExecuteTask: otherwise a later shutdown would always   *)
(* run into its timeout, or not wait at all (worker.py:346-407).           *)
LoadCountsTasks ==
  \A w \in Workers : current_load[w] = Cardinality(At(w, Counted))

(* When the shutdown has stopped waiting and no timeout ended the wait, no *)
(* task whose load was counted before the draining flag was set still      *)
(* runs. A task that read the flag before and counts its load later may    *)
(* still be running: it is not waited for (worker.py:246-272,329-346).     *)
DrainWaitsForRunning ==
  \A w \in Workers :
    phase[w] \in {"joining", "hurrying"} /\ ~timedOut[w] =>
      \A c \in At(w, Counted) : ~handler[c].early

(* As long as the lookups for a type return the same n entries, any n      *)
(* selections in a row for that type go through all n places, whatever     *)
(* other types are selected in between; when a worker is listed twice it   *)
(* gets two of them (worker_selector.py:35-39, ADR-003.md:90).             *)
RoundRobinFair ==
  \A y \in Types : Distinct(recent[y].places)

(* A call does what the dispatcher relies on: it answers only after the    *)
(* dispatcher handled the report, at most once, and FAILED follows         *)
(* COMPLETED only when sending that one raised (worker.py:325-407,         *)
(* worker_client.py:22-58).                                                *)
Stage(c) ==
  CASE thread[c] \in {"idle", "select"} -> "none"
    [] handler[c].pc = "ended" -> IF got[c] # "none" THEN got[c] ELSE "ended"
    [] handler[c].pc \in {"sendingCOMPLETED", "sendingFAILED"} -> handler[c].pc
    [] handler[c].answer = "accepted" -> "sendingCOMPLETED"
    [] handler[c].answer \in {"failed", "error"} -> "sendingFAILED"
    [] OTHER -> "sent"

Interface == INSTANCE CallInterface
  WITH stage <- [c \in Calls |-> Stage(c)],
       awaited <- [c \in Calls |-> thread[c] = "wait"]

CallsFollowInterface == Interface!Spec
=============================================================================
