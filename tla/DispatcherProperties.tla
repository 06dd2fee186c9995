------------------------ MODULE DispatcherProperties ------------------------
(***************************************************************************)
(* What must be true of the dispatcher, and what its documents say of it.  *)
(***************************************************************************)
EXTENDS Dispatcher

Posted(t) == status[t] # "CREATED"

(* Task t waits for a dispatch: in the queue, in the executor, or in a     *)
(* pool thread that has not yet written DISPATCHED.                        *)
Waiting(t) ==
  \/ InSeq(queue, t)
  \/ InSeq(jobs, t)
  \/ \E p \in Pool : cur[p] = t /\ pc[p] \in Holding \ {"arm"}

(* The status, counter and result attributes, the threads and the timers   *)
(* of the dispatcher stay within the values the code gives them.           *)
TypeOK ==
  /\ status \in [Tasks -> TaskState]
  /\ retry_count \in [Tasks -> Nat]
  /\ result \in [Tasks -> Outcome \cup {NoResult}]
  /\ dispatches \in [Tasks -> Nat]
  /\ queue \in Seq(Tasks)
  /\ jobs \in Seq(Tasks)
  /\ pc \in [Pool -> PoolPC]
  /\ cur \in [Pool -> Tasks \cup {NoTask}]
  /\ no \in [Pool -> 0..MaxRetries]
  /\ timer \in [Tasks -> [Dispatches -> TimerPC]]
  /\ timers \in [Tasks -> 0..MaxRetries]
  /\ call \in [Tasks -> [Dispatches -> CallPC]]
  /\ report \in [Tasks -> [Dispatches -> [Outcome -> ReportPC]]]
  /\ \A p \in Pool : (pc[p] = "idle") <=> (cur[p] = NoTask)

-----------------------------------------------------------------------------
(* A task is never scheduled twice: it is at one place of the queue, of    *)
(* the executor's queue, of the pool threads that prepare a dispatch or of *)
(* the timers that may put it back (dispatch_loop.py:98,113,225,235).      *)
Distinct(s) == \A i, j \in DOMAIN s : s[i] = s[j] => i = j
OneToken ==
  /\ Distinct(queue) /\ Distinct(jobs)
  /\ \A t \in Tasks : ~(InSeq(queue, t) /\ InSeq(jobs, t))
  /\ \A p \in Pool : pc[p] \in Holding =>
        /\ ~InSeq(queue, cur[p])
        /\ ~InSeq(jobs, cur[p])
        /\ \A q \in Pool : pc[q] \in Holding /\ cur[q] = cur[p] => q = p
  /\ \A t \in Tasks, n \in Dispatches : timer[t][n] \in Pending =>
        /\ ~InSeq(queue, t)
        /\ ~InSeq(jobs, t)
        /\ \A p \in Pool : pc[p] \in Holding => cur[p] # t
        /\ \A m \in Dispatches : timer[t][m] \in Pending => m = n

(* A task is sent at most MaxRetries times, and each dispatch but the last *)
(* one has been counted as a retry; a task waits only while it may be sent *)
(* again (dispatch_loop.py:196,203).                                       *)
RetryBudget ==
  \A t \in Tasks :
    /\ retry_count[t] <= dispatches[t]
    /\ dispatches[t] <= retry_count[t] + 1
    /\ dispatches[t] <= MaxRetries
    /\ Waiting(t) => dispatches[t] = retry_count[t] /\ retry_count[t] < MaxRetries

(* cancel_timeout reaches every timer that can still be cancelled: an      *)
(* armed timer is the registered one, though line 234 overwrites entries   *)
(* and line 246 pops them (dispatch_loop.py:231-248).                      *)
ArmedIsRegistered ==
  \A t \in Tasks, n \in Dispatches : timer[t][n] = "armed" => timers[t] = n

(* When the RPC ends before the timeout, a task that is not settled is     *)
(* still in somebody's hands: it waits, a timer guards it, or a handler or *)
(* a pool thread that cancelled the timer is about to settle it            *)
(* (servicer.py:239-256, dispatch_loop.py:158-168).                        *)
Settling(t) ==
  \/ \E n \in Dispatches, o \in Outcome :
        report[t][n][o] \in {"read", "checkProcessing", "setProcessing",
                             "checkOutcome", "setOutcome"}
  \/ \E p \in Pool : cur[p] = t /\ pc[p] \in {"checkFailed", "setFailed"}
Guarded(t) ==
  \/ \E p \in Pool : cur[p] = t /\ pc[p] = "arm"
  \/ \E n \in Dispatches : timer[t][n] \in Pending
NoLostTask ==
  \A t \in Tasks :
    Posted(t) /\ status[t] \notin Terminal => Waiting(t) \/ Guarded(t) \/ Settling(t)

(* When the RPC ends before the timeout, two pool threads never work on    *)
(* the same task (dispatch_loop.py:102-176).                               *)
OneThreadPerTask ==
  \A p, q \in Pool : cur[p] = cur[q] /\ cur[p] # NoTask => p = q

(* A worker answers "accepted" after its report was handled, so when the   *)
(* RPC ends before the timeout the accept branch never finds the task      *)
(* DISPATCHED and its write of PROCESSING is never reached                 *)
(* (dispatch_loop.py:141-153, worker.py:357-372). The documents, comments  *)
(* and tests say the opposite: AcceptStartsProcessing, below.              *)
AcceptComesTooLate == \A p \in Pool : pc[p] # "setProcessing"

(* A COMPLETED task has a result as soon as no handler is inside           *)
(* ReturnResult for it (servicer.py:247,255).                              *)
CompletedHasResult ==
  \A t \in Tasks :
    /\ status[t] = "COMPLETED"
    /\ \A n \in Dispatches, o \in Outcome : report[t][n][o] # "store"
    => result[t] # NoResult

(* A task that is terminal while nobody stands between the check and the   *)
(* write of a transition, or in front of the write of the result, is final:*)
(* no thread, timer or report still under way changes its status or its    *)
(* result, or takes a write up again. These windows are all that           *)
(* STATE_MODEL.md:21 overlooks, and they close for good                    *)
(* (state_machine.py:48-55, servicer.py:230-255, dispatch_loop.py:180-229).*)
Writing(t) ==
  \/ \E p \in Pool : cur[p] = t /\ pc[p] \in {"setDispatched", "setProcessing", "setFailed"}
  \/ \E n \in Dispatches : timer[t][n] \in {"setTimeout", "setRetrying", "setFailed"}
  \/ \E n \in Dispatches, o \in Outcome :
        report[t][n][o] \in {"setProcessing", "setOutcome", "store"}
Settled(t) == status[t] \in Terminal /\ ~Writing(t)
SettledIsFinal ==
  [][\A t \in Tasks : Settled(t) =>
       Settled(t)' /\ status'[t] = status[t] /\ result'[t] = result[t]]_vars

-----------------------------------------------------------------------------
(* The dispatcher implements the retry protocol: it sends a task again     *)
(* only after the timeout of the dispatch before expired, and at most      *)
(* MaxRetries times (dispatch_loop.py:87-235).                             *)
PhaseOf(t) ==
  CASE ~Posted(t) -> "new"
    [] Posted(t) /\ Waiting(t) -> "waiting"
    [] Posted(t) /\ ~Waiting(t) /\ \E n \in Dispatches : timer[t][n] = "delay" -> "waiting"
    [] Posted(t) /\ ~Waiting(t) /\ (\A n \in Dispatches : timer[t][n] # "delay")
         /\ Guarded(t) -> "sent"
    [] OTHER -> "over"

Protocol == INSTANCE RetryProtocol
  WITH phase <- [t \in Tasks |-> PhaseOf(t)], tries <- dispatches

RetriesFollowProtocol == Protocol!Spec

(* The calls of the dispatcher keep to the interface that the worker       *)
(* processes implement (CallsFollowInterface of WorkersProperties): an     *)
(* answer comes only after its report was handled, FAILED follows          *)
(* COMPLETED at most once, a given up call is not answered                 *)
(* (worker_client.py:22-58, worker.py:325-407, servicer.py:210-275).       *)
HandledReport(t, n) ==
  \/ call[t][n] = "sendingCOMPLETED" /\ report[t][n]["COMPLETED"] = "done"
  \/ call[t][n] = "sendingFAILED" /\ report[t][n]["FAILED"] = "done"

Interface == INSTANCE CallInterface
  WITH Calls <- Tasks \X Dispatches,
       stage <- [c \in Tasks \X Dispatches |-> call[c[1]][c[2]]],
       handled <- [c \in Tasks \X Dispatches |-> HandledReport(c[1], c[2])],
       awaited <- [c \in Tasks \X Dispatches |->
                     /\ Awaited(c[1], c[2])
                     /\ call[c[1]][c[2]] \notin {"accepted", "refused"}]

CallsKeepInterface == Interface!Spec

(* Every posted task whose type has workers ends in COMPLETED or FAILED    *)
(* and stays there, whatever the workers do and although a late write may  *)
(* still overwrite a terminal status for a while (ADR-005: after           *)
(* MAX_RETRIES a task ends in FAILED).                                     *)
EveryTaskSettles ==
  <>[](\A t \in Tasks \ Unserved : Posted(t) => status[t] \in Terminal)

-----------------------------------------------------------------------------
(* What the documents say and the code does not do.                        *)

(* STATE_MODEL.md:54: DISPATCHED becomes PROCESSING when the worker        *)
(* accepts; so the task is DISPATCHED when the answer is handled. With the *)
(* default timing the report was handled before (dispatch_loop.py:141-153, *)
(* servicer.py:242-247, worker.py:357-372).                                *)
AcceptStartsProcessing ==
  \A p \in Pool : pc[p] = "checkProcessing" => status[cur[p]] = "DISPATCHED"

(* STATE_MODEL.md:21: a COMPLETED or FAILED task is never overwritten      *)
(* (state_machine.py:48,55).                                               *)
TerminalIsFinal ==
  [][\A t \in Tasks : status[t] \in Terminal => status'[t] = status[t]]_vars

(* ADR-005: a late result of an old worker is ignored (servicer.py:230).   *)
LateResultIgnored ==
  \A t \in Tasks, n \in Dispatches, o \in Outcome :
    report[t][n][o] = "setOutcome" => n = dispatches[t]
=============================================================================
