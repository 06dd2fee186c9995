----------------------------- MODULE Dispatcher -----------------------------
(***************************************************************************)
(* The dispatcher: PostTask and ReturnResult (servicer.py), the dispatch   *)
(* loop, its thread pool and its timeout timers (dispatch_loop.py), and    *)
(* the ExecuteTask call to a worker (worker_client.py, worker.py).         *)
(*                                                                         *)
(* A Task object is shared by reference: TaskStore.get returns the same    *)
(* object to every thread, so each attribute read and write below takes    *)
(* effect at once, under no lock, and TaskStore.update changes nothing.    *)
(* transition() reads the status and writes it in two steps; the thread    *)
(* may be preempted between them, so each call is a "check" action and a   *)
(* "set" action.                                                           *)
(*                                                                         *)
(* Every write of DISPATCHED starts a new dispatch of the task, numbered   *)
(* 1, 2, ... by the auxiliary variable dispatches: its timer, its          *)
(* ExecuteTask call and the worker's reports carry that number.            *)
(***************************************************************************)
EXTENDS StateMachine, Naturals, Sequences, FiniteSets

CONSTANTS
  Tasks,            \* the task_ids clients may post
  Unserved,         \* the tasks whose type no worker serves
  NoTask,           \* what an idle pool thread works on
  Pool,             \* the threads of the ThreadPoolExecutor (10 in the code)
  MaxRetries,       \* MAX_RETRIES (3 by default)
  RpcBeforeTimeout  \* TRUE iff DISPATCH_TIMEOUT exceeds the RPC deadline of
                    \* 5 s, so that the call returns before its timer fires
                    \* (30 s by default; the error tests set 3 s)

ASSUME TasksAssumption   == NoTask \notin Tasks /\ Unserved \subseteq Tasks
ASSUME RetriesAssumption == MaxRetries \in Nat \ {0}
ASSUME TimingAssumption  == RpcBeforeTimeout \in BOOLEAN

VARIABLES
  status, retry_count, result,  \* attributes of the Task objects
  dispatches,                   \* [auxiliary] DISPATCHED writes per task
  queue,                        \* TaskQueue: tasks waiting for the loop
  jobs,                         \* the executor's work queue
  pc, cur, no,                  \* per pool thread: where it is, its task and
                                \* the number of the dispatch it performs
  timer,                        \* per dispatch: its timeout timer
  timers,                       \* _timers: the registered dispatch, 0 if none
  call,                         \* per dispatch: ExecuteTask and its worker
  report                        \* per dispatch: the ReturnResult handlers

task    == <<status, retry_count, result, dispatches>>
threads == <<pc, cur, no>>
vars    == <<task, queue, jobs, threads, timer, timers, call, report>>

Dispatches == 1..MaxRetries
Outcome    == {"COMPLETED", "FAILED"}     \* ResultRequest.status
NoResult   == ""                          \* Task.result before any report

PoolPC   == {"idle", "lookup", "sleep", "checkDispatched", "setDispatched",
             "arm", "wait", "checkProcessing", "setProcessing", "cancel",
             "checkFailed", "setFailed"}
TimerPC  == {"none", "armed", "gate", "checkTimeout",
             "setTimeout", "checkRetrying", "setRetrying", "count",
             "checkFailed", "setFailed", "delay", "done"}
CallPC   == {"none", "sent", "sendingCOMPLETED", "sendingFAILED",
             "accepted", "refused"}
ReportPC == {"none", "gate", "cancel", "read", "checkProcessing",
             "setProcessing", "checkOutcome", "setOutcome", "store", "done"}

(***************************************************************************)
(* A pool thread holds a task until it has armed the timeout; a timer      *)
(* holds it until it is cancelled or its callback has returned.            *)
(***************************************************************************)
Holding == {"lookup", "sleep", "checkDispatched", "setDispatched", "arm"}
Pending == TimerPC \ {"none", "done"}

InSeq(s, t) == \E i \in DOMAIN s : s[i] = t

Init ==
  /\ status = [t \in Tasks |-> "CREATED"]
  /\ retry_count = [t \in Tasks |-> 0]
  /\ result = [t \in Tasks |-> NoResult]
  /\ dispatches = [t \in Tasks |-> 0]
  /\ queue = <<>>
  /\ jobs = <<>>
  /\ pc = [p \in Pool |-> "idle"]
  /\ cur = [p \in Pool |-> NoTask]
  /\ no = [p \in Pool |-> 0]
  /\ timer = [t \in Tasks |-> [n \in Dispatches |-> "none"]]
  /\ timers = [t \in Tasks |-> 0]
  /\ call = [t \in Tasks |-> [n \in Dispatches |-> "none"]]
  /\ report = [t \in Tasks |-> [n \in Dispatches |-> [o \in Outcome |-> "none"]]]

-----------------------------------------------------------------------------
(* transition(): the check of line 48-49 and the write of line 55.         *)

Allowed(t, new) == MayChange(status[t], new)

Set(t, new) ==
  /\ status' = [status EXCEPT ![t] = new]
  /\ UNCHANGED <<retry_count, result, dispatches>>

(* cancel_timeout: the registered timer is popped and, unless its callback *)
(* already runs, never fires.                                              *)
CancelTimeout(t) ==
  /\ timers' = [timers EXCEPT ![t] = 0]
  /\ timer' = IF timers[t] # 0 /\ timer[t][timers[t]] = "armed"
              THEN [timer EXCEPT ![t][timers[t]] = "done"]
              ELSE timer

-----------------------------------------------------------------------------
(* PostTask of a valid request: a Task in state QUEUED is stored and       *)
(* queued; no other thread knows its id in between.                        *)
PostTask(t) ==
  /\ status[t] = "CREATED"
  /\ Set(t, "QUEUED")
  /\ queue' = Append(queue, t)
  /\ UNCHANGED <<jobs, threads, timer, timers, call, report>>

(* run(): the loop takes the first task of the queue, rereads its status   *)
(* and submits it, or drops it when it is no longer waiting.               *)
RunLoop ==
  /\ queue # <<>>
  /\ queue' = Tail(queue)
  /\ jobs' = IF status[Head(queue)] \in {"QUEUED", "RETRYING"}
             THEN Append(jobs, Head(queue))
             ELSE jobs
  /\ UNCHANGED <<task, threads, timer, timers, call, report>>

-----------------------------------------------------------------------------
(* _dispatch, in a thread of the pool.                                     *)

Local == UNCHANGED <<task, queue, jobs, timer, timers, call, report>>

(* The thread moves on; on return it is idle and forgets its task.         *)
PoolGoto(p, from, to) ==
  /\ pc[p] = from
  /\ pc' = [pc EXCEPT ![p] = to]
  /\ cur' = [cur EXCEPT ![p] = IF to = "idle" THEN NoTask ELSE @]
  /\ no' = [no EXCEPT ![p] = IF to = "idle" THEN 0 ELSE @]

PoolCheck(p, from, new, to) ==
  PoolGoto(p, from, IF Allowed(cur[p], new) THEN to ELSE "idle") /\ Local

StartJob(p) ==
  /\ pc[p] = "idle"
  /\ jobs # <<>>
  /\ jobs' = Tail(jobs)
  /\ pc' = [pc EXCEPT ![p] = "lookup"]
  /\ cur' = [cur EXCEPT ![p] = Head(jobs)]
  /\ UNCHANGED <<task, queue, no, timer, timers, call, report>>

SelectWorker(p) ==
  cur[p] \notin Unserved /\ PoolGoto(p, "lookup", "checkDispatched") /\ Local

(* No worker, or the name service did not answer.                          *)
NoWorker(p) == PoolGoto(p, "lookup", "sleep") /\ Local

(* Mutant: the thread keeps the task and looks a worker up again.          *)
RetryLookup(p) == PoolGoto(p, "sleep", "lookup") /\ Local

RequeueUnserved(p) ==
  /\ PoolGoto(p, "sleep", "idle")
  /\ queue' = Append(queue, cur[p])
  /\ UNCHANGED <<task, jobs, timer, timers, call, report>>

CheckDispatched(p) == PoolCheck(p, "checkDispatched", "DISPATCHED", "setDispatched")

SetDispatched(p) ==
  /\ pc[p] = "setDispatched"
  /\ status' = [status EXCEPT ![cur[p]] = "DISPATCHED"]
  /\ dispatches' = [dispatches EXCEPT ![cur[p]] = @ + 1]
  /\ no' = [no EXCEPT ![p] = dispatches[cur[p]] + 1]
  /\ pc' = [pc EXCEPT ![p] = "arm"]
  /\ UNCHANGED <<retry_count, result, queue, jobs, cur, timer, timers, call, report>>

(* Mutant: the first timer registered for a task stays registered.         *)
ArmKeepingEntry(p) ==
  /\ PoolGoto(p, "arm", "wait")
  /\ timer' = [timer EXCEPT ![cur[p]][no[p]] = "armed"]
  /\ timers' = [timers EXCEPT ![cur[p]] = IF @ = 0 THEN no[p] ELSE @]
  /\ call' = [call EXCEPT ![cur[p]][no[p]] = "sent"]
  /\ UNCHANGED <<task, queue, jobs, report>>

(* _start_timeout_timer replaces the registered timer without cancelling   *)
(* it; then dispatch_task sends ExecuteTask.                               *)
ArmAndSend(p) ==
  /\ PoolGoto(p, "arm", "wait")
  /\ timer' = [timer EXCEPT ![cur[p]][no[p]] = "armed"]
  /\ timers' = [timers EXCEPT ![cur[p]] = no[p]]
  /\ call' = [call EXCEPT ![cur[p]][no[p]] = "sent"]
  /\ UNCHANGED <<task, queue, jobs, report>>

(* success is True, False, or None: the deadline or a connection error.    *)
Answered(p, answer) == pc[p] = "wait" /\ call[cur[p]][no[p]] = answer

RpcAccepted(p) ==
  Answered(p, "accepted") /\ PoolGoto(p, "wait", "checkProcessing") /\ Local

RpcRefused(p) == Answered(p, "refused") /\ PoolGoto(p, "wait", "cancel") /\ Local

(* Mutants: after an error the thread queues the task itself, or it stops  *)
(* the timer.                                                              *)
RpcErrorRequeues(p) ==
  /\ PoolGoto(p, "wait", "idle")
  /\ queue' = Append(queue, cur[p])
  /\ UNCHANGED <<task, jobs, timer, timers, call, report>>

RpcErrorCancels(p) ==
  /\ PoolGoto(p, "wait", "idle")
  /\ CancelTimeout(cur[p])
  /\ UNCHANGED <<task, queue, jobs, call, report>>

RpcError(p) == PoolGoto(p, "wait", "idle") /\ Local

CheckProcessing(p) == PoolCheck(p, "checkProcessing", "PROCESSING", "setProcessing")

SetProcessing(p) ==
  /\ PoolGoto(p, "setProcessing", "idle")
  /\ Set(cur[p], "PROCESSING")
  /\ UNCHANGED <<queue, jobs, timer, timers, call, report>>

CancelRefused(p) ==
  /\ PoolGoto(p, "cancel", "checkFailed")
  /\ CancelTimeout(cur[p])
  /\ UNCHANGED <<task, queue, jobs, call, report>>

CheckFailed(p) == PoolCheck(p, "checkFailed", "FAILED", "setFailed")

SetFailed(p) ==
  /\ PoolGoto(p, "setFailed", "idle")
  /\ Set(cur[p], "FAILED")
  /\ UNCHANGED <<queue, jobs, timer, timers, call, report>>

-----------------------------------------------------------------------------
(* _on_timeout, the callback of the timer of dispatch n of task t.         *)

TimerGoto(t, n, from, to) ==
  /\ timer[t][n] = from
  /\ timer' = [timer EXCEPT ![t][n] = to]
  /\ UNCHANGED <<jobs, threads, timers, call, report>>

(* Mutant: the timer does not wait for the call.                           *)
TimerFiresAnytime(t, n) ==
  /\ TimerGoto(t, n, "armed", "gate")
  /\ UNCHANGED <<task, queue>>

TimerFires(t, n) ==
  /\ RpcBeforeTimeout => \A p \in Pool : ~(cur[p] = t /\ no[p] = n)
  /\ TimerGoto(t, n, "armed", "gate")
  /\ UNCHANGED <<task, queue>>

TimerGate(t, n) ==
  /\ TimerGoto(t, n, "gate", IF status[t] \in Terminal THEN "done" ELSE "checkTimeout")
  /\ UNCHANGED <<task, queue>>

(* Mutant: the callback relies on its first test of the status.            *)
TimerTimesOut(t, n) ==
  /\ TimerGoto(t, n, "checkTimeout", "setTimeout")
  /\ UNCHANGED <<task, queue>>

TimerCheckTimeout(t, n) ==
  /\ TimerGoto(t, n, "checkTimeout", IF Allowed(t, "TIMEOUT") THEN "setTimeout" ELSE "done")
  /\ UNCHANGED <<task, queue>>

TimerSetTimeout(t, n) ==
  /\ TimerGoto(t, n, "setTimeout", "checkRetrying")
  /\ Set(t, "TIMEOUT")
  /\ UNCHANGED queue

TimerCheckRetrying(t, n) ==
  /\ TimerGoto(t, n, "checkRetrying", IF Allowed(t, "RETRYING") THEN "setRetrying" ELSE "done")
  /\ UNCHANGED <<task, queue>>

TimerSetRetrying(t, n) ==
  /\ TimerGoto(t, n, "setRetrying", "count")
  /\ Set(t, "RETRYING")
  /\ UNCHANGED queue

(* Mutant: > for >= in line 203.                                           *)
TimerCountOneMore(t, n) ==
  /\ TimerGoto(t, n, "count", IF retry_count[t] + 1 > MaxRetries THEN "checkFailed" ELSE "delay")
  /\ retry_count' = [retry_count EXCEPT ![t] = @ + 1]
  /\ UNCHANGED <<status, result, dispatches, queue>>

TimerCount(t, n) ==
  /\ TimerGoto(t, n, "count", IF retry_count[t] + 1 >= MaxRetries THEN "checkFailed" ELSE "delay")
  /\ retry_count' = [retry_count EXCEPT ![t] = @ + 1]
  /\ UNCHANGED <<status, result, dispatches, queue>>

TimerCheckFailed(t, n) ==
  /\ TimerGoto(t, n, "checkFailed", IF Allowed(t, "FAILED") THEN "setFailed" ELSE "done")
  /\ UNCHANGED <<task, queue>>

TimerSetFailed(t, n) ==
  /\ TimerGoto(t, n, "setFailed", "done")
  /\ Set(t, "FAILED")
  /\ UNCHANGED queue

(* Mutant: the delay timer is never started.                               *)
TimerForgets(t, n) ==
  /\ TimerGoto(t, n, "delay", "done")
  /\ UNCHANGED <<task, queue>>

(* The delay timer: _reenqueue_after_delay, after RETRY_REENQUEUE_DELAY.   *)
TimerReenqueue(t, n) ==
  /\ TimerGoto(t, n, "delay", "done")
  /\ queue' = Append(queue, t)
  /\ UNCHANGED task

-----------------------------------------------------------------------------
(* ReturnResult, called by the worker of dispatch n with outcome o.        *)

ReportGoto(t, n, o, from, to) ==
  /\ report[t][n][o] = from
  /\ report' = [report EXCEPT ![t][n][o] = to]
  /\ UNCHANGED <<queue, jobs, threads, call>>

ReportArrives(t, n, o) ==
  /\ call[t][n] = IF o = "COMPLETED" THEN "sendingCOMPLETED" ELSE "sendingFAILED"
  /\ ReportGoto(t, n, o, "none", "gate")
  /\ UNCHANGED <<task, timer, timers>>

ReportGate(t, n, o) ==
  /\ ReportGoto(t, n, o, "gate", IF status[t] \in Terminal THEN "done" ELSE "cancel")
  /\ UNCHANGED <<task, timer, timers>>

ReportCancel(t, n, o) ==
  /\ ReportGoto(t, n, o, "cancel", "read")
  /\ CancelTimeout(t)
  /\ UNCHANGED task

ReportRead(t, n, o) ==
  /\ ReportGoto(t, n, o, "read",
                IF status[t] = "DISPATCHED" THEN "checkProcessing" ELSE "checkOutcome")
  /\ UNCHANGED <<task, timer, timers>>

ReportCheckProcessing(t, n, o) ==
  /\ ReportGoto(t, n, o, "checkProcessing",
                IF Allowed(t, "PROCESSING") THEN "setProcessing" ELSE "done")
  /\ UNCHANGED <<task, timer, timers>>

ReportSetProcessing(t, n, o) ==
  /\ ReportGoto(t, n, o, "setProcessing", "checkOutcome")
  /\ Set(t, "PROCESSING")
  /\ UNCHANGED <<timer, timers>>

ReportCheckOutcome(t, n, o) ==
  /\ ReportGoto(t, n, o, "checkOutcome", IF Allowed(t, o) THEN "setOutcome" ELSE "done")
  /\ UNCHANGED <<task, timer, timers>>

(* Mutant: the handler returns without storing the result.                 *)
ReportSetOutcomeOnly(t, n, o) ==
  /\ ReportGoto(t, n, o, "setOutcome", "done")
  /\ Set(t, o)
  /\ UNCHANGED <<timer, timers>>

ReportSetOutcome(t, n, o) ==
  /\ ReportGoto(t, n, o, "setOutcome", "store")
  /\ Set(t, o)
  /\ UNCHANGED <<timer, timers>>

(* task.result is written after the terminal status.                       *)
ReportStore(t, n, o) ==
  /\ ReportGoto(t, n, o, "store", "done")
  /\ result' = [result EXCEPT ![t] = o]
  /\ UNCHANGED <<status, retry_count, dispatches, timer, timers>>

-----------------------------------------------------------------------------
(* ExecuteTask at the worker of dispatch n. The worker reports before it   *)
(* answers, and refuses when it drains. A worker that crashes or cannot be *)
(* reached takes no further step, and RpcError ends the call.              *)

CallGoto(t, n, from, to) ==
  /\ call[t][n] = from
  /\ call' = [call EXCEPT ![t][n] = to]
  /\ UNCHANGED <<task, queue, jobs, threads, timer, timers, report>>

WorkerSends(t, n) ==
  \E sending \in {"sendingCOMPLETED", "sendingFAILED"} : CallGoto(t, n, "sent", sending)

(* Sending the result raised, whether or not the dispatcher received it:   *)
(* the worker reports FAILED.                                              *)
WorkerSendFails(t, n) == CallGoto(t, n, "sendingCOMPLETED", "sendingFAILED")

(* An answer after the deadline reaches nobody.                            *)
Awaited(t, n) == \E p \in Pool : pc[p] = "wait" /\ cur[p] = t /\ no[p] = n

(* Mutant: the worker answers while its report is under way.               *)
WorkerAnswersEarly(t, n) ==
  /\ Awaited(t, n)
  /\ \/ CallGoto(t, n, "sendingCOMPLETED", "accepted")
     \/ CallGoto(t, n, "sent", "refused")

WorkerAnswers(t, n) ==
  /\ Awaited(t, n)
  /\ \/ CallGoto(t, n, "sent", "refused")
     \/ /\ report[t][n]["COMPLETED"] = "done"
        /\ CallGoto(t, n, "sendingCOMPLETED", "accepted")
     \/ /\ report[t][n]["FAILED"] = "done"
        /\ CallGoto(t, n, "sendingFAILED", "refused")

-----------------------------------------------------------------------------
PoolStep(p) ==
  \/ StartJob(p) \/ SelectWorker(p) \/ NoWorker(p) \/ RequeueUnserved(p)
  \/ CheckDispatched(p) \/ SetDispatched(p) \/ ArmAndSend(p)
  \/ RpcAccepted(p) \/ RpcRefused(p) \/ RpcError(p)
  \/ CheckProcessing(p) \/ SetProcessing(p)
  \/ CancelRefused(p) \/ CheckFailed(p) \/ SetFailed(p)

TimerStep(t, n) ==
  \/ TimerFires(t, n) \/ TimerGate(t, n)
  \/ TimerCheckTimeout(t, n) \/ TimerSetTimeout(t, n)
  \/ TimerCheckRetrying(t, n) \/ TimerSetRetrying(t, n)
  \/ TimerCount(t, n) \/ TimerCheckFailed(t, n) \/ TimerSetFailed(t, n)
  \/ TimerReenqueue(t, n)

ReportStep(t, n, o) ==
  \/ ReportGate(t, n, o) \/ ReportCancel(t, n, o) \/ ReportRead(t, n, o)
  \/ ReportCheckProcessing(t, n, o) \/ ReportSetProcessing(t, n, o)
  \/ ReportCheckOutcome(t, n, o) \/ ReportSetOutcome(t, n, o)
  \/ ReportStore(t, n, o)

WorkerStep(t, n) ==
  \/ WorkerSends(t, n) \/ WorkerSendFails(t, n) \/ WorkerAnswers(t, n)

(* The dispatcher may rest only when every posted task is terminal.        *)
Rest ==
  /\ \A t \in Tasks : status[t] \in Terminal
  /\ UNCHANGED vars

Next ==
  \/ \E t \in Tasks : PostTask(t)
  \/ RunLoop
  \/ \E p \in Pool : PoolStep(p)
  \/ \E t \in Tasks, n \in Dispatches : TimerStep(t, n) \/ WorkerStep(t, n)
  \/ \E t \in Tasks, n \in Dispatches, o \in Outcome :
        ReportArrives(t, n, o) \/ ReportStep(t, n, o)
  \/ Rest

Spec == Init /\ [][Next]_vars

(***************************************************************************)
(* The loop, the pool threads, the timers and the handlers are threads the *)
(* scheduler runs; an RPC ends at its deadline. Workers promise nothing.   *)
(* A served task does not meet an empty lookup forever.                    *)
(***************************************************************************)
Fairness ==
  /\ WF_vars(RunLoop)
  /\ \A p \in Pool : WF_vars(PoolStep(p))
  /\ \A t \in Tasks : SF_vars(\E p \in Pool : cur[p] = t /\ SelectWorker(p))
  /\ \A t \in Tasks, n \in Dispatches : WF_vars(TimerStep(t, n))
  /\ \A t \in Tasks, n \in Dispatches, o \in Outcome : WF_vars(ReportStep(t, n, o))

FairSpec == Spec /\ Fairness

=============================================================================
