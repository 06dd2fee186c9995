----------------------- MODULE DispatcherTimingProofs -----------------------
(***************************************************************************)
(* What the dispatcher promises when the RPC deadline lies before the      *)
(* timeout (5 s and 30 s by default): one thread per task, an accept       *)
(* branch that always comes too late, and no lost task. Proved for any     *)
(* sets of tasks and threads and any MaxRetries > 0.                       *)
(***************************************************************************)
EXTENDS DispatcherRefinementProofs

-----------------------------------------------------------------------------
(* The inductive invariant: OneThreadPerTask needs to know that a thread   *)
(* waits for the latest dispatch of its task, and AcceptComesTooLate how   *)
(* far the reports of that dispatch are; NoLostTask needs to know, for     *)
(* each status, who will change it.                                        *)

(* The thread p has sent the latest dispatch of its task, nobody schedules *)
(* the task, and at most the armed timer of that dispatch guards it.       *)
Away(p) ==
  /\ ~InSeq(queue, cur[p]) /\ ~InSeq(jobs, cur[p])
  /\ no[p] = dispatches[cur[p]]
  /\ \A n \in Dispatches : timer[cur[p]][n] \in Pending => timer[cur[p]][n] = "armed"

Working ==
  \A p \in Pool : cur[p] # NoTask =>
    /\ \A q \in Pool : cur[q] = cur[p] => q = p
    /\ pc[p] \notin Holding => Away(p)

(* No report of the dispatch that wrote DISPATCHED is past its own write.  *)
Early == {"none", "gate", "cancel", "read", "checkProcessing", "setProcessing"}
EarlyReports ==
  \A t \in Tasks, n \in Dispatches, o \in Outcome :
    status[t] = "DISPATCHED" /\ n = dispatches[t] => report[t][n][o] \in Early

AcceptedLate ==
  \A p \in Pool :
    /\ pc[p] # "setProcessing"
    /\ pc[p] = "checkProcessing" => status[cur[p]] # "DISPATCHED"

TimerIn(t, S)  == \E n \in Dispatches : timer[t][n] \in S
ReportIn(t, S) == \E n \in Dispatches, o \in Outcome : report[t][n][o] \in S
ThreadIn(t, S) == \E p \in Pool : cur[p] = t /\ pc[p] \in S

(* Whoever wrote a status that is not terminal, or took the task over from *)
(* who wrote it, will change it.                                           *)
InHandsOf(t) ==
  /\ status[t] = "QUEUED" => Waiting(t)
  /\ status[t] = "DISPATCHED" =>
       \/ ThreadIn(t, {"arm", "checkFailed", "setFailed"})
       \/ TimerIn(t, {"armed", "gate", "checkTimeout", "setTimeout"})
       \/ ReportIn(t, {"read", "checkProcessing", "setProcessing"})
  /\ status[t] = "PROCESSING" => ReportIn(t, {"checkOutcome", "setOutcome"})
  /\ status[t] = "TIMEOUT" => TimerIn(t, {"checkRetrying", "setRetrying"})
  /\ status[t] = "RETRYING" =>
       Waiting(t) \/ TimerIn(t, {"count", "checkFailed", "setFailed", "delay"})
InHands == \A t \in Tasks : InHandsOf(t)

TInv == CInv /\ Working /\ EarlyReports /\ AcceptedLate /\ InHands

-----------------------------------------------------------------------------
(* No thread works, no status is written.                                  *)
LEMMA InitTInv == Init => TInv
<1> SUFFICES ASSUME Init PROVE TInv
  OBVIOUS
<1>1. Working BY DEF Init, Working
<1>2. EarlyReports BY DEF Init, EarlyReports
<1>3. AcceptedLate BY DEF Init, AcceptedLate
<1>4. InHands BY DEF Init, InHands, InHandsOf
<1> QED BY <1>1, <1>2, <1>3, <1>4, InitCInv DEF TInv

(* Which statuses the state machine lets a thread leave (state_machine.py).*)
LEMMA TransitionFacts ==
  ASSUME NEW old \in TaskState
  PROVE  /\ MayChange(old, "DISPATCHED") <=> old \in {"QUEUED", "RETRYING"}
         /\ MayChange(old, "PROCESSING") <=> old = "DISPATCHED"
         /\ old = "PROCESSING" => MayChange(old, "COMPLETED")
         /\ old \in {"DISPATCHED", "PROCESSING", "RETRYING"} => MayChange(old, "FAILED")
         /\ old = "DISPATCHED" => MayChange(old, "TIMEOUT")
         /\ old = "TIMEOUT" => MayChange(old, "RETRYING")
BY DEF MayChange, VALID_TRANSITIONS, TaskState
-----------------------------------------------------------------------------
(* One thread per task.                                                    *)

(* A step that gives no thread a task and no sent task another place.      *)
LEMMA WorkingKept ==
  ASSUME Working,
         \A q \in Pool : cur'[q] \in {cur[q], NoTask},
         \A q \in Pool : cur'[q] # NoTask /\ pc'[q] \notin Holding =>
            /\ pc[q] \notin Holding /\ no'[q] = no[q]
            /\ InSeq(queue', cur[q]) \/ InSeq(jobs', cur[q]) =>
                 InSeq(queue, cur[q]) \/ InSeq(jobs, cur[q])
            /\ dispatches'[cur[q]] = dispatches[cur[q]]
            /\ \A n \in Dispatches : timer'[cur[q]][n] \in {timer[cur[q]][n], "done"}
  PROVE  Working'
<1> SUFFICES ASSUME NEW p \in Pool, cur'[p] # NoTask
             PROVE  /\ \A q \in Pool : cur'[q] = cur'[p] => q = p
                    /\ pc'[p] \notin Holding => Away(p)'
  BY DEF Working
<1>1. cur'[p] = cur[p] /\ \A q \in Pool : cur[q] = cur[p] => q = p
  BY DEF Working
<1>2. ASSUME pc'[p] \notin Holding PROVE Away(p)'
  <2>1. Away(p)
    BY <1>1, <1>2 DEF Working
  <2> QED BY <1>1, <1>2, <2>1 DEF Away, Pending
<1> QED BY <1>1, <1>2

(* A step of one thread that neither begins nor sends a dispatch.          *)
LEMMA PoolGotoWorking ==
  ASSUME IInv, Working, NEW p \in Pool, NEW from, NEW to, PoolGoto(p, from, to),
         to \in Holding \/ to = "idle" \/ from \notin Holding,
         UNCHANGED <<jobs, dispatches>>,
         queue' \in {queue, Append(queue, cur[p])}, queue' # queue => to = "idle",
         \A u \in Tasks, n \in Dispatches : timer'[u][n] \in {timer[u][n], "done"}
  PROVE  Working'
<1>1. /\ pc[p] = from /\ pc'[p] = to /\ cur'[p] = IF to = "idle" THEN NoTask ELSE cur[p]
      /\ to # "idle" => no'[p] = no[p]
      /\ \A q \in Pool : q # p => pc'[q] = pc[q] /\ cur'[q] = cur[q] /\ no'[q] = no[q]
  BY DEF IInv, TypeOK, PoolGoto
<1>2. \A q \in Pool : q # p /\ cur[q] # NoTask => cur[q] # cur[p]
  BY DEF Working
<1>3. \A q \in Pool : cur[q] # NoTask => cur[q] \in Tasks
  BY DEF IInv, TypeOK
<1>4. \A u : u # cur[p] => (InSeq(queue', u) <=> InSeq(queue, u))
  <2>1. CASE queue' = queue
    BY <2>1
  <2>2. CASE queue' = Append(queue, cur[p]) /\ cur[p] \in Tasks
    <3>1. queue \in Seq(Tasks)
      BY DEF IInv, TypeOK
    <3> QED BY <2>2, <3>1, AppendFacts
  <2>3. CASE queue' = Append(queue, cur[p]) /\ cur[p] = NoTask
    <3>1. queue \in Seq(Tasks \cup {NoTask}) /\ NoTask \in Tasks \cup {NoTask}
      BY DEF IInv, TypeOK
    <3> QED BY <2>3, <3>1, AppendFacts
  <2> QED BY <1>3, <2>1, <2>2, <2>3
<1> QED BY <1>1, <1>2, <1>3, <1>4, WorkingKept

(* A job the thread takes is nobody's.                                     *)
LEMMA StartJobWorking ==
  ASSUME IInv, Working, NEW p \in Pool, StartJob(p) PROVE Working'
<1>c. PICK t \in Tasks : t = Head(jobs)
  BY TailFacts DEF StartJob, IInv, TypeOK
<1>1. /\ InSeq(jobs, t)
      /\ \A u : InSeq(jobs', u) => InSeq(jobs, u)
  BY <1>c, TailFacts DEF StartJob, IInv, TypeOK
<1>2. /\ pc'[p] = "lookup" /\ cur'[p] = t
      /\ \A q \in Pool : q # p => pc'[q] = pc[q] /\ cur'[q] = cur[q]
      /\ UNCHANGED <<queue, no, dispatches, timer>>
  BY <1>c DEF StartJob, IInv, TypeOK, task
<1>3. \A q \in Pool : cur[q] # t
  <2> SUFFICES ASSUME NEW q \in Pool, cur[q] = t PROVE FALSE
    OBVIOUS
  <2>1. pc[q] \notin Holding
    BY <1>1, QueuedAlone
  <2>2. t # NoTask
    BY TasksAssumption
  <2> QED BY <1>1, <2>1, <2>2 DEF Working, Away
<1> SUFFICES ASSUME NEW q \in Pool, cur'[q] # NoTask
             PROVE  /\ \A r \in Pool : cur'[r] = cur'[q] => r = q
                    /\ pc'[q] \notin Holding => Away(q)'
  BY DEF Working
<1>4. \A r \in Pool : cur'[r] = cur'[q] => r = q
  BY <1>2, <1>3 DEF Working
<1>5. ASSUME pc'[q] \notin Holding PROVE Away(q)'
  <2>1. q # p /\ pc[q] \notin Holding /\ cur'[q] = cur[q] /\ cur[q] # NoTask
    BY <1>2, <1>5 DEF Holding
  <2>2. Away(q)
    BY <2>1 DEF Working
  <2> QED BY <1>1, <1>2, <2>1, <2>2 DEF Away
<1> QED BY <1>4, <1>5

(* The thread that begins a dispatch is the only one with the task.        *)
LEMMA SetDispatchedWorking ==
  ASSUME IInv, Working, NEW p \in Pool, SetDispatched(p) PROVE Working'
<1>1. /\ pc'[p] = "arm" /\ cur' = cur /\ cur[p] \in Tasks
      /\ \A q \in Pool : q # p => pc'[q] = pc[q] /\ no'[q] = no[q]
      /\ \A u \in Tasks : u # cur[p] => dispatches'[u] = dispatches[u]
      /\ UNCHANGED <<queue, jobs, timer>>
  BY DEF SetDispatched, IInv, TypeOK
<1>2. \A q \in Pool : q # p /\ cur[q] # NoTask => cur[q] # cur[p] /\ cur[q] \in Tasks
  BY DEF Working, IInv, TypeOK
<1> QED BY <1>1, <1>2, WorkingKept DEF Holding

(* The thread goes away with the timer it armed.                           *)
LEMMA ArmAndSendWorking ==
  ASSUME IInv, Working, NEW p \in Pool, ArmAndSend(p) PROVE Working'
<1>c. PICK t \in Tasks, n \in Dispatches : t = cur[p] /\ n = no[p]
  BY ArmAndSendFacts
<1>0. /\ pc[p] = "arm" /\ pc'[p] = "wait" /\ no[p] = dispatches[t]
      /\ \A q \in Pool : q # p => pc'[q] = pc[q]
      /\ UNCHANGED <<cur, no, dispatches>>
  BY <1>c, ArmAndSendFacts
<1>1. UNCHANGED <<queue, jobs>>
  BY DEF ArmAndSend
<1>2. /\ timer'[t][n] = "armed"
      /\ \A m \in Dispatches \ {n} : timer'[t][m] = timer[t][m]
      /\ \A u \in Tasks \ {t} : timer'[u] = timer[u]
  <2>1. timer' = [timer EXCEPT ![t][n] = "armed"] /\ timer \in [Tasks -> [Dispatches -> TimerPC]]
    BY <1>c DEF ArmAndSend, IInv, TypeOK
  <2> QED BY <2>1
<1>3. /\ ~InSeq(queue, t) /\ ~InSeq(jobs, t)
      /\ \A m \in Dispatches : timer[t][m] \notin Pending
  BY <1>0, <1>c, HoldingAlone DEF Holding
<1> SUFFICES ASSUME NEW q \in Pool, cur'[q] # NoTask
             PROVE  /\ \A r \in Pool : cur'[r] = cur'[q] => r = q
                    /\ pc'[q] \notin Holding => Away(q)'
  BY DEF Working
<1>4. \A r \in Pool : cur'[r] = cur'[q] => r = q
  BY <1>0 DEF Working
<1>5. CASE q = p
  <2>1. \A m \in Dispatches : timer'[t][m] \in Pending => timer'[t][m] = "armed"
    BY <1>2, <1>3
  <2> QED BY <1>0, <1>1, <1>3, <1>4, <1>5, <1>c, <2>1 DEF Away
<1>6. CASE q # p
  <2>1. cur[q] \in Tasks \ {t}
    BY <1>0, <1>c, <1>6 DEF Working, IInv, TypeOK
  <2>2. pc'[q] \notin Holding => Away(q)
    BY <1>0, <1>6 DEF Working
  <2> QED BY <1>0, <1>1, <1>2, <1>4, <2>1, <2>2 DEF Away
<1> QED BY <1>5, <1>6

(* Cancelling only ends timers.                                            *)
LEMMA CancelFacts ==
  ASSUME IInv, NEW t \in Tasks, CancelTimeout(t)
  PROVE  \A u \in Tasks, n \in Dispatches :
           \/ timer'[u][n] = timer[u][n]
           \/ u = t /\ timer[u][n] = "armed" /\ timer'[u][n] = "done"
<1>1. CASE timer' = timer
  BY <1>1
<1>2. CASE timers[t] # 0 /\ timer[t][timers[t]] = "armed"
  <2>1. PICK m \in Dispatches : m = timers[t]
    BY <1>2, RetriesAssumption DEF IInv, TypeOK, Dispatches
  <2>2. timer' = [timer EXCEPT ![t][m] = "done"] /\ timer \in [Tasks -> [Dispatches -> TimerPC]]
    BY <1>2, <2>1 DEF CancelTimeout, IInv, TypeOK
  <2> QED BY <1>2, <2>1, <2>2
<1> QED BY <1>1, <1>2 DEF CancelTimeout

(* _dispatch keeps its task to one thread.                                 *)
LEMMA PoolStepWorking ==
  ASSUME IInv, Working, NEW p \in Pool, PoolStep(p) PROVE Working'
<1>b. ASSUME NEW from, NEW to, PoolGoto(p, from, to), UNCHANGED <<queue, jobs, dispatches, timer>>,
             to \in Holding \/ to = "idle" \/ from \notin Holding
      PROVE  Working'
  BY <1>b, PoolGotoWorking
<1> USE DEF Holding
<1>1. CASE StartJob(p) BY <1>1, StartJobWorking
<1>2. CASE SelectWorker(p) BY <1>2, <1>b DEF SelectWorker, Local, task
<1>3. CASE NoWorker(p) BY <1>3, <1>b DEF NoWorker, Local, task
<1>4. CASE RequeueUnserved(p) BY <1>4, PoolGotoWorking DEF RequeueUnserved, task
<1>5. CASE CheckDispatched(p) BY <1>5, <1>b DEF CheckDispatched, PoolCheck, Local, task
<1>6. CASE SetDispatched(p) BY <1>6, SetDispatchedWorking
<1>7. CASE ArmAndSend(p) BY <1>7, ArmAndSendWorking
<1>8. CASE RpcAccepted(p) BY <1>8, <1>b DEF RpcAccepted, Local, task
<1>9. CASE RpcRefused(p) BY <1>9, <1>b DEF RpcRefused, Local, task
<1>10. CASE RpcError(p) BY <1>10, <1>b DEF RpcError, Local, task
<1>11. CASE CheckProcessing(p) BY <1>11, <1>b DEF CheckProcessing, PoolCheck, Local, task
<1>12. CASE SetProcessing(p) BY <1>12, <1>b DEF SetProcessing, Set
<1>13. CASE CancelRefused(p)
  <2>1. PICK t \in Tasks : t = cur[p]
    BY <1>13 DEF CancelRefused, PoolGoto, IInv, TypeOK
  <2>2. \A u \in Tasks, n \in Dispatches : timer'[u][n] \in {timer[u][n], "done"}
    BY <1>13, <2>1, CancelFacts DEF CancelRefused
  <2> QED BY <1>13, <2>2, PoolGotoWorking DEF CancelRefused, task
<1>14. CASE CheckFailed(p) BY <1>14, <1>b DEF CheckFailed, PoolCheck, Local, task
<1>15. CASE SetFailed(p) BY <1>15, <1>b DEF SetFailed, Set
<1> QED BY <1>1, <1>2, <1>3, <1>4, <1>5, <1>6, <1>7, <1>8, <1>9, <1>10, <1>11,
           <1>12, <1>13, <1>14, <1>15 DEF PoolStep

(* When the RPC ends before the timeout, no thread works on the task of a  *)
(* timer that has fired.                                                   *)
LEMMA FiredAlone ==
  ASSUME RpcBeforeTimeout, IInv, Working, NEW t \in Tasks, NEW n \in Dispatches, TimerStep(t, n)
  PROVE  \A q \in Pool : cur[q] # t
<1> SUFFICES ASSUME NEW q \in Pool, cur[q] = t PROVE FALSE
  OBVIOUS
<1>1. timer[t][n] \in Pending
  BY DEF TimerStep, TimerFires, TimerGate, TimerCheckTimeout, TimerSetTimeout,
         TimerCheckRetrying, TimerSetRetrying, TimerCount, TimerCheckFailed,
         TimerSetFailed, TimerReenqueue, TimerGoto, Pending, TimerPC
<1>2. pc[q] \notin Holding
  BY <1>1, PendingAlone
<1>3. Away(q) /\ t # NoTask
  BY <1>2, TasksAssumption DEF Working
<1>4. timer[t][n] = "armed"
  BY <1>1, <1>3 DEF Away
<1>5. n = no[q]
  BY <1>3, <1>4 DEF Away, IInv, Counters, Uncounted
<1>6. TimerFires(t, n)
  BY <1>4 DEF TimerStep, TimerFires, TimerGate, TimerCheckTimeout, TimerSetTimeout,
         TimerCheckRetrying, TimerSetRetrying, TimerCount, TimerCheckFailed,
         TimerSetFailed, TimerReenqueue, TimerGoto
<1> QED BY <1>5, <1>6 DEF TimerFires

(* A timer that has fired moves a task no thread works on.                 *)
LEMMA TimerStepWorking ==
  ASSUME RpcBeforeTimeout, IInv, Working, NEW t \in Tasks, NEW n \in Dispatches, TimerStep(t, n)
  PROVE  Working'
<1>1. \A q \in Pool : cur[q] # t
  BY FiredAlone
<1>2. /\ UNCHANGED <<jobs, pc, cur, no, dispatches>>
      /\ queue' = queue \/ queue' = Append(queue, t)
      /\ \E from, to : TimerGoto(t, n, from, to)
  BY DEF TimerStep, TimerFires, TimerGate, TimerCheckTimeout, TimerSetTimeout,
         TimerCheckRetrying, TimerSetRetrying, TimerCount, TimerCheckFailed,
         TimerSetFailed, TimerReenqueue, TimerGoto, Set, task, threads
<1>3. \A u \in Tasks \ {t} : timer'[u] = timer[u]
  BY <1>2 DEF TimerGoto, IInv, TypeOK
<1>4. \A u : u # t => (InSeq(queue', u) <=> InSeq(queue, u))
  <2>1. queue \in Seq(Tasks)
    BY DEF IInv, TypeOK
  <2>2. CASE queue' = Append(queue, t)
    BY <2>1, <2>2, AppendFacts
  <2> QED BY <1>2, <2>2
<1>5. \A q \in Pool : cur[q] # NoTask => cur[q] \in Tasks \ {t}
  BY <1>1 DEF IInv, TypeOK
<1> QED BY <1>2, <1>3, <1>4, <1>5, WorkingKept

(* Every step keeps a task to one thread.                                  *)
LEMMA NextWorking ==
  ASSUME RpcBeforeTimeout, IInv, Working, [Next]_vars PROVE Working'
<1>b. ASSUME UNCHANGED <<queue, jobs, pc, cur, no, dispatches>>,
             \A u \in Tasks, n \in Dispatches : timer'[u][n] \in {timer[u][n], "done"}
      PROVE  Working'
  <2>1. \A q \in Pool : cur[q] # NoTask => cur[q] \in Tasks
    BY DEF IInv, TypeOK
  <2> QED BY <1>b, <2>1, WorkingKept
<1>1. ASSUME NEW t \in Tasks, PostTask(t) PROVE Working'
  <2>1. \A q \in Pool : cur[q] # t
    BY <1>1 DEF PostTask, IInv, Fresh
  <2>2. \A u : InSeq(queue', u) <=> InSeq(queue, u) \/ u = t
    BY <1>1, AppendFacts DEF PostTask, IInv, TypeOK
  <2>3. UNCHANGED <<jobs, pc, cur, no, dispatches, timer>>
    BY <1>1 DEF PostTask, Set, threads
  <2> QED BY <2>1, <2>2, <2>3, WorkingKept
<1>2. CASE RunLoop
  <2>1. \A u : InSeq(queue', u) \/ InSeq(jobs', u) => InSeq(queue, u) \/ InSeq(jobs, u)
    BY <1>2, TailFacts, AppendFacts DEF RunLoop, IInv, TypeOK
  <2>2. UNCHANGED <<pc, cur, no, dispatches, timer>>
    BY <1>2 DEF RunLoop, task, threads
  <2> QED BY <2>1, <2>2, WorkingKept
<1>3. ASSUME NEW t \in Tasks, NEW n \in Dispatches, WorkerStep(t, n) PROVE Working'
  BY <1>3, <1>b DEF WorkerStep, WorkerSends, WorkerSendFails, WorkerAnswers, CallGoto,
          task, threads
<1>4. ASSUME NEW t \in Tasks, NEW n \in Dispatches, NEW o \in Outcome,
             ReportArrives(t, n, o) \/ ReportStep(t, n, o)
      PROVE  Working'
  <2>1. UNCHANGED <<queue, jobs, pc, cur, no, dispatches>>
    BY <1>4, ReportFacts
  <2>2. timer' = timer \/ CancelTimeout(t)
    BY <1>4 DEF ReportArrives, ReportStep, ReportGate, ReportCancel, ReportRead,
         ReportCheckProcessing, ReportSetProcessing, ReportCheckOutcome, ReportSetOutcome,
         ReportStore
  <2>3. \A u \in Tasks, m \in Dispatches : timer'[u][m] \in {timer[u][m], "done"}
    BY <2>2, CancelFacts
  <2> QED BY <1>b, <2>1, <2>3
<1>5. CASE UNCHANGED vars
  BY <1>5, <1>b DEF vars, task, threads
<1> QED BY <1>1, <1>2, <1>3, <1>4, <1>5, PoolStepWorking, TimerStepWorking DEF Next, Rest

-----------------------------------------------------------------------------
(* The accept branch comes too late.                                       *)

(* Only the thread that begins a dispatch writes DISPATCHED.               *)
NotDispatched == \A t \in Tasks : status'[t] = "DISPATCHED" => status[t] = "DISPATCHED"

(* A write of another status.                                              *)
LEMMA WriteNotDispatched ==
  ASSUME TypeOK, NEW new, new # "DISPATCHED", NEW t,
         status' = status \/ status' = [status EXCEPT ![t] = new]
  PROVE  NotDispatched
BY DEF NotDispatched, TypeOK

(* _dispatch writes DISPATCHED at one place only.                          *)
LEMMA PoolNotDispatched ==
  ASSUME TypeOK, NEW p \in Pool, PoolStep(p), ~SetDispatched(p) PROVE NotDispatched
<1>1. \E new \in {"PROCESSING", "FAILED"} :
        status' = status \/ status' = [status EXCEPT ![cur[p]] = new]
  BY DEF PoolStep, StartJob, SelectWorker, NoWorker, RequeueUnserved, CheckDispatched,
         ArmAndSend, RpcAccepted, RpcRefused, RpcError, CheckProcessing,
         SetProcessing, CancelRefused, CheckFailed, SetFailed, PoolCheck, Local, Set, task
<1> QED BY <1>1, WriteNotDispatched

(* _on_timeout never writes DISPATCHED.                                    *)
LEMMA TimerNotDispatched ==
  ASSUME TypeOK, NEW t \in Tasks, NEW n \in Dispatches, TimerStep(t, n) PROVE NotDispatched
<1>1. \E new \in {"TIMEOUT", "RETRYING", "FAILED"} :
        status' = status \/ status' = [status EXCEPT ![t] = new]
  BY DEF TimerStep, TimerFires, TimerGate, TimerCheckTimeout, TimerSetTimeout,
         TimerCheckRetrying, TimerSetRetrying, TimerCount, TimerCheckFailed,
         TimerSetFailed, TimerReenqueue, Set, task
<1> QED BY <1>1, WriteNotDispatched

(* ReturnResult never writes DISPATCHED.                                   *)
LEMMA ReportNotDispatched ==
  ASSUME TypeOK, NEW t \in Tasks, NEW n \in Dispatches, NEW o \in Outcome,
         ReportArrives(t, n, o) \/ ReportStep(t, n, o)
  PROVE  NotDispatched
<1>1. \E new \in {"PROCESSING", "COMPLETED", "FAILED"} :
        status' = status \/ status' = [status EXCEPT ![t] = new]
  BY DEF ReportArrives, ReportStep, ReportGate, ReportCancel, ReportRead,
         ReportCheckProcessing, ReportSetProcessing, ReportCheckOutcome, ReportSetOutcome,
         ReportStore, Set, task, Outcome
<1> QED BY <1>1, WriteNotDispatched

(* A step that begins no dispatch and moves no report.                     *)
LEMMA EarlyKept ==
  ASSUME EarlyReports, NotDispatched, UNCHANGED <<dispatches, report>> PROVE EarlyReports'
BY DEF EarlyReports, NotDispatched

(* No report of the new dispatch can exist yet.                            *)
LEMMA SetDispatchedEarly ==
  ASSUME CInv, EarlyReports, NEW p \in Pool, SetDispatched(p) PROVE EarlyReports'
<1>c. PICK t \in Tasks : t = cur[p]
  BY TypeFacts DEF CInv, IInv, SetDispatched, Holding
<1>1. /\ dispatches[t] \in Nat /\ dispatches'[t] = dispatches[t] + 1
      /\ \A u \in Tasks \ {t} : dispatches'[u] = dispatches[u] /\ status'[u] = status[u]
      /\ UNCHANGED report
  BY <1>c DEF SetDispatched, CInv, IInv, TypeOK
<1>2. \A n \in Dispatches, o \in Outcome : n = dispatches'[t] => report[t][n][o] = "none"
  <2> SUFFICES ASSUME NEW n \in Dispatches, n = dispatches[t] + 1
               PROVE  \A o \in Outcome : report[t][n][o] = "none"
    BY <1>1
  <2>1. n > dispatches[t]
    BY <1>1
  <2>2. call[t][n] = "none"
    BY <2>1 DEF CInv, CallNumbers
  <2> QED BY <2>2 DEF CInv, CallReports
<1> SUFFICES ASSUME NEW u \in Tasks, NEW n \in Dispatches, NEW o \in Outcome,
                    status'[u] = "DISPATCHED", n = dispatches'[u]
             PROVE  report'[u][n][o] \in Early
  BY DEF EarlyReports
<1>3. CASE u = t
  BY <1>1, <1>2, <1>3 DEF Early
<1>4. CASE u # t
  BY <1>1, <1>4 DEF EarlyReports
<1> QED BY <1>3, <1>4

(* A report moves past its own write only when the status is no longer     *)
(* DISPATCHED.                                                             *)
LEMMA ReportEarly ==
  ASSUME CInv, EarlyReports, NEW t \in Tasks, NEW n \in Dispatches, NEW o \in Outcome,
         ReportArrives(t, n, o) \/ ReportStep(t, n, o)
  PROVE  EarlyReports'
<1>a. TypeOK /\ status[t] \in TaskState
  BY DEF CInv, IInv, TypeOK
<1>1. /\ NotDispatched /\ UNCHANGED dispatches
      /\ \A u \in Tasks, m \in Dispatches, q \in Outcome :
           ~(u = t /\ m = n /\ q = o) => report'[u][m][q] = report[u][m][q]
  BY <1>a, ReportNotDispatched, ReportFacts DEF CInv
<1>2. ASSUME NEW from, NEW to, ReportGoto(t, n, o, from, to)
      PROVE  report[t][n][o] = from /\ report'[t][n][o] = to
  BY <1>2 DEF ReportGoto, CInv, IInv, TypeOK
<1>3. \/ report'[t][n][o] \in Early
      \/ report[t][n][o] \notin Early
      \/ status[t] # "DISPATCHED"
      \/ status'[t] # "DISPATCHED"
  <2> USE DEF Early
  <2>1. CASE ReportArrives(t, n, o) BY <1>2, <2>1 DEF ReportArrives
  <2>2. CASE ReportGate(t, n, o) BY <1>2, <2>2 DEF ReportGate, Terminal
  <2>3. CASE ReportCancel(t, n, o) BY <1>2, <2>3 DEF ReportCancel
  <2>4. CASE ReportRead(t, n, o) BY <1>2, <2>4 DEF ReportRead
  <2>5. CASE ReportCheckProcessing(t, n, o)
    BY <1>2, <1>a, <2>5, TransitionFacts DEF ReportCheckProcessing, Allowed
  <2>6. CASE ReportSetProcessing(t, n, o)
    BY <1>a, <2>6 DEF ReportSetProcessing, Set, TypeOK
  <2>7. CASE ReportCheckOutcome(t, n, o) BY <1>2, <2>7 DEF ReportCheckOutcome
  <2>8. CASE ReportSetOutcome(t, n, o) BY <1>2, <2>8 DEF ReportSetOutcome
  <2>9. CASE ReportStore(t, n, o) BY <1>2, <2>9 DEF ReportStore
  <2> QED BY <2>1, <2>2, <2>3, <2>4, <2>5, <2>6, <2>7, <2>8, <2>9 DEF ReportStep
<1> SUFFICES ASSUME NEW u \in Tasks, NEW m \in Dispatches, NEW q \in Outcome,
                    status'[u] = "DISPATCHED", m = dispatches'[u]
             PROVE  report'[u][m][q] \in Early
  BY DEF EarlyReports
<1>4. status[u] = "DISPATCHED" /\ report[u][m][q] \in Early
  BY <1>1 DEF NotDispatched, EarlyReports
<1> QED BY <1>1, <1>3, <1>4

(* Every step leaves the reports of a DISPATCHED task before their write.  *)
LEMMA NextEarly ==
  ASSUME CInv, EarlyReports, [Next]_vars PROVE EarlyReports'
<1>a. TypeOK BY DEF CInv, IInv
<1>1. ASSUME NEW t \in Tasks, PostTask(t) PROVE EarlyReports'
  BY <1>a, <1>1, EarlyKept, WriteNotDispatched DEF PostTask, Set
<1>2. CASE RunLoop
  BY <1>2, EarlyKept DEF RunLoop, task, NotDispatched
<1>3. ASSUME NEW p \in Pool, PoolStep(p) PROVE EarlyReports'
  <2>1. CASE SetDispatched(p) BY <2>1, SetDispatchedEarly
  <2>2. CASE ~SetDispatched(p)
    <3>1. UNCHANGED <<dispatches, report>>
      BY <1>3, <2>2 DEF PoolStep, StartJob, SelectWorker, NoWorker, RequeueUnserved,
         CheckDispatched, ArmAndSend, RpcAccepted, RpcRefused, RpcError, CheckProcessing,
         SetProcessing, CancelRefused, CheckFailed, SetFailed, PoolCheck, Local, Set, task
    <3> QED BY <1>3, <1>a, <2>2, <3>1, PoolNotDispatched, EarlyKept
  <2> QED BY <2>1, <2>2
<1>4. ASSUME NEW t \in Tasks, NEW n \in Dispatches, TimerStep(t, n) PROVE EarlyReports'
  <2>1. UNCHANGED <<dispatches, report>>
    BY <1>4 DEF TimerStep, TimerFires, TimerGate, TimerCheckTimeout, TimerSetTimeout,
         TimerCheckRetrying, TimerSetRetrying, TimerCount, TimerCheckFailed,
         TimerSetFailed, TimerReenqueue, TimerGoto, Set, task
  <2> QED BY <1>4, <1>a, <2>1, TimerNotDispatched, EarlyKept
<1>5. ASSUME NEW t \in Tasks, NEW n \in Dispatches, WorkerStep(t, n) PROVE EarlyReports'
  BY <1>5, EarlyKept DEF WorkerStep, WorkerSends, WorkerSendFails, WorkerAnswers, CallGoto,
          task, NotDispatched
<1>6. CASE UNCHANGED vars
  BY <1>6, EarlyKept DEF vars, task, NotDispatched
<1> QED BY <1>1, <1>2, <1>3, <1>4, <1>5, <1>6, ReportEarly DEF Next, Rest

(* A step that brings no thread into the accept branch.                    *)
LEMMA AcceptedKept ==
  ASSUME IInv, AcceptedLate, NotDispatched,
         \A q \in Pool : pc'[q] \in {"checkProcessing", "setProcessing"} =>
            pc'[q] = pc[q] /\ cur'[q] = cur[q]
  PROVE  AcceptedLate'
<1>1. \A q \in Pool : pc[q] # "idle" => cur[q] \in Tasks
  BY DEF IInv, TypeOK
<1> QED BY <1>1 DEF AcceptedLate, NotDispatched

(* The report that let the worker answer has written the status.           *)
LEMMA RpcAcceptedLate ==
  ASSUME CInv, Working, EarlyReports, AcceptedLate, NEW p \in Pool, RpcAccepted(p)
  PROVE  AcceptedLate'
<1>1. /\ pc[p] = "wait" /\ call[cur[p]][no[p]] = "accepted"
      /\ pc'[p] = "checkProcessing" /\ cur'[p] = cur[p]
      /\ \A q \in Pool : q # p => pc'[q] = pc[q] /\ cur'[q] = cur[q]
      /\ UNCHANGED status
  BY PoolGotoFacts DEF RpcAccepted, Answered, CInv, Local, task
<1>2. PICK t \in Tasks, n \in Dispatches : t = cur[p] /\ n = no[p]
  BY <1>1 DEF CInv, OneWaiter
<1>3. n = dispatches[t]
  BY <1>1, <1>2, TasksAssumption DEF Working, Away, Holding
<1>4. report[t][n]["COMPLETED"] = "done"
  BY <1>1, <1>2 DEF CInv, CallReports
<1>5. status[t] # "DISPATCHED"
  BY <1>3, <1>4 DEF EarlyReports, Early, Outcome
<1> QED BY <1>1, <1>2, <1>5 DEF AcceptedLate

(* No step of _dispatch enters the accept branch while the task is         *)
(* DISPATCHED.                                                             *)
LEMMA PoolStepAccepted ==
  ASSUME CInv, Working, EarlyReports, AcceptedLate, NEW p \in Pool, PoolStep(p)
  PROVE  AcceptedLate'
<1>a. IInv /\ TypeOK BY DEF CInv, IInv
<1>b. ASSUME NEW from, NEW to, to \notin {"checkProcessing", "setProcessing"},
             PoolGoto(p, from, to), ~SetDispatched(p)
      PROVE  AcceptedLate'
  <2>1. NotDispatched
    BY <1>a, <1>b, PoolNotDispatched
  <2> QED BY <1>a, <1>b, <2>1, PoolGotoFacts, AcceptedKept
<1>s. pc[p] # "setDispatched" => ~SetDispatched(p)
  BY DEF SetDispatched
<1>1. CASE StartJob(p)
  <2>1. /\ pc'[p] = "lookup" /\ UNCHANGED status
        /\ \A q \in Pool : q # p => pc'[q] = pc[q] /\ cur'[q] = cur[q]
    BY <1>a, <1>1 DEF TypeOK, StartJob, task
  <2> QED BY <1>a, <2>1, AcceptedKept DEF NotDispatched
<1>2. CASE SelectWorker(p) BY <1>2, <1>b, <1>s DEF SelectWorker, PoolGoto
<1>3. CASE NoWorker(p) BY <1>3, <1>b, <1>s DEF NoWorker, PoolGoto
<1>4. CASE RequeueUnserved(p) BY <1>4, <1>b, <1>s DEF RequeueUnserved, PoolGoto
<1>5. CASE CheckDispatched(p) BY <1>5, <1>b, <1>s DEF CheckDispatched, PoolCheck, PoolGoto
<1>6. CASE SetDispatched(p)
  <2>1. /\ pc'[p] = "arm" /\ cur' = cur /\ cur[p] # NoTask
        /\ \A q \in Pool : q # p => pc'[q] = pc[q]
        /\ \A u \in Tasks : u # cur[p] => status'[u] = status[u]
    BY <1>a, <1>6 DEF TypeOK, SetDispatched
  <2>2. \A q \in Pool : q # p => cur[q] # cur[p]
    BY <2>1 DEF Working
  <2>3. \A q \in Pool : pc[q] # "idle" => cur[q] \in Tasks
    BY <1>a DEF TypeOK
  <2> QED BY <2>1, <2>2, <2>3 DEF AcceptedLate
<1>7. CASE ArmAndSend(p) BY <1>7, <1>b, <1>s DEF ArmAndSend, PoolGoto
<1>8. CASE RpcAccepted(p) BY <1>8, RpcAcceptedLate
<1>9. CASE RpcRefused(p) BY <1>9, <1>b, <1>s DEF RpcRefused, PoolGoto
<1>10. CASE RpcError(p) BY <1>10, <1>b, <1>s DEF RpcError, PoolGoto
<1>11. CASE CheckProcessing(p)
  <2>1. pc[p] = "checkProcessing" /\ cur[p] \in Tasks
    BY <1>a, <1>11 DEF CheckProcessing, PoolCheck, PoolGoto, TypeOK
  <2>2. status[cur[p]] # "DISPATCHED" /\ status[cur[p]] \in TaskState
    BY <1>a, <2>1 DEF AcceptedLate, TypeOK
  <2>3. ~Allowed(cur[p], "PROCESSING")
    BY <2>2, TransitionFacts DEF Allowed
  <2>4. PoolGoto(p, "checkProcessing", "idle")
    BY <1>11, <2>3 DEF CheckProcessing, PoolCheck
  <2> QED BY <1>b, <1>s, <2>1, <2>4
<1>12. CASE SetProcessing(p) BY <1>12 DEF SetProcessing, PoolGoto, AcceptedLate
<1>13. CASE CancelRefused(p) BY <1>13, <1>b, <1>s DEF CancelRefused, PoolGoto
<1>14. CASE CheckFailed(p) BY <1>14, <1>b, <1>s DEF CheckFailed, PoolCheck, PoolGoto
<1>15. CASE SetFailed(p) BY <1>15, <1>b, <1>s DEF SetFailed, PoolGoto
<1> QED BY <1>1, <1>2, <1>3, <1>4, <1>5, <1>6, <1>7, <1>8, <1>9, <1>10, <1>11,
           <1>12, <1>13, <1>14, <1>15 DEF PoolStep

(* Every step leaves the accept branch too late.                           *)
LEMMA NextAccepted ==
  ASSUME CInv, Working, EarlyReports, AcceptedLate, [Next]_vars PROVE AcceptedLate'
<1>a. IInv /\ TypeOK BY DEF CInv, IInv
<1>1. ASSUME NEW t \in Tasks, PostTask(t) PROVE AcceptedLate'
  <2>1. NotDispatched
    BY <1>a, <1>1, WriteNotDispatched DEF PostTask, Set
  <2> QED BY <1>a, <1>1, <2>1, AcceptedKept DEF PostTask, threads
<1>2. CASE RunLoop
  BY <1>a, <1>2, AcceptedKept DEF RunLoop, task, threads, NotDispatched
<1>3. ASSUME NEW t \in Tasks, NEW n \in Dispatches, TimerStep(t, n) PROVE AcceptedLate'
  <2>1. UNCHANGED <<pc, cur>>
    BY <1>3 DEF TimerStep, TimerFires, TimerGate, TimerCheckTimeout, TimerSetTimeout,
         TimerCheckRetrying, TimerSetRetrying, TimerCount, TimerCheckFailed,
         TimerSetFailed, TimerReenqueue, TimerGoto, threads
  <2> QED BY <1>3, <1>a, <2>1, TimerNotDispatched, AcceptedKept
<1>4. ASSUME NEW t \in Tasks, NEW n \in Dispatches, WorkerStep(t, n) PROVE AcceptedLate'
  BY <1>4, <1>a, AcceptedKept DEF WorkerStep, WorkerSends, WorkerSendFails, WorkerAnswers,
          CallGoto, task, threads, NotDispatched
<1>5. ASSUME NEW t \in Tasks, NEW n \in Dispatches, NEW o \in Outcome,
             ReportArrives(t, n, o) \/ ReportStep(t, n, o)
      PROVE  AcceptedLate'
  <2>1. UNCHANGED <<pc, cur>>
    BY <1>5, <1>a, ReportFacts
  <2> QED BY <1>5, <1>a, <2>1, ReportNotDispatched, AcceptedKept
<1>6. CASE UNCHANGED vars
  BY <1>6, <1>a, AcceptedKept DEF vars, task, threads, NotDispatched
<1> QED BY <1>1, <1>2, <1>3, <1>4, <1>5, <1>6, PoolStepAccepted DEF Next, Rest

-----------------------------------------------------------------------------
(* No task is lost.                                                        *)

(* The threads that may still settle the task of a dispatch.               *)
SettlingPC == {"arm", "checkFailed", "setFailed"}

(* A step about task t leaves every other task where it was.               *)
OthersKept(t) ==
  \A u \in Tasks \ {t} :
    /\ status'[u] = status[u] /\ timer'[u] = timer[u] /\ report'[u] = report[u]
    /\ Waiting(u) => Waiting(u)'
    /\ ThreadIn(u, SettlingPC) => ThreadIn(u, SettlingPC)'

(* The task of a step is looked at alone.                                  *)
LEMMA HandsKept ==
  ASSUME InHands, NEW t, OthersKept(t), t \in Tasks => InHandsOf(t)' PROVE InHands'
<1> SUFFICES ASSUME NEW u \in Tasks, u # t PROVE InHandsOf(u)'
  BY DEF InHands
<1>1. InHandsOf(u)
  BY DEF InHands
<1> QED BY <1>1 DEF OthersKept, InHandsOf, TimerIn, ReportIn, SettlingPC

(* The tasks that wait in the queues do so after the step.                 *)
LEMMA WaitingKept ==
  ASSUME NEW u, InSeq(queue, u) => InSeq(queue', u), InSeq(jobs, u) => InSeq(jobs', u),
         \A q \in Pool : cur[q] = u /\ pc[q] \in Holding \ {"arm"} =>
            cur'[q] = u /\ pc'[q] \in Holding \ {"arm"},
         Waiting(u)
  PROVE  Waiting(u)'
BY DEF Waiting

(* A thread moves on, and changes at most the queue.                       *)
LEMMA PoolGotoHands ==
  ASSUME IInv, InHands, NEW p \in Pool, NEW from, NEW to, PoolGoto(p, from, to),
         UNCHANGED <<status, jobs, timer, report>>,
         queue' \in {queue, Append(queue, cur[p])},
         from \in Holding \ {"arm"} =>
            \/ to \in Holding \ {"arm"}
            \/ queue' = Append(queue, cur[p])
            \/ status[cur[p]] \notin {"QUEUED", "RETRYING"},
         from \in SettlingPC => to \in SettlingPC \/ status[cur[p]] # "DISPATCHED"
  PROVE  InHands'
<1>c. PICK t : t = cur[p]
  OBVIOUS
<1>1. /\ pc[p] = from /\ pc'[p] = to
      /\ to # "idle" => cur'[p] = t
      /\ \A q \in Pool : q # p => pc'[q] = pc[q] /\ cur'[q] = cur[q]
      /\ t \notin Tasks => from = "idle"
  BY <1>c, PoolGotoFacts DEF IInv, TypeOK
<1>2. /\ \A u : InSeq(queue, u) => InSeq(queue', u)
      /\ t \in Tasks /\ queue' = Append(queue, t) => InSeq(queue', t)
  <2>1. queue \in Seq(Tasks) /\ queue \in Seq(Tasks \cup {NoTask})
    BY DEF IInv, TypeOK
  <2>2. t \in Tasks \cup {NoTask}
    BY <1>c DEF IInv, TypeOK
  <2>3. CASE queue' = queue
    BY <2>3, <2>1, <2>2, AppendFacts
  <2>4. CASE queue' = Append(queue, t)
    BY <2>4, <2>1, <2>2, AppendFacts
  <2> QED BY <1>c, <2>3, <2>4
<1>3. OthersKept(t)
  <2> SUFFICES ASSUME NEW u \in Tasks \ {t}
               PROVE  /\ Waiting(u) => Waiting(u)'
                      /\ ThreadIn(u, SettlingPC) => ThreadIn(u, SettlingPC)'
    BY DEF OthersKept
  <2> QED BY <1>1, <1>2, <1>c, WaitingKept DEF ThreadIn
<1>4. ASSUME t \in Tasks PROVE InHandsOf(t)'
  <2>1. InHandsOf(t) /\ UNCHANGED <<status, timer, report>>
    BY <1>4 DEF InHands
  <2>2. status[t] \in {"QUEUED", "RETRYING"} /\ Waiting(t) => Waiting(t)'
    <3>1. CASE queue' = Append(queue, t)
      BY <1>2, <1>4, <3>1 DEF Waiting
    <3>2. CASE from \in Holding \ {"arm"} => to \in Holding \ {"arm"}
      BY <1>1, <1>2, <1>c, <3>2, WaitingKept DEF Holding
    <3> QED BY <1>c, <3>1, <3>2
  <2>3. status[t] = "DISPATCHED" /\ ThreadIn(t, SettlingPC) => ThreadIn(t, SettlingPC)'
    BY <1>1, <1>c DEF ThreadIn, SettlingPC
  <2> QED BY <2>1, <2>2, <2>3 DEF InHandsOf, TimerIn, ReportIn, SettlingPC
<1> QED BY <1>3, <1>4, HandsKept

(* The thread that takes a job keeps its task waiting.                     *)
LEMMA StartJobHands ==
  ASSUME IInv, InHands, NEW p \in Pool, StartJob(p) PROVE InHands'
<1>c. PICK t \in Tasks : t = Head(jobs)
  BY TailFacts DEF StartJob, IInv, TypeOK
<1>1. /\ pc[p] = "idle" /\ pc'[p] = "lookup" /\ cur'[p] = t
      /\ \A q \in Pool : q # p => pc'[q] = pc[q] /\ cur'[q] = cur[q]
      /\ UNCHANGED <<queue, status, timer, report>>
  BY <1>c DEF StartJob, IInv, TypeOK, task
<1>2. \A u : u # t => (InSeq(jobs', u) <=> InSeq(jobs, u))
  BY <1>c, TailKeeps DEF StartJob, IInv, TypeOK
<1>3. OthersKept(t)
  <2> SUFFICES ASSUME NEW u \in Tasks \ {t}
               PROVE  /\ Waiting(u) => Waiting(u)'
                      /\ ThreadIn(u, SettlingPC) => ThreadIn(u, SettlingPC)'
    BY <1>1 DEF OthersKept
  <2> QED BY <1>1, <1>2, WaitingKept DEF ThreadIn, SettlingPC, Holding
<1>4. InHandsOf(t)'
  <2>1. InHandsOf(t) /\ Waiting(t)'
    BY <1>1 DEF InHands, Waiting, Holding
  <2>2. ThreadIn(t, SettlingPC) => ThreadIn(t, SettlingPC)'
    BY <1>1 DEF ThreadIn, SettlingPC
  <2> QED BY <1>1, <2>1, <2>2 DEF InHandsOf, TimerIn, ReportIn, SettlingPC
<1> QED BY <1>3, <1>4, HandsKept

(* The thread that wrote DISPATCHED is about to arm a timer.               *)
LEMMA SetDispatchedHands ==
  ASSUME IInv, InHands, NEW p \in Pool, SetDispatched(p) PROVE InHands'
<1>c. PICK t \in Tasks : t = cur[p]
  BY DEF SetDispatched, IInv, TypeOK
<1>1. /\ pc'[p] = "arm" /\ cur' = cur /\ status'[t] = "DISPATCHED"
      /\ \A q \in Pool : q # p => pc'[q] = pc[q]
      /\ \A u \in Tasks \ {t} : status'[u] = status[u]
      /\ UNCHANGED <<queue, jobs, timer, report>>
  BY <1>c DEF SetDispatched, IInv, TypeOK
<1>2. OthersKept(t)
  <2> SUFFICES ASSUME NEW u \in Tasks \ {t}
               PROVE  /\ Waiting(u) => Waiting(u)'
                      /\ ThreadIn(u, SettlingPC) => ThreadIn(u, SettlingPC)'
    BY <1>1 DEF OthersKept
  <2> QED BY <1>1, <1>c, WaitingKept DEF ThreadIn
<1>3. InHandsOf(t)'
  BY <1>1, <1>c DEF InHandsOf, ThreadIn
<1> QED BY <1>2, <1>3, HandsKept

(* The timer takes the task over from the thread that armed it.            *)
LEMMA ArmAndSendHands ==
  ASSUME IInv, InHands, NEW p \in Pool, ArmAndSend(p) PROVE InHands'
<1>c. PICK t \in Tasks, n \in Dispatches : t = cur[p] /\ n = no[p]
  BY ArmAndSendFacts
<1>1. /\ pc[p] = "arm" /\ pc'[p] = "wait" /\ cur' = cur
      /\ \A q \in Pool : q # p => pc'[q] = pc[q]
      /\ UNCHANGED <<queue, jobs, status, report>>
  BY ArmAndSendFacts DEF ArmAndSend
<1>2. /\ timer'[t][n] = "armed"
      /\ \A u \in Tasks \ {t} : timer'[u] = timer[u]
  <2>1. timer' = [timer EXCEPT ![t][n] = "armed"] /\ timer \in [Tasks -> [Dispatches -> TimerPC]]
    BY <1>c DEF ArmAndSend, IInv, TypeOK
  <2> QED BY <2>1
<1>3. \A m \in Dispatches : timer[t][m] \notin Pending
  BY <1>1, <1>c, HoldingAlone DEF Holding
<1>4. OthersKept(t)
  <2> SUFFICES ASSUME NEW u \in Tasks \ {t}
               PROVE  /\ Waiting(u) => Waiting(u)'
                      /\ ThreadIn(u, SettlingPC) => ThreadIn(u, SettlingPC)'
    BY <1>1, <1>2 DEF OthersKept
  <2> QED BY <1>1, <1>c, WaitingKept DEF ThreadIn
<1>5. InHandsOf(t)'
  <2>1. InHandsOf(t)
    BY DEF InHands
  <2>2. /\ ~TimerIn(t, {"checkRetrying", "setRetrying"})
        /\ ~TimerIn(t, {"count", "checkFailed", "setFailed", "delay"})
    BY <1>3 DEF TimerIn, Pending, TimerPC
  <2>3. Waiting(t) => Waiting(t)'
    BY <1>1, WaitingKept
  <2>4. TimerIn(t, {"armed", "gate", "checkTimeout", "setTimeout"})'
    BY <1>2 DEF TimerIn
  <2> QED BY <1>1, <2>1, <2>2, <2>3, <2>4 DEF InHandsOf, ReportIn
<1> QED BY <1>4, <1>5, HandsKept

(* The thread settles the refused task itself, and only then stops the     *)
(* timer.                                                                  *)
LEMMA CancelRefusedHands ==
  ASSUME IInv, InHands, NEW p \in Pool, CancelRefused(p) PROVE InHands'
<1>c. PICK t \in Tasks : t = cur[p]
  BY DEF CancelRefused, PoolGoto, IInv, TypeOK
<1>1. /\ pc[p] = "cancel" /\ pc'[p] = "checkFailed" /\ cur'[p] = t
      /\ \A q \in Pool : q # p => pc'[q] = pc[q] /\ cur'[q] = cur[q]
      /\ UNCHANGED <<queue, jobs, status, report>>
  BY <1>c, PoolGotoFacts DEF CancelRefused, task
<1>2. /\ \A u \in Tasks \ {t} : timer'[u] = timer[u]
      /\ \A m \in Dispatches : timer[t][m] = "armed" \/ timer'[t][m] = timer[t][m]
  BY <1>c, CancelFacts DEF CancelRefused, CancelTimeout, IInv, TypeOK
<1>3. OthersKept(t)
  <2> SUFFICES ASSUME NEW u \in Tasks \ {t}
               PROVE  /\ Waiting(u) => Waiting(u)'
                      /\ ThreadIn(u, SettlingPC) => ThreadIn(u, SettlingPC)'
    BY <1>1, <1>2 DEF OthersKept
  <2> QED BY <1>1, <1>c, WaitingKept DEF ThreadIn
<1>4. InHandsOf(t)'
  <2>1. InHandsOf(t)
    BY DEF InHands
  <2>2. Waiting(t) => Waiting(t)'
    BY <1>1, <1>c, WaitingKept DEF Holding
  <2>3. ThreadIn(t, {"arm", "checkFailed", "setFailed"})'
    BY <1>1 DEF ThreadIn
  <2>4. /\ TimerIn(t, {"checkRetrying", "setRetrying"}) =>
             TimerIn(t, {"checkRetrying", "setRetrying"})'
        /\ TimerIn(t, {"count", "checkFailed", "setFailed", "delay"}) =>
             TimerIn(t, {"count", "checkFailed", "setFailed", "delay"})'
    BY <1>2 DEF TimerIn
  <2> QED BY <1>1, <2>1, <2>2, <2>3, <2>4 DEF InHandsOf, ReportIn
<1> QED BY <1>3, <1>4, HandsKept

(* FAILED is nobody's to change.                                           *)
LEMMA SetFailedHands ==
  ASSUME IInv, InHands, NEW p \in Pool, SetFailed(p) PROVE InHands'
<1>c. PICK t \in Tasks : t = cur[p]
  BY DEF SetFailed, PoolGoto, IInv, TypeOK
<1>1. /\ pc[p] = "setFailed" /\ pc'[p] = "idle"
      /\ \A q \in Pool : q # p => pc'[q] = pc[q] /\ cur'[q] = cur[q]
      /\ UNCHANGED <<queue, jobs, timer, report>>
  BY PoolGotoFacts DEF SetFailed
<1>2. /\ status'[t] = "FAILED"
      /\ \A u \in Tasks \ {t} : status'[u] = status[u]
  BY <1>c DEF SetFailed, Set, IInv, TypeOK
<1>3. OthersKept(t)
  <2> SUFFICES ASSUME NEW u \in Tasks \ {t}
               PROVE  /\ Waiting(u) => Waiting(u)'
                      /\ ThreadIn(u, SettlingPC) => ThreadIn(u, SettlingPC)'
    BY <1>1, <1>2 DEF OthersKept
  <2> QED BY <1>1, <1>c, WaitingKept DEF ThreadIn
<1> QED BY <1>2, <1>3, HandsKept DEF InHandsOf

(* _dispatch loses no task.                                                *)
LEMMA PoolStepHands ==
  ASSUME IInv, AcceptedLate, InHands, NEW p \in Pool, PoolStep(p) PROVE InHands'
<1>a. cur[p] \in Tasks => status[cur[p]] \in TaskState
  BY DEF IInv, TypeOK
<1>b. ASSUME NEW from, NEW to, PoolGoto(p, from, to), Local,
             from \in Holding \ {"arm"} =>
               \/ to \in Holding \ {"arm"}
               \/ status[cur[p]] \notin {"QUEUED", "RETRYING"},
             from \in SettlingPC => to \in SettlingPC \/ status[cur[p]] # "DISPATCHED"
      PROVE  InHands'
  BY <1>b, PoolGotoHands DEF Local, task
<1>c. pc[p] # "idle" => cur[p] \in Tasks
  BY DEF IInv, TypeOK
<1> USE DEF Holding, SettlingPC
<1>1. CASE StartJob(p) BY <1>1, StartJobHands
<1>2. CASE SelectWorker(p) BY <1>2, <1>b DEF SelectWorker
<1>3. CASE NoWorker(p) BY <1>3, <1>b DEF NoWorker
<1>4. CASE RequeueUnserved(p) BY <1>4, PoolGotoHands DEF RequeueUnserved, task
<1>5. CASE CheckDispatched(p)
  <2>1. status[cur[p]] \in {"QUEUED", "RETRYING"} => Allowed(cur[p], "DISPATCHED")
    BY <1>5, <1>a, <1>c, TransitionFacts DEF CheckDispatched, PoolCheck, PoolGoto, Allowed
  <2> QED BY <1>5, <1>b, <2>1 DEF CheckDispatched, PoolCheck
<1>6. CASE SetDispatched(p) BY <1>6, SetDispatchedHands
<1>7. CASE ArmAndSend(p) BY <1>7, ArmAndSendHands
<1>8. CASE RpcAccepted(p) BY <1>8, <1>b DEF RpcAccepted
<1>9. CASE RpcRefused(p) BY <1>9, <1>b DEF RpcRefused
<1>10. CASE RpcError(p) BY <1>10, <1>b DEF RpcError
<1>11. CASE CheckProcessing(p) BY <1>11, <1>b DEF CheckProcessing, PoolCheck
<1>12. CASE SetProcessing(p) BY <1>12 DEF SetProcessing, PoolGoto, AcceptedLate
<1>13. CASE CancelRefused(p) BY <1>13, CancelRefusedHands
<1>14. CASE CheckFailed(p)
  <2>1. status[cur[p]] = "DISPATCHED" => Allowed(cur[p], "FAILED")
    BY <1>14, <1>a, <1>c, TransitionFacts DEF CheckFailed, PoolCheck, PoolGoto, Allowed
  <2> QED BY <1>14, <1>b, <2>1 DEF CheckFailed, PoolCheck
<1>15. CASE SetFailed(p) BY <1>15, SetFailedHands
<1> QED BY <1>1, <1>2, <1>3, <1>4, <1>5, <1>6, <1>7, <1>8, <1>9, <1>10, <1>11,
           <1>12, <1>13, <1>14, <1>15 DEF PoolStep

(* A timer callback moves on and leaves the status, or writes a status it  *)
(* will change itself, or FAILED.                                          *)
LEMMA TimerHands ==
  ASSUME IInv, InHands, NEW t \in Tasks, NEW n \in Dispatches, NEW from, NEW to,
         TimerGoto(t, n, from, to),
         queue' \in {queue, Append(queue, t)},
         \A u \in Tasks \ {t} : status'[u] = status[u],
         \/ /\ status'[t] = status[t]
            /\ status[t] = "DISPATCHED" /\ from \in {"armed", "gate", "checkTimeout", "setTimeout"}
                 => to \in {"armed", "gate", "checkTimeout", "setTimeout"}
            /\ status[t] = "TIMEOUT" /\ from \in {"checkRetrying", "setRetrying"}
                 => to \in {"checkRetrying", "setRetrying"}
            /\ status[t] = "RETRYING" /\ from \in {"count", "checkFailed", "setFailed", "delay"}
                 => \/ to \in {"count", "checkFailed", "setFailed", "delay"}
                    \/ queue' = Append(queue, t)
         \/ status'[t] = "TIMEOUT" /\ to = "checkRetrying"
         \/ status'[t] = "RETRYING" /\ to = "count"
         \/ status'[t] = "FAILED"
  PROVE  InHands'
<1>1. /\ timer[t][n] = from /\ timer'[t][n] = to
      /\ \A m \in Dispatches \ {n} : timer'[t][m] = timer[t][m]
      /\ \A u \in Tasks \ {t} : timer'[u] = timer[u]
      /\ UNCHANGED <<jobs, pc, cur, report>>
  BY DEF TimerGoto, IInv, TypeOK, threads
<1>2. /\ \A u : InSeq(queue, u) => InSeq(queue', u)
      /\ queue' = Append(queue, t) => InSeq(queue', t)
  <2>1. queue \in Seq(Tasks)
    BY DEF IInv, TypeOK
  <2>2. CASE queue' = queue
    BY <2>1, <2>2, AppendFacts
  <2>3. CASE queue' = Append(queue, t)
    BY <2>1, <2>3, AppendFacts
  <2> QED BY <2>2, <2>3
<1>3. \A u : Waiting(u) => Waiting(u)'
  BY <1>1, <1>2, WaitingKept
<1>4. OthersKept(t)
  BY <1>1, <1>3 DEF OthersKept, ThreadIn
<1>5. InHandsOf(t)'
  <2>1. InHandsOf(t)
    BY DEF InHands
  <2>2. /\ ThreadIn(t, {"arm", "checkFailed", "setFailed"}) =>
             ThreadIn(t, {"arm", "checkFailed", "setFailed"})'
        /\ ReportIn(t, {"read", "checkProcessing", "setProcessing"}) =>
             ReportIn(t, {"read", "checkProcessing", "setProcessing"})'
        /\ ReportIn(t, {"checkOutcome", "setOutcome"}) =>
             ReportIn(t, {"checkOutcome", "setOutcome"})'
    BY <1>1 DEF ThreadIn, ReportIn
  <2>3. ASSUME NEW S, TimerIn(t, S), from \notin S \/ to \in S PROVE TimerIn(t, S)'
    BY <1>1, <2>3 DEF TimerIn
  <2>4. ASSUME NEW S, to \in S PROVE TimerIn(t, S)'
    BY <1>1, <2>4 DEF TimerIn
  <2>5. InSeq(queue', t) => Waiting(t)'
    BY DEF Waiting
  <2>6. CASE status'[t] = "TIMEOUT" /\ to = "checkRetrying"
    BY <2>4, <2>6 DEF InHandsOf
  <2>7. CASE status'[t] = "RETRYING" /\ to = "count"
    BY <2>4, <2>7 DEF InHandsOf
  <2>8. CASE status'[t] = "FAILED"
    BY <2>8 DEF InHandsOf
  <2>9. ASSUME status'[t] = status[t],
               status[t] = "DISPATCHED" /\ from \in {"armed", "gate", "checkTimeout", "setTimeout"}
                 => to \in {"armed", "gate", "checkTimeout", "setTimeout"},
               status[t] = "TIMEOUT" /\ from \in {"checkRetrying", "setRetrying"}
                 => to \in {"checkRetrying", "setRetrying"},
               status[t] = "RETRYING" /\ from \in {"count", "checkFailed", "setFailed", "delay"}
                 => \/ to \in {"count", "checkFailed", "setFailed", "delay"}
                    \/ queue' = Append(queue, t)
        PROVE  InHandsOf(t)'
    <3>1. status[t] = "DISPATCHED" /\ TimerIn(t, {"armed", "gate", "checkTimeout", "setTimeout"})
            => TimerIn(t, {"armed", "gate", "checkTimeout", "setTimeout"})'
      BY <2>3, <2>9
    <3>2. status[t] = "TIMEOUT" /\ TimerIn(t, {"checkRetrying", "setRetrying"})
            => TimerIn(t, {"checkRetrying", "setRetrying"})'
      BY <2>3, <2>9
    <3>3. status[t] = "RETRYING" /\ TimerIn(t, {"count", "checkFailed", "setFailed", "delay"})
            => Waiting(t)' \/ TimerIn(t, {"count", "checkFailed", "setFailed", "delay"})'
      BY <1>2, <2>3, <2>5, <2>9
    <3> QED BY <1>3, <2>1, <2>2, <2>9, <3>1, <3>2, <3>3 DEF InHandsOf
  <2> QED BY <2>6, <2>7, <2>8, <2>9
<1> QED BY <1>4, <1>5, HandsKept

(* _on_timeout loses no task: each test of a status it may have written    *)
(* itself succeeds.                                                        *)
LEMMA TimerStepHands ==
  ASSUME IInv, InHands, NEW t \in Tasks, NEW n \in Dispatches, TimerStep(t, n) PROVE InHands'
<1>a. status \in [Tasks -> TaskState] /\ status[t] \in TaskState
  BY DEF IInv, TypeOK
<1>1. CASE TimerFires(t, n) BY <1>1, TimerHands DEF TimerFires, task
<1>2. CASE TimerGate(t, n) BY <1>2, TimerHands DEF TimerGate, task, Terminal
<1>3. CASE TimerCheckTimeout(t, n)
  BY <1>3, <1>a, TransitionFacts, TimerHands DEF TimerCheckTimeout, task, Allowed
<1>4. CASE TimerSetTimeout(t, n)
  BY <1>4, <1>a, TimerHands DEF TimerSetTimeout, Set
<1>5. CASE TimerCheckRetrying(t, n)
  BY <1>5, <1>a, TransitionFacts, TimerHands DEF TimerCheckRetrying, task, Allowed
<1>6. CASE TimerSetRetrying(t, n)
  BY <1>6, <1>a, TimerHands DEF TimerSetRetrying, Set
<1>7. CASE TimerCount(t, n) BY <1>7, TimerHands DEF TimerCount
<1>8. CASE TimerCheckFailed(t, n)
  BY <1>8, <1>a, TransitionFacts, TimerHands DEF TimerCheckFailed, task, Allowed
<1>9. CASE TimerSetFailed(t, n)
  BY <1>9, <1>a, TimerHands DEF TimerSetFailed, Set
<1>10. CASE TimerReenqueue(t, n) BY <1>10, TimerHands DEF TimerReenqueue, task
<1> QED BY <1>1, <1>2, <1>3, <1>4, <1>5, <1>6, <1>7, <1>8, <1>9, <1>10 DEF TimerStep

(* A handler moves on and leaves the status, or writes PROCESSING, which   *)
(* it will change itself, or a terminal status. It stops the timer before  *)
(* it reads the status.                                                    *)
LEMMA ReportHands ==
  ASSUME IInv, InHands, NEW t \in Tasks, NEW n \in Dispatches, NEW o \in Outcome,
         NEW from, NEW to, ReportGoto(t, n, o, from, to),
         timer' = timer \/ (CancelTimeout(t) /\ to = "read"),
         \A u \in Tasks \ {t} : status'[u] = status[u],
         \/ /\ status'[t] = status[t]
            /\ status[t] = "DISPATCHED" /\ from \in {"read", "checkProcessing", "setProcessing"}
                 => to \in {"read", "checkProcessing", "setProcessing"}
            /\ status[t] = "PROCESSING" /\ from \in {"checkOutcome", "setOutcome"}
                 => to \in {"checkOutcome", "setOutcome"}
         \/ status'[t] = "PROCESSING" /\ to = "checkOutcome"
         \/ status'[t] \in Terminal
  PROVE  InHands'
<1>1. /\ report[t][n][o] = from /\ report'[t][n][o] = to
      /\ \A m \in Dispatches, q \in Outcome : ~(m = n /\ q = o) =>
           report'[t][m][q] = report[t][m][q]
      /\ \A u \in Tasks \ {t} : report'[u] = report[u]
      /\ UNCHANGED <<queue, jobs, pc, cur>>
  BY DEF ReportGoto, IInv, TypeOK, threads
<1>2. /\ \A u \in Tasks \ {t} : timer'[u] = timer[u]
      /\ \A m \in Dispatches : timer[t][m] = "armed" \/ timer'[t][m] = timer[t][m]
      /\ to = "read" \/ timer' = timer
  <2>1. CASE timer' = timer
    BY <2>1
  <2>2. CASE CancelTimeout(t) /\ to = "read"
    BY <2>2, CancelFacts DEF CancelTimeout, IInv, TypeOK
  <2> QED BY <2>1, <2>2
<1>3. \A u : Waiting(u) => Waiting(u)'
  BY <1>1, WaitingKept
<1>4. OthersKept(t)
  BY <1>1, <1>2, <1>3 DEF OthersKept, ThreadIn
<1>5. InHandsOf(t)'
  <2>1. InHandsOf(t)
    BY DEF InHands
  <2>2. ThreadIn(t, {"arm", "checkFailed", "setFailed"}) =>
          ThreadIn(t, {"arm", "checkFailed", "setFailed"})'
    BY <1>1 DEF ThreadIn
  <2>3. ASSUME NEW S, ReportIn(t, S), from \notin S \/ to \in S PROVE ReportIn(t, S)'
    <3>1. PICK m \in Dispatches, q \in Outcome : report[t][m][q] \in S
      BY <2>3 DEF ReportIn
    <3>2. report'[t][m][q] \in S
      BY <1>1, <2>3, <3>1
    <3> QED BY <3>2 DEF ReportIn
  <2>4. ASSUME NEW S, to \in S PROVE ReportIn(t, S)'
    BY <1>1, <2>4 DEF ReportIn
  <2>5. ASSUME NEW S, TimerIn(t, S), "armed" \notin S \/ to # "read" PROVE TimerIn(t, S)'
    BY <1>2, <2>5 DEF TimerIn
  <2>6. CASE status'[t] = "PROCESSING" /\ to = "checkOutcome"
    BY <2>4, <2>6 DEF InHandsOf
  <2>7. CASE status'[t] \in Terminal
    BY <2>7 DEF InHandsOf, Terminal
  <2>8. ASSUME status'[t] = status[t],
               status[t] = "DISPATCHED" /\ from \in {"read", "checkProcessing", "setProcessing"}
                 => to \in {"read", "checkProcessing", "setProcessing"},
               status[t] = "PROCESSING" /\ from \in {"checkOutcome", "setOutcome"}
                 => to \in {"checkOutcome", "setOutcome"}
        PROVE  InHandsOf(t)'
    <3>1. status[t] = "DISPATCHED" =>
             \/ ThreadIn(t, {"arm", "checkFailed", "setFailed"})'
             \/ TimerIn(t, {"armed", "gate", "checkTimeout", "setTimeout"})'
             \/ ReportIn(t, {"read", "checkProcessing", "setProcessing"})'
      BY <2>1, <2>2, <2>3, <2>4, <2>5, <2>8 DEF InHandsOf
    <3>2. status[t] = "PROCESSING" => ReportIn(t, {"checkOutcome", "setOutcome"})'
      BY <2>1, <2>3, <2>8 DEF InHandsOf
    <3>3. /\ status[t] = "TIMEOUT" => TimerIn(t, {"checkRetrying", "setRetrying"})'
          /\ status[t] = "RETRYING" =>
               Waiting(t)' \/ TimerIn(t, {"count", "checkFailed", "setFailed", "delay"})'
      BY <1>3, <2>1, <2>5 DEF InHandsOf
    <3> QED BY <1>3, <2>1, <2>8, <3>1, <3>2, <3>3 DEF InHandsOf
  <2> QED BY <2>6, <2>7, <2>8
<1> QED BY <1>4, <1>5, HandsKept

(* ReturnResult loses no task: it takes the task over from the timer it    *)
(* stops, and each test of a status it wrote itself succeeds.              *)
LEMMA ReportStepHands ==
  ASSUME IInv, InHands, NEW t \in Tasks, NEW n \in Dispatches, NEW o \in Outcome,
         ReportArrives(t, n, o) \/ ReportStep(t, n, o)
  PROVE  InHands'
<1>a. status \in [Tasks -> TaskState] /\ status[t] \in TaskState
  BY DEF IInv, TypeOK
<1>1. CASE ReportArrives(t, n, o) BY <1>1, ReportHands DEF ReportArrives, task
<1>2. CASE ReportGate(t, n, o) BY <1>2, ReportHands DEF ReportGate, task
<1>3. CASE ReportCancel(t, n, o) BY <1>3, ReportHands DEF ReportCancel, task
<1>4. CASE ReportRead(t, n, o) BY <1>4, ReportHands DEF ReportRead, task
<1>5. CASE ReportCheckProcessing(t, n, o)
  BY <1>5, <1>a, TransitionFacts, ReportHands DEF ReportCheckProcessing, task, Allowed
<1>6. CASE ReportSetProcessing(t, n, o)
  BY <1>6, <1>a, ReportHands DEF ReportSetProcessing, Set
<1>7. CASE ReportCheckOutcome(t, n, o)
  BY <1>7, <1>a, TransitionFacts, ReportHands DEF ReportCheckOutcome, task, Allowed, Outcome
<1>8. CASE ReportSetOutcome(t, n, o)
  BY <1>8, <1>a, ReportHands DEF ReportSetOutcome, Set, Terminal, Outcome
<1>9. CASE ReportStore(t, n, o) BY <1>9, ReportHands DEF ReportStore
<1> QED BY <1>1, <1>2, <1>3, <1>4, <1>5, <1>6, <1>7, <1>8, <1>9 DEF ReportStep

(* No step of any thread loses a task.                                     *)
LEMMA NextInHands ==
  ASSUME IInv, AcceptedLate, InHands, [Next]_vars PROVE InHands'
<1>b. ASSUME UNCHANGED <<status, queue, jobs, pc, cur, timer, report>> PROVE InHands'
  BY <1>b DEF InHands, InHandsOf, Waiting, ThreadIn, TimerIn, ReportIn
<1>1. ASSUME NEW t \in Tasks, PostTask(t) PROVE InHands'
  <2>1. /\ status'[t] = "QUEUED"
        /\ \A u \in Tasks \ {t} : status'[u] = status[u]
        /\ UNCHANGED <<jobs, pc, cur, timer, report>>
    BY <1>1 DEF PostTask, Set, threads, IInv, TypeOK
  <2>2. \A u : InSeq(queue', u) <=> InSeq(queue, u) \/ u = t
    BY <1>1, AppendFacts DEF PostTask, IInv, TypeOK
  <2>3. OthersKept(t)
    BY <2>1, <2>2, WaitingKept DEF OthersKept, ThreadIn
  <2>4. InHandsOf(t)'
    BY <2>1, <2>2 DEF InHandsOf, Waiting
  <2> QED BY <2>3, <2>4, HandsKept
<1>2. CASE RunLoop
  <2>c. queue \in Seq(Tasks) /\ queue # <<>> /\ jobs \in Seq(Tasks)
    BY <1>2 DEF RunLoop, IInv, TypeOK
  <2>d. PICK t \in Tasks : t = Head(queue)
    BY <2>c, TailFacts
  <2>1. UNCHANGED <<status, pc, cur, timer, report>>
    BY <1>2 DEF RunLoop, task, threads
  <2>2. \A u : u # t => (InSeq(queue', u) <=> InSeq(queue, u))
    BY <1>2, <2>c, <2>d, TailKeeps DEF RunLoop
  <2>3. CASE status[t] \in {"QUEUED", "RETRYING"}
    <3>1. jobs' = Append(jobs, t)
      BY <1>2, <2>3, <2>d DEF RunLoop
    <3>2. \A u : InSeq(jobs', u) <=> InSeq(jobs, u) \/ u = t
      BY <2>c, <3>1, AppendFacts
    <3>3. \A u : Waiting(u) => Waiting(u)'
      BY <2>1, <2>2, <3>2 DEF Waiting
    <3> QED BY <2>1, <3>3 DEF InHands, InHandsOf, ThreadIn, TimerIn, ReportIn
  <2>4. CASE status[t] \notin {"QUEUED", "RETRYING"}
    <3>1. jobs' = jobs
      BY <1>2, <2>4, <2>d DEF RunLoop
    <3>2. \A u : u # t /\ Waiting(u) => Waiting(u)'
      BY <2>1, <2>2, <3>1 DEF Waiting
    <3> QED BY <2>1, <2>4, <3>2 DEF InHands, InHandsOf, ThreadIn, TimerIn, ReportIn
  <2> QED BY <2>3, <2>4
<1>3. ASSUME NEW t \in Tasks, NEW n \in Dispatches, WorkerStep(t, n) PROVE InHands'
  BY <1>3, <1>b DEF WorkerStep, WorkerSends, WorkerSendFails, WorkerAnswers, CallGoto,
          task, threads
<1>4. CASE UNCHANGED vars
  BY <1>4, <1>b DEF vars, task, threads
<1> QED BY <1>1, <1>2, <1>3, <1>4, PoolStepHands, TimerStepHands, ReportStepHands DEF Next, Rest

-----------------------------------------------------------------------------
(* Under a timeout that outlasts the RPC, TInv is inductive.               *)
THEOREM TimingInvariance ==
  ASSUME RpcBeforeTimeout PROVE Spec => []TInv
<1>1. TInv /\ [Next]_vars => TInv'
  BY NextCInv, NextWorking, NextEarly, NextAccepted, NextInHands DEF TInv, CInv
<1> QED BY <1>1, InitTInv, PTL DEF Spec

(* However long the queue and however many retries: two threads of the     *)
(* pool never work on the same task, because a timer fires only after the  *)
(* thread that armed it has returned (dispatch_loop.py:102-176).           *)
THEOREM OneThread ==
  ASSUME RpcBeforeTimeout PROVE Spec => []OneThreadPerTask
<1>1. TInv => OneThreadPerTask
  BY DEF TInv, Working, OneThreadPerTask
<1> QED BY <1>1, TimingInvariance, PTL

(* The branch that moves an accepted task to PROCESSING is dead code: the  *)
(* worker's report was handled before the worker answered                  *)
(* (dispatch_loop.py:141-153, worker.py:357-372).                          *)
THEOREM AcceptBranchDead ==
  ASSUME RpcBeforeTimeout PROVE Spec => []AcceptComesTooLate
<1>1. TInv => AcceptComesTooLate
  BY DEF TInv, AcceptedLate, AcceptComesTooLate
<1> QED BY <1>1, TimingInvariance, PTL

(* Whatever the workers do, crash and refuse, and in whatever order        *)
(* timers, handlers and threads write the status: a posted task that is    *)
(* not settled always waits, is guarded by a timer, or is being settled    *)
(* (servicer.py:239-256, dispatch_loop.py:158-168).                        *)
THEOREM NoTaskLost ==
  ASSUME RpcBeforeTimeout PROVE Spec => []NoLostTask
<1>1. TInv => NoLostTask
  <2> SUFFICES ASSUME TInv, NEW t \in Tasks, Posted(t), status[t] \notin Terminal
               PROVE  Waiting(t) \/ Guarded(t) \/ Settling(t)
    BY DEF NoLostTask
  <2>1. InHandsOf(t) /\ status[t] \in TaskState
    BY DEF TInv, InHands, CInv, IInv, TypeOK
  <2>2. status[t] \in {"QUEUED", "DISPATCHED", "PROCESSING", "TIMEOUT", "RETRYING"}
    BY <2>1 DEF TaskState, Posted, Terminal
  <2>3. ASSUME NEW S \in SUBSET Pending, TimerIn(t, S) PROVE Guarded(t)
    BY <2>3 DEF TimerIn, Guarded
  <2>4. /\ {"armed", "gate", "checkTimeout", "setTimeout"} \subseteq Pending
        /\ {"checkRetrying", "setRetrying"} \subseteq Pending
        /\ {"count", "checkFailed", "setFailed", "delay"} \subseteq Pending
    BY DEF Pending, TimerPC
  <2>5. /\ ReportIn(t, {"read", "checkProcessing", "setProcessing"}) => Settling(t)
        /\ ReportIn(t, {"checkOutcome", "setOutcome"}) => Settling(t)
        /\ ThreadIn(t, {"arm", "checkFailed", "setFailed"}) => Guarded(t) \/ Settling(t)
    BY DEF ReportIn, ThreadIn, Settling, Guarded
  <2> QED BY <2>1, <2>2, <2>3, <2>4, <2>5 DEF InHandsOf
<1> QED BY <1>1, TimingInvariance, PTL
=============================================================================
