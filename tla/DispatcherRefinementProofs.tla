--------------------- MODULE DispatcherRefinementProofs ---------------------
(***************************************************************************)
(* The dispatcher implements what it promises and keeps to what it relies  *)
(* on: its retries follow RetryProtocol and its calls CallInterface, for   *)
(* any sets of tasks and threads, any MaxRetries > 0 and either order of   *)
(* deadline and timeout.                                                   *)
(***************************************************************************)
EXTENDS DispatcherProofs

-----------------------------------------------------------------------------
(* What IInv does not say of the calls: a call is made once, by the thread *)
(* that waits for it, and its reports come from its worker.                *)

CallNumbers ==
  /\ \A t \in Tasks, n \in Dispatches : n > dispatches[t] => call[t][n] = "none"
  /\ \A p \in Pool : pc[p] = "arm" => call[cur[p]][no[p]] = "none"

CallReports ==
  \A t \in Tasks, n \in Dispatches :
    /\ call[t][n] \in {"none", "sent"} => \A o \in Outcome : report[t][n][o] = "none"
    /\ call[t][n] = "sendingCOMPLETED" => report[t][n]["FAILED"] = "none"
    /\ call[t][n] = "accepted" => report[t][n]["COMPLETED"] = "done"

OneWaiter ==
  \A p \in Pool : pc[p] = "wait" =>
    /\ cur[p] \in Tasks /\ no[p] \in Dispatches
    /\ call[cur[p]][no[p]] # "none"
    /\ \A q \in Pool : pc[q] = "wait" /\ cur[q] = cur[p] /\ no[q] = no[p] => q = p

CInv == IInv /\ CallNumbers /\ CallReports /\ OneWaiter

-----------------------------------------------------------------------------
(* No task has been posted, so nothing has been sent.                      *)
LEMMA InitCInv == Init => CInv
<1> SUFFICES ASSUME Init PROVE CInv
  OBVIOUS
<1>1. CallNumbers BY DEF Init, CallNumbers
<1>2. CallReports BY DEF Init, CallReports, Dispatches, Outcome
<1>3. OneWaiter BY DEF Init, OneWaiter
<1> QED BY <1>1, <1>2, <1>3, InitIInv DEF CInv

(* A step that touches no thread, no call and no report.                   *)
LEMMA CallsKept ==
  ASSUME CInv, IInv', UNCHANGED <<dispatches, threads, call, report>> PROVE CInv'
<1> USE DEF CInv, threads
<1>1. CallNumbers' BY DEF CallNumbers
<1>2. CallReports' BY DEF CallReports
<1>3. OneWaiter' BY DEF OneWaiter
<1> QED BY <1>1, <1>2, <1>3

(* A thread that neither begins a dispatch nor sends its call.             *)
LEMMA PoolGotoCInv ==
  ASSUME CInv, IInv', NEW p \in Pool, NEW to, to \notin {"arm", "wait"}, pc'[p] = to,
         \A q \in Pool : q # p => pc'[q] = pc[q] /\ cur'[q] = cur[q] /\ no'[q] = no[q],
         UNCHANGED <<dispatches, call, report>>
  PROVE  CInv'
<1> USE DEF CInv
<1>1. CallNumbers' BY DEF CallNumbers
<1>2. CallReports' BY DEF CallReports
<1>3. OneWaiter' BY DEF OneWaiter
<1> QED BY <1>1, <1>2, <1>3

(* A new dispatch has a number no call has yet.                            *)
LEMMA SetDispatchedCInv ==
  ASSUME CInv, IInv', NEW p \in Pool, SetDispatched(p) PROVE CInv'
<1> DEFINE t == cur[p]
<1>0. /\ t \in Tasks /\ dispatches[t] \in Nat /\ dispatches[t] + 1 \in Dispatches
  BY RetriesAssumption
     DEF CInv, IInv, SetDispatched, TypeOK, Counters, Between, Holding, Dispatches
<1>1. /\ pc[p] = "setDispatched" /\ pc'[p] = "arm" /\ no'[p] = dispatches[t] + 1
      /\ \A q \in Pool : q # p => pc'[q] = pc[q] /\ no'[q] = no[q]
      /\ dispatches'[t] = dispatches[t] + 1
      /\ \A u \in Tasks : u # t => dispatches'[u] = dispatches[u]
      /\ UNCHANGED <<cur, call, report>>
  BY <1>0 DEF CInv, IInv, SetDispatched, TypeOK
<1>2. \A n \in Dispatches : n \in Nat
  BY RetriesAssumption DEF Dispatches
<1> HIDE DEF t
<1>3. t = cur[p] BY DEF t
<1>4. CallNumbers'
  <2>1. \A u \in Tasks, n \in Dispatches : n > dispatches'[u] => call[u][n] = "none"
    BY <1>0, <1>1, <1>2 DEF CInv, CallNumbers
  <2>2. call[t][dispatches[t] + 1] = "none"
    BY <1>0 DEF CInv, CallNumbers
  <2>3. \A q \in Pool : pc'[q] = "arm" => call[cur[q]][no'[q]] = "none"
    BY <1>1, <1>3, <2>2 DEF CInv, CallNumbers
  <2> QED BY <1>1, <2>1, <2>3 DEF CallNumbers
<1>5. CallReports' BY <1>1 DEF CInv, CallReports
<1>6. OneWaiter' BY <1>1 DEF CInv, OneWaiter
<1> QED BY <1>4, <1>5, <1>6 DEF CInv

(* A thread sends a call nobody sent before, so it alone waits for it.     *)
LEMMA ArmAndSendFacts ==
  ASSUME IInv, NEW p \in Pool, ArmAndSend(p)
  PROVE  /\ cur[p] \in Tasks /\ no[p] \in Dispatches /\ no[p] = dispatches[cur[p]]
         /\ pc[p] = "arm" /\ pc'[p] = "wait"
         /\ \A q \in Pool : q # p => pc'[q] = pc[q]
         /\ call'[cur[p]][no[p]] = "sent"
         /\ \A u \in Tasks, m \in Dispatches : ~(u = cur[p] /\ m = no[p]) => call'[u][m] = call[u][m]
         /\ UNCHANGED <<cur, no, status, dispatches, report>>
<1>1. cur[p] \in Tasks /\ no[p] \in Dispatches /\ no[p] = dispatches[cur[p]] /\ pc[p] = "arm"
  BY RetriesAssumption DEF IInv, ArmAndSend, PoolGoto, TypeOK, Counters, Dispatches
<1>2. /\ pc'[p] = "wait" /\ \A q \in Pool : q # p => pc'[q] = pc[q]
      /\ UNCHANGED <<status, dispatches, report>>
  BY DEF IInv, ArmAndSend, PoolGoto, TypeOK, task
<1>3. cur' = cur /\ no' = no
  BY DEF IInv, ArmAndSend, PoolGoto, TypeOK
<1>4. /\ call'[cur[p]][no[p]] = "sent"
      /\ \A u \in Tasks, m \in Dispatches : ~(u = cur[p] /\ m = no[p]) => call'[u][m] = call[u][m]
  BY <1>1 DEF IInv, ArmAndSend, TypeOK
<1> QED BY <1>1, <1>2, <1>3, <1>4

(* The thread that sent a call is the only one that waits for it.          *)
LEMMA ArmAndSendCInv ==
  ASSUME CInv, IInv', NEW p \in Pool, ArmAndSend(p) PROVE CInv'
<1> DEFINE t == cur[p]  n == no[p]
<1>0. /\ t \in Tasks /\ n \in Dispatches /\ n = dispatches[t]
      /\ pc[p] = "arm" /\ pc'[p] = "wait"
      /\ \A q \in Pool : q # p => pc'[q] = pc[q]
      /\ call'[t][n] = "sent"
      /\ \A u \in Tasks, m \in Dispatches : ~(u = t /\ m = n) => call'[u][m] = call[u][m]
      /\ UNCHANGED <<cur, no, dispatches, report>>
  BY ArmAndSendFacts DEF CInv
<1>1. call[t][n] = "none"
  BY <1>0 DEF CInv, CallNumbers
<1>2. \A q \in Pool \ {p} : pc[q] = "arm" => cur[q] # t /\ cur[q] \in Tasks /\ no[q] \in Dispatches
  BY <1>0, RetriesAssumption
     DEF CInv, IInv, OneToken, Counters, TypeOK, Holding, Dispatches
<1>3. \A m \in Dispatches : m \in Nat
  BY RetriesAssumption DEF Dispatches
<1> HIDE DEF t, n
<1>4. CallNumbers'
  <2>1. \A u \in Tasks, m \in Dispatches : m > dispatches[u] => call'[u][m] = "none"
    BY <1>0, <1>3 DEF CInv, CallNumbers
  <2>2. \A q \in Pool : pc'[q] = "arm" => call'[cur[q]][no[q]] = "none"
    BY <1>0, <1>2 DEF CInv, CallNumbers
  <2> QED BY <1>0, <2>1, <2>2 DEF CallNumbers
<1>5. CallReports' BY <1>0, <1>1 DEF CInv, CallReports
<1>6. OneWaiter'
  <2>1. t = cur[p] /\ n = no[p] BY DEF t, n
  <2>2. \A q \in Pool : pc[q] = "wait" => cur[q] # t \/ no[q] # n
    BY <1>1 DEF CInv, OneWaiter
  <2> QED BY <1>0, <2>1, <2>2 DEF CInv, OneWaiter
<1> QED BY <1>4, <1>5, <1>6 DEF CInv

(* What a pool thread moves that neither begins a dispatch nor sends.      *)
LEMMA PoolGotoFacts ==
  ASSUME IInv, NEW p \in Pool, NEW from, NEW to, PoolGoto(p, from, to)
  PROVE  /\ pc[p] = from /\ pc'[p] = to
         /\ to # "idle" => cur'[p] = cur[p] /\ no'[p] = no[p]
         /\ \A q \in Pool : q # p => pc'[q] = pc[q] /\ cur'[q] = cur[q] /\ no'[q] = no[q]
BY DEF IInv, TypeOK, PoolGoto

(* Every step of a pool thread preserves the invariant of the calls.       *)
LEMMA PoolStepCInv ==
  ASSUME CInv, NEW p \in Pool, PoolStep(p) PROVE CInv'
<1>a. IInv /\ IInv' BY PoolStepIInv DEF CInv
<1>b. ASSUME NEW from, NEW to, to \notin {"arm", "wait"}, PoolGoto(p, from, to),
             UNCHANGED <<dispatches, call, report>>
      PROVE  CInv'
  BY <1>a, <1>b, PoolGotoFacts, PoolGotoCInv
<1>1. CASE StartJob(p)
  <2>1. /\ pc'[p] = "lookup" /\ UNCHANGED <<dispatches, call, report>>
        /\ \A q \in Pool : q # p => pc'[q] = pc[q] /\ cur'[q] = cur[q] /\ no'[q] = no[q]
    BY <1>a, <1>1 DEF IInv, TypeOK, StartJob, task
  <2> QED BY <1>a, <2>1, PoolGotoCInv
<1>2. CASE SelectWorker(p) BY <1>2, <1>b DEF SelectWorker, Local, task
<1>3. CASE NoWorker(p) BY <1>3, <1>b DEF NoWorker, Local, task
<1>4. CASE RequeueUnserved(p) BY <1>4, <1>b DEF RequeueUnserved, task
<1>5. CASE CheckDispatched(p) BY <1>5, <1>b DEF CheckDispatched, PoolCheck, Local, task
<1>6. CASE SetDispatched(p) BY <1>6, <1>a, SetDispatchedCInv
<1>7. CASE ArmAndSend(p) BY <1>7, <1>a, ArmAndSendCInv
<1>8. CASE RpcAccepted(p) BY <1>8, <1>b DEF RpcAccepted, Local, task
<1>9. CASE RpcRefused(p) BY <1>9, <1>b DEF RpcRefused, Local, task
<1>10. CASE RpcError(p) BY <1>10, <1>b DEF RpcError, Local, task
<1>11. CASE CheckProcessing(p) BY <1>11, <1>b DEF CheckProcessing, PoolCheck, Local, task
<1>12. CASE SetProcessing(p) BY <1>12, <1>b DEF SetProcessing, Set
<1>13. CASE CancelRefused(p) BY <1>13, <1>b DEF CancelRefused, task
<1>14. CASE CheckFailed(p) BY <1>14, <1>b DEF CheckFailed, PoolCheck, Local, task
<1>15. CASE SetFailed(p) BY <1>15, <1>b DEF SetFailed, Set
<1> QED BY <1>1, <1>2, <1>3, <1>4, <1>5, <1>6, <1>7, <1>8, <1>9, <1>10, <1>11,
           <1>12, <1>13, <1>14, <1>15 DEF PoolStep

(* What a step of ReturnResult changes: its own place, and only an         *)
(* arriving report needs a call under way.                                 *)
LEMMA ReportFacts ==
  ASSUME IInv, NEW t \in Tasks, NEW n \in Dispatches, NEW o \in Outcome,
         ReportArrives(t, n, o) \/ ReportStep(t, n, o)
  PROVE  /\ report[t][n][o] # "done"
         /\ report[t][n][o] = "none" =>
              call[t][n] = IF o = "COMPLETED" THEN "sendingCOMPLETED" ELSE "sendingFAILED"
         /\ report'[t][n][o] # "none"
         /\ \A u \in Tasks, m \in Dispatches, q \in Outcome :
              ~(u = t /\ m = n /\ q = o) => report'[u][m][q] = report[u][m][q]
         /\ UNCHANGED <<queue, jobs, pc, cur, no, dispatches, retry_count, call>>
<1>1. ASSUME NEW from, NEW to, ReportGoto(t, n, o, from, to)
      PROVE  /\ report[t][n][o] = from /\ report'[t][n][o] = to
             /\ \A u \in Tasks, m \in Dispatches, q \in Outcome :
                  ~(u = t /\ m = n /\ q = o) => report'[u][m][q] = report[u][m][q]
  BY <1>1 DEF ReportGoto, IInv, TypeOK
<1>2. /\ \E from, to \in ReportPC : ReportGoto(t, n, o, from, to) /\ from # "done" /\ to # "none"
      /\ UNCHANGED <<queue, jobs, pc, cur, no, dispatches, retry_count, call>>
  BY DEF ReportArrives, ReportStep, ReportGate, ReportCancel, ReportRead,
         ReportCheckProcessing, ReportSetProcessing, ReportCheckOutcome, ReportSetOutcome,
         ReportStore, ReportGoto, ReportPC, Set, task, threads
<1>3. \/ ReportArrives(t, n, o)
      \/ \E from, to \in ReportPC : ReportGoto(t, n, o, from, to) /\ from # "none"
  BY DEF ReportStep, ReportGate, ReportCancel, ReportRead,
         ReportCheckProcessing, ReportSetProcessing, ReportCheckOutcome, ReportSetOutcome,
         ReportStore, ReportPC
<1>4. report[t][n][o] = "none" =>
        call[t][n] = IF o = "COMPLETED" THEN "sendingCOMPLETED" ELSE "sendingFAILED"
  BY <1>1, <1>3 DEF ReportArrives
<1> QED BY <1>1, <1>2, <1>4

(* Every step of ReturnResult preserves the invariant of the calls.        *)
LEMMA ReportCInv ==
  ASSUME CInv, NEW t \in Tasks, NEW n \in Dispatches, NEW o \in Outcome,
         ReportArrives(t, n, o) \/ ReportStep(t, n, o)
  PROVE  CInv'
<1>a. IInv /\ IInv' BY ReportStepIInv DEF CInv
<1>1. /\ report[t][n][o] # "done"
      /\ report[t][n][o] = "none" =>
           call[t][n] = IF o = "COMPLETED" THEN "sendingCOMPLETED" ELSE "sendingFAILED"
      /\ \A u \in Tasks, m \in Dispatches, q \in Outcome :
           ~(u = t /\ m = n /\ q = o) => report'[u][m][q] = report[u][m][q]
      /\ UNCHANGED <<pc, cur, no, dispatches, call>>
  BY <1>a, ReportFacts
<1>2. CallNumbers' BY <1>1 DEF CInv, CallNumbers
<1>3. CallReports'
  <2> SUFFICES ASSUME NEW u \in Tasks, NEW m \in Dispatches
               PROVE  /\ call[u][m] \in {"none", "sent"} => \A q \in Outcome : report'[u][m][q] = "none"
                      /\ call[u][m] = "sendingCOMPLETED" => report'[u][m]["FAILED"] = "none"
                      /\ call[u][m] = "accepted" => report'[u][m]["COMPLETED"] = "done"
    BY <1>1 DEF CallReports
  <2>1. o \in {"COMPLETED", "FAILED"} /\ "COMPLETED" \in Outcome /\ "FAILED" \in Outcome
    BY DEF Outcome
  <2> QED BY <1>1, <2>1 DEF CInv, CallReports
<1>4. OneWaiter' BY <1>1 DEF CInv, OneWaiter
<1> QED BY <1>a, <1>2, <1>3, <1>4 DEF CInv

(* A worker step moves one call from one stage to the next.                *)
LEMMA CallGotoCInv ==
  ASSUME CInv, IInv', NEW t \in Tasks, NEW n \in Dispatches, NEW from, NEW to,
         CallGoto(t, n, from, to), from # "none", to \notin {"none", "sent"},
         to = "sendingCOMPLETED" => from = "sent",
         to = "accepted" => report[t][n]["COMPLETED"] = "done"
  PROVE  CInv'
<1>1. /\ call[t][n] = from /\ call'[t][n] = to
      /\ \A u \in Tasks, m \in Dispatches : ~(u = t /\ m = n) => call'[u][m] = call[u][m]
      /\ UNCHANGED <<pc, cur, no, dispatches, report>>
  BY DEF CInv, IInv, TypeOK, CallGoto, threads, task
<1>a. \A p \in Pool : pc[p] = "arm" => cur[p] \in Tasks /\ no[p] \in Dispatches
  <2> SUFFICES ASSUME NEW p \in Pool, pc[p] = "arm" PROVE cur[p] \in Tasks /\ no[p] \in Dispatches
    OBVIOUS
  <2>1. cur[p] \in Tasks /\ no[p] \in 0..MaxRetries
    BY DEF CInv, IInv, TypeOK
  <2>2. retry_count[cur[p]] \in Nat /\ no[p] = retry_count[cur[p]] + 1
    BY <2>1 DEF CInv, IInv, TypeOK, Counters
  <2> QED BY <2>1, <2>2, RetriesAssumption DEF Dispatches
<1>2. CallNumbers' BY <1>1, <1>a DEF CInv, CallNumbers
<1>3. CallReports' BY <1>1 DEF CInv, CallReports, Outcome
<1>4. OneWaiter' BY <1>1 DEF CInv, OneWaiter
<1> QED BY <1>2, <1>3, <1>4 DEF CInv

(* Every step of a worker preserves the invariant of the calls.            *)
LEMMA WorkerCInv ==
  ASSUME CInv, NEW t \in Tasks, NEW n \in Dispatches, WorkerStep(t, n) PROVE CInv'
<1>a. IInv' BY WorkerStepIInv DEF CInv
<1>1. CASE WorkerSends(t, n)
  BY <1>1, <1>a, CallGotoCInv DEF WorkerSends
<1>2. CASE WorkerSendFails(t, n)
  BY <1>2, <1>a, CallGotoCInv DEF WorkerSendFails
<1>3. CASE WorkerAnswers(t, n)
  BY <1>3, <1>a, CallGotoCInv DEF WorkerAnswers
<1> QED BY <1>1, <1>2, <1>3 DEF WorkerStep

(* The timers, PostTask and the loop touch no call.                        *)
LEMMA NextCInv == CInv /\ [Next]_vars => CInv'
<1> SUFFICES ASSUME CInv, [Next]_vars PROVE CInv'
  OBVIOUS
<1>a. IInv' BY NextIInv DEF CInv
<1>1. ASSUME NEW t \in Tasks, PostTask(t) PROVE CInv'
  BY <1>a, <1>1, CallsKept DEF PostTask, Set
<1>2. CASE RunLoop
  BY <1>a, <1>2, CallsKept DEF RunLoop, task
<1>3. ASSUME NEW t \in Tasks, NEW n \in Dispatches, TimerStep(t, n) PROVE CInv'
  <2>1. UNCHANGED <<dispatches, threads, call, report>>
    BY <1>3 DEF TimerStep, TimerFires, TimerGate, TimerCheckTimeout, TimerSetTimeout,
          TimerCheckRetrying, TimerSetRetrying, TimerCount, TimerCheckFailed,
          TimerSetFailed, TimerReenqueue, TimerGoto, Set, task
  <2> QED BY <1>a, <2>1, CallsKept
<1>4. CASE UNCHANGED vars
  BY <1>a, <1>4, CallsKept DEF vars, task
<1> QED BY <1>1, <1>2, <1>3, <1>4, PoolStepCInv, ReportCInv, WorkerCInv DEF Next, Rest

(* The invariant of the calls holds in every reachable state.              *)
THEOREM CallInvariance == Spec => []CInv
BY InitCInv, NextCInv, PTL DEF Spec

-----------------------------------------------------------------------------
(* The calls follow CallInterface. What the interface shows of dispatch n  *)
(* of task t: its stage, whether its report was handled and whether        *)
(* somebody still waits for an answer.                                     *)

Open(t, n) == Awaited(t, n) /\ call[t][n] \notin {"accepted", "refused"}

Stages == [c \in Tasks \X Dispatches |-> call[c[1]][c[2]]]
Done   == [c \in Tasks \X Dispatches |-> HandledReport(c[1], c[2])]
Opened == [c \in Tasks \X Dispatches |-> Open(c[1], c[2])]

(* One call moves to another stage, is handled, or is answered.            *)
LEMMA StageUpdate ==
  ASSUME NEW t \in Tasks, NEW n \in Dispatches, NEW to, call'[t][n] = to,
         \A u \in Tasks, m \in Dispatches : ~(u = t /\ m = n) => call'[u][m] = call[u][m]
  PROVE  Stages' = [Stages EXCEPT ![<<t, n>>] = to]
<1>1. ASSUME NEW c \in Tasks \X Dispatches
      PROVE  call'[c[1]][c[2]] = IF c = <<t, n>> THEN to ELSE call[c[1]][c[2]]
  OBVIOUS
<1> QED BY <1>1 DEF Stages

(* The report of one dispatch is handled or not.                           *)
LEMMA DoneUpdate ==
  ASSUME NEW t \in Tasks, NEW n \in Dispatches, NEW b \in BOOLEAN, HandledReport(t, n)' = b,
         \A u \in Tasks, m \in Dispatches :
            ~(u = t /\ m = n) => HandledReport(u, m)' = HandledReport(u, m)
  PROVE  Done' = [Done EXCEPT ![<<t, n>>] = b]
<1>1. ASSUME NEW c \in Tasks \X Dispatches
      PROVE  HandledReport(c[1], c[2])' = IF c = <<t, n>> THEN b ELSE HandledReport(c[1], c[2])
  OBVIOUS
<1> QED BY <1>1 DEF Done

(* The call of one dispatch is awaited or not.                             *)
LEMMA OpenedUpdate ==
  ASSUME NEW t \in Tasks, NEW n \in Dispatches, NEW b \in BOOLEAN, Open(t, n)' = b,
         \A u \in Tasks, m \in Dispatches : ~(u = t /\ m = n) => Open(u, m)' = Open(u, m)
  PROVE  Opened' = [Opened EXCEPT ![<<t, n>>] = b]
<1>1. ASSUME NEW c \in Tasks \X Dispatches
      PROVE  Open(c[1], c[2])' = IF c = <<t, n>> THEN b ELSE Open(c[1], c[2])
  OBVIOUS
<1> QED BY <1>1 DEF Opened

(* No call moves.                                                          *)
LEMMA StagesKept ==
  ASSUME \A u \in Tasks, m \in Dispatches : call'[u][m] = call[u][m]
  PROVE  Stages' = Stages
BY DEF Stages

(* No report is handled.                                                   *)
LEMMA DoneKept ==
  ASSUME \A u \in Tasks, m \in Dispatches : HandledReport(u, m)' = HandledReport(u, m)
  PROVE  Done' = Done
BY DEF Done

(* No thread begins or ends to wait for a call.                            *)
LEMMA OpenedKept ==
  ASSUME \A u \in Tasks, m \in Dispatches : Open(u, m)' = Open(u, m)
  PROVE  Opened' = Opened
BY DEF Opened

(* The state of the interface in these terms.                              *)
LEMMA InterfaceVars ==
  ASSUME Stages' = Stages, Done' = Done, Opened' = Opened
  PROVE  UNCHANGED Interface!vars
BY DEF Interface!vars, Stages, Done, Opened, Open

(* Steps after which the same threads wait for the same answers.           *)
LEMMA NothingSeen ==
  ASSUME UNCHANGED <<call, report>>,
         \A p \in Pool : pc'[p] = "wait" \/ pc[p] = "wait" =>
            pc'[p] = pc[p] /\ cur'[p] = cur[p] /\ no'[p] = no[p]
  PROVE  UNCHANGED Interface!vars
<1>1. \A u \in Tasks, m \in Dispatches : HandledReport(u, m)' = HandledReport(u, m)
  BY DEF HandledReport
<1>2. \A u \in Tasks, m \in Dispatches : Open(u, m)' = Open(u, m)
  BY DEF Open, Awaited
<1>3. Stages' = Stages
  BY StagesKept
<1> QED BY <1>1, <1>2, <1>3, DoneKept, OpenedKept, InterfaceVars

(* dispatch_task sends ExecuteTask.                                        *)
LEMMA ArmAndSendSends ==
  ASSUME CInv, NEW p \in Pool, ArmAndSend(p) PROVE \E t \in Tasks, n \in Dispatches : Interface!Send(<<t, n>>)
<1>c. PICK t \in Tasks, n \in Dispatches : t = cur[p] /\ n = no[p]
  BY ArmAndSendFacts DEF CInv
<1>0. /\ t \in Tasks /\ n \in Dispatches
      /\ pc[p] = "arm" /\ pc'[p] = "wait"
      /\ \A q \in Pool : q # p => pc'[q] = pc[q]
      /\ call'[t][n] = "sent"
      /\ \A u \in Tasks, m \in Dispatches : ~(u = t /\ m = n) => call'[u][m] = call[u][m]
      /\ UNCHANGED <<cur, no, report>>
  BY <1>c, ArmAndSendFacts DEF CInv
<1>1. call[t][n] = "none"
  BY <1>0, <1>c DEF CInv, CallNumbers
<1>2. \A u \in Tasks, m \in Dispatches : HandledReport(u, m)' = HandledReport(u, m)
  BY <1>0, <1>1 DEF HandledReport
<1>3. Open(t, n)' = TRUE
  BY <1>0, <1>c DEF Open, Awaited
<1>4. ASSUME NEW u \in Tasks, NEW m \in Dispatches, ~(u = t /\ m = n)
      PROVE  Open(u, m)' = Open(u, m)
  BY <1>0, <1>c, <1>4 DEF Open, Awaited
<1>5. Opened' = [Opened EXCEPT ![<<t, n>>] = TRUE]
  BY <1>0, <1>3, <1>4, OpenedUpdate
<1>6. /\ Stages' = [Stages EXCEPT ![<<t, n>>] = "sent"]
      /\ Stages[<<t, n>>] = "none"
  <2>1. Stages' = [Stages EXCEPT ![<<t, n>>] = "sent"]
    BY <1>0, StageUpdate
  <2> QED BY <1>1, <2>1 DEF Stages
<1>7. Done' = Done
  BY <1>2, DoneKept
<1> QED BY <1>5, <1>6, <1>7
        DEF Interface!Send, Interface!Move, Stages, Done, Opened, Open

(* A thread that stops waiting has an answer or gives the call up.         *)
LEMMA LeavesWait ==
  ASSUME CInv, NEW p \in Pool, pc[p] = "wait", pc'[p] # "wait",
         \A q \in Pool : q # p => pc'[q] = pc[q] /\ cur'[q] = cur[q] /\ no'[q] = no[q],
         UNCHANGED <<call, report>>
  PROVE  \/ UNCHANGED Interface!vars
         \/ \E t \in Tasks, n \in Dispatches : Interface!GiveUp(<<t, n>>)
<1>c. PICK t \in Tasks, n \in Dispatches : t = cur[p] /\ n = no[p]
  BY DEF CInv, OneWaiter
<1>0. \A q \in Pool : pc[q] = "wait" /\ cur[q] = t /\ no[q] = n => q = p
  BY <1>c DEF CInv, OneWaiter
<1>1. Open(t, n)' = FALSE
  BY <1>0 DEF Open, Awaited
<1>2. ASSUME NEW u \in Tasks, NEW m \in Dispatches, ~(u = t /\ m = n)
      PROVE  Open(u, m)' = Open(u, m)
  BY <1>0, <1>c, <1>2 DEF Open, Awaited
<1>3. Stages' = Stages
  BY StagesKept
<1>4. Done' = Done
  BY DoneKept DEF HandledReport
<1>5. CASE call[t][n] \in {"accepted", "refused"}
  <2>1. Open(t, n)' = Open(t, n)
    BY <1>1, <1>5 DEF Open
  <2>2. Opened' = Opened
    BY <1>2, <2>1, OpenedKept
  <2> QED BY <1>3, <1>4, <2>2, InterfaceVars
<1>6. CASE call[t][n] \notin {"accepted", "refused"}
  <2>1. Open(t, n)
    BY <1>c, <1>6 DEF Open, Awaited
  <2>2. Opened[<<t, n>>]
    BY <1>0, <2>1 DEF Opened
  <2>3. Opened' = [Opened EXCEPT ![<<t, n>>] = FALSE]
    BY <1>0, <1>1, <1>2, OpenedUpdate
  <2> QED BY <1>3, <1>4, <2>2, <2>3 DEF Interface!GiveUp, Stages, Done, Opened, Open
<1> QED BY <1>5, <1>6

(* The steps of a pool thread.                                             *)
InterfaceStep == Interface!Next \/ UNCHANGED Interface!vars

(* Of the steps of a pool thread, the interface sees the sending of a call *)
(* and the end of the wait for it.                                         *)
LEMMA PoolStepMaps ==
  ASSUME CInv, NEW p \in Pool, PoolStep(p) PROVE InterfaceStep
<1>a. IInv BY DEF CInv
<1>b. ASSUME NEW from, NEW to, from # "wait", to # "wait", PoolGoto(p, from, to),
             UNCHANGED <<call, report>>
      PROVE  InterfaceStep
  <2>1. /\ pc[p] = from /\ pc'[p] = to
        /\ \A q \in Pool : q # p => pc'[q] = pc[q] /\ cur'[q] = cur[q] /\ no'[q] = no[q]
    BY <1>a, <1>b, PoolGotoFacts
  <2> QED BY <1>b, <2>1, NothingSeen DEF InterfaceStep
<1>c. ASSUME NEW to, to # "wait", PoolGoto(p, "wait", to), UNCHANGED <<call, report>>
      PROVE  InterfaceStep
  <2>1. /\ pc[p] = "wait" /\ pc'[p] = to
        /\ \A q \in Pool : q # p => pc'[q] = pc[q] /\ cur'[q] = cur[q] /\ no'[q] = no[q]
    BY <1>a, <1>c, PoolGotoFacts
  <2>2. \/ UNCHANGED Interface!vars
        \/ \E t \in Tasks, n \in Dispatches : Interface!GiveUp(<<t, n>>)
    BY <1>c, <2>1, LeavesWait
  <2> QED BY <2>2 DEF InterfaceStep, Interface!Next
<1>1. CASE StartJob(p)
  <2>1. /\ pc[p] = "idle" /\ pc'[p] = "lookup" /\ UNCHANGED <<call, report>>
        /\ \A q \in Pool : q # p => pc'[q] = pc[q] /\ cur'[q] = cur[q] /\ no'[q] = no[q]
    BY <1>a, <1>1 DEF IInv, TypeOK, StartJob, task
  <2> QED BY <2>1, NothingSeen DEF InterfaceStep
<1>2. CASE SelectWorker(p) BY <1>2, <1>b DEF SelectWorker, Local
<1>3. CASE NoWorker(p) BY <1>3, <1>b DEF NoWorker, Local
<1>4. CASE RequeueUnserved(p) BY <1>4, <1>b DEF RequeueUnserved
<1>5. CASE CheckDispatched(p) BY <1>5, <1>b DEF CheckDispatched, PoolCheck, Local
<1>6. CASE SetDispatched(p)
  <2>1. /\ pc[p] = "setDispatched" /\ pc'[p] = "arm" /\ UNCHANGED <<call, report>>
        /\ \A q \in Pool : q # p => pc'[q] = pc[q] /\ cur'[q] = cur[q] /\ no'[q] = no[q]
    BY <1>a, <1>6 DEF IInv, TypeOK, SetDispatched
  <2> QED BY <2>1, NothingSeen DEF InterfaceStep
<1>7. CASE ArmAndSend(p)
  <2>1. \E t \in Tasks, n \in Dispatches : Interface!Send(<<t, n>>)
    BY <1>7, ArmAndSendSends
  <2> QED BY <2>1 DEF InterfaceStep, Interface!Next
<1>8. CASE RpcAccepted(p) BY <1>8, <1>c DEF RpcAccepted, Local
<1>9. CASE RpcRefused(p) BY <1>9, <1>c DEF RpcRefused, Local
<1>10. CASE RpcError(p) BY <1>10, <1>c DEF RpcError, Local
<1>11. CASE CheckProcessing(p) BY <1>11, <1>b DEF CheckProcessing, PoolCheck, Local
<1>12. CASE SetProcessing(p) BY <1>12, <1>b DEF SetProcessing
<1>13. CASE CancelRefused(p) BY <1>13, <1>b DEF CancelRefused
<1>14. CASE CheckFailed(p) BY <1>14, <1>b DEF CheckFailed, PoolCheck, Local
<1>15. CASE SetFailed(p) BY <1>15, <1>b DEF SetFailed
<1> QED BY <1>1, <1>2, <1>3, <1>4, <1>5, <1>6, <1>7, <1>8, <1>9, <1>10, <1>11,
           <1>12, <1>13, <1>14, <1>15 DEF PoolStep

(* A step of ReturnResult either ends the handling of the report that is   *)
(* under way or is not seen.                                               *)
LEMMA ReportMaps ==
  ASSUME CInv, NEW t \in Tasks, NEW n \in Dispatches, NEW o \in Outcome,
         ReportArrives(t, n, o) \/ ReportStep(t, n, o)
  PROVE  InterfaceStep
<1>1. /\ report[t][n][o] # "done"
      /\ \A u \in Tasks, m \in Dispatches, q \in Outcome :
           ~(u = t /\ m = n /\ q = o) => report'[u][m][q] = report[u][m][q]
      /\ UNCHANGED <<pc, cur, no, call>>
  BY ReportFacts DEF CInv
<1>2. "COMPLETED" \in Outcome /\ "FAILED" \in Outcome
  BY DEF Outcome
<1>3. ASSUME NEW u \in Tasks, NEW m \in Dispatches, ~(u = t /\ m = n)
      PROVE  HandledReport(u, m)' = HandledReport(u, m)
  BY <1>1, <1>2, <1>3 DEF HandledReport
<1>4. Stages' = Stages
  BY <1>1, StagesKept
<1>5. Opened' = Opened
  BY <1>1, OpenedKept DEF Open, Awaited
<1>6. CASE HandledReport(t, n)'
  <2>1. HandledReport(t, n)' = TRUE
    BY <1>6 DEF HandledReport
  <2>2. Done' = [Done EXCEPT ![<<t, n>>] = TRUE]
    BY <1>3, <2>1, DoneUpdate
  <2>3. Stages[<<t, n>>] \in {"sendingCOMPLETED", "sendingFAILED"}
    BY <1>1, <1>6 DEF HandledReport, Stages
  <2>4. Interface!ReportHandled(<<t, n>>)
    BY <1>4, <1>5, <2>2, <2>3 DEF Interface!ReportHandled, Stages, Done, Opened, Open
  <2> QED BY <2>4 DEF InterfaceStep, Interface!Next
<1>7. CASE ~HandledReport(t, n)'
  <2>1. ~HandledReport(t, n)
    BY <1>1, <1>2, <1>7 DEF HandledReport
  <2>2. HandledReport(t, n)' = HandledReport(t, n)
    BY <1>7, <2>1 DEF HandledReport
  <2>3. Done' = Done
    BY <1>3, <2>2, DoneKept
  <2> QED BY <1>4, <1>5, <2>3, InterfaceVars DEF InterfaceStep
<1> QED BY <1>6, <1>7

(* What a worker step changes: the stage of one call.                      *)
LEMMA CallGotoFacts ==
  ASSUME IInv, NEW t \in Tasks, NEW n \in Dispatches, NEW from, NEW to, CallGoto(t, n, from, to)
  PROVE  /\ call[t][n] = from /\ call'[t][n] = to
         /\ \A u \in Tasks, m \in Dispatches : ~(u = t /\ m = n) => call'[u][m] = call[u][m]
         /\ \A u \in Tasks, m \in Dispatches :
              ~(u = t /\ m = n) => HandledReport(u, m)' = HandledReport(u, m)
         /\ \A u \in Tasks, m \in Dispatches :
              ~(u = t /\ m = n) => Open(u, m)' = Open(u, m)
         /\ Awaited(t, n)' = Awaited(t, n)
         /\ UNCHANGED report
<1>1. /\ call[t][n] = from /\ call'[t][n] = to
      /\ \A u \in Tasks, m \in Dispatches : ~(u = t /\ m = n) => call'[u][m] = call[u][m]
      /\ UNCHANGED <<pc, cur, no, report>>
  BY DEF IInv, TypeOK, CallGoto, threads
<1>2. ASSUME NEW u \in Tasks, NEW m \in Dispatches
      PROVE  Awaited(u, m)' = Awaited(u, m)
  BY <1>1 DEF Awaited
<1>3. ASSUME NEW u \in Tasks, NEW m \in Dispatches, ~(u = t /\ m = n)
      PROVE  HandledReport(u, m)' = HandledReport(u, m) /\ Open(u, m)' = Open(u, m)
  BY <1>1, <1>2, <1>3 DEF HandledReport, Open
<1> QED BY <1>1, <1>2, <1>3

(* One call moves to another stage of the interface.                       *)
LEMMA CallGotoMoves ==
  ASSUME IInv, NEW t \in Tasks, NEW n \in Dispatches, NEW from, NEW to, CallGoto(t, n, from, to)
  PROVE  Interface!Move(<<t, n>>, from, to)
<1>1. Stages' = [Stages EXCEPT ![<<t, n>>] = to]
  BY CallGotoFacts, StageUpdate
<1>2. Stages[<<t, n>>] = from
  BY CallGotoFacts DEF Stages
<1> QED BY <1>1, <1>2 DEF Interface!Move, Stages

(* process_task has returned or raised: the worker sends its outcome.      *)
LEMMA WorkerSendsMaps ==
  ASSUME CInv, NEW t \in Tasks, NEW n \in Dispatches, WorkerSends(t, n)
  PROVE  Interface!WorkerSends(<<t, n>>)
<1>1. PICK to \in {"sendingCOMPLETED", "sendingFAILED"} : CallGoto(t, n, "sent", to)
  BY DEF WorkerSends
<1>a. IInv BY DEF CInv
<1>2. /\ call[t][n] = "sent" /\ call'[t][n] = to /\ UNCHANGED report
      /\ Awaited(t, n)' = Awaited(t, n)
      /\ \A u \in Tasks, m \in Dispatches :
           ~(u = t /\ m = n) => HandledReport(u, m)' = HandledReport(u, m)
      /\ \A u \in Tasks, m \in Dispatches :
           ~(u = t /\ m = n) => Open(u, m)' = Open(u, m)
  BY <1>1, <1>a, CallGotoFacts
<1>3. Interface!Move(<<t, n>>, "sent", to)
  BY <1>1, <1>a, CallGotoMoves
<1>4. \A o \in {"COMPLETED", "FAILED"} : report[t][n][o] = "none"
  BY <1>2 DEF CInv, CallReports, Outcome
<1>5. HandledReport(t, n)' = HandledReport(t, n)
  BY <1>2, <1>4 DEF HandledReport
<1>6. Open(t, n)' = Open(t, n)
  BY <1>2 DEF Open
<1>7. Done' = Done /\ Opened' = Opened
  BY <1>2, <1>5, <1>6, DoneKept, OpenedKept
<1> QED BY <1>3, <1>7 DEF Interface!WorkerSends, Done, Opened, Open

(* The FAILED report after a failed COMPLETED one is not handled yet.      *)
LEMMA WorkerSendFailsMaps ==
  ASSUME CInv, NEW t \in Tasks, NEW n \in Dispatches, WorkerSendFails(t, n)
  PROVE  Interface!WorkerSendFails(<<t, n>>)
<1>1. CallGoto(t, n, "sendingCOMPLETED", "sendingFAILED")
  BY DEF WorkerSendFails
<1>a. IInv BY DEF CInv
<1>2. /\ call[t][n] = "sendingCOMPLETED" /\ call'[t][n] = "sendingFAILED" /\ UNCHANGED report
      /\ Awaited(t, n)' = Awaited(t, n)
      /\ \A u \in Tasks, m \in Dispatches :
           ~(u = t /\ m = n) => HandledReport(u, m)' = HandledReport(u, m)
      /\ \A u \in Tasks, m \in Dispatches :
           ~(u = t /\ m = n) => Open(u, m)' = Open(u, m)
  BY <1>1, <1>a, CallGotoFacts
<1>3. Interface!Move(<<t, n>>, "sendingCOMPLETED", "sendingFAILED")
  BY <1>1, <1>a, CallGotoMoves
<1>4. report[t][n]["FAILED"] = "none"
  BY <1>2 DEF CInv, CallReports
<1>5. HandledReport(t, n)' = FALSE
  BY <1>2, <1>4 DEF HandledReport
<1>6. Open(t, n)' = Open(t, n)
  BY <1>2 DEF Open
<1>7. Opened' = Opened
  BY <1>2, <1>6, OpenedKept
<1>8. Done' = [Done EXCEPT ![<<t, n>>] = FALSE]
  BY <1>2, <1>5, DoneUpdate
<1> QED BY <1>3, <1>7, <1>8 DEF Interface!WorkerSendFails, Done, Opened, Open

(* A worker answers somebody who waits, after its report was handled.      *)
LEMMA WorkerAnswersMaps ==
  ASSUME CInv, NEW t \in Tasks, NEW n \in Dispatches, WorkerAnswers(t, n)
  PROVE  Interface!WorkerAnswers(<<t, n>>)
<1>a. IInv BY DEF CInv
<1>1. ASSUME NEW from \in {"sent", "sendingCOMPLETED", "sendingFAILED"},
             NEW to \in {"accepted", "refused"}, CallGoto(t, n, from, to),
             from = "sent" \/ HandledReport(t, n),
             <<from, to>> \in {<<"sent", "refused">>, <<"sendingCOMPLETED", "accepted">>,
                               <<"sendingFAILED", "refused">>}
      PROVE  Interface!WorkerAnswers(<<t, n>>)
  <2>1. /\ call[t][n] = from /\ call'[t][n] = to
        /\ \A u \in Tasks, m \in Dispatches :
             ~(u = t /\ m = n) => HandledReport(u, m)' = HandledReport(u, m)
        /\ \A u \in Tasks, m \in Dispatches :
             ~(u = t /\ m = n) => Open(u, m)' = Open(u, m)
    BY <1>1, <1>a, CallGotoFacts
  <2>2. Interface!Move(<<t, n>>, from, to)
    BY <1>1, <1>a, CallGotoMoves
  <2>3. HandledReport(t, n)' = FALSE /\ Open(t, n)' = FALSE
    BY <1>1, <2>1 DEF HandledReport, Open
  <2>4. Done' = [Done EXCEPT ![<<t, n>>] = FALSE]
    BY <2>1, <2>3, DoneUpdate
  <2>5. Opened' = [Opened EXCEPT ![<<t, n>>] = FALSE]
    BY <2>1, <2>3, OpenedUpdate
  <2>6. Opened[<<t, n>>]
    BY <1>1, <2>1 DEF WorkerAnswers, Open, Opened
  <2>7. from = "sent" \/ Done[<<t, n>>]
    BY <1>1 DEF Done
  <2>8. \/ Interface!Move(<<t, n>>, "sent", "refused")
        \/ Done[<<t, n>>] /\ Interface!Move(<<t, n>>, "sendingCOMPLETED", "accepted")
        \/ Done[<<t, n>>] /\ Interface!Move(<<t, n>>, "sendingFAILED", "refused")
    BY <1>1, <2>2, <2>7
  <2> QED BY <2>4, <2>5, <2>6, <2>8 DEF Interface!WorkerAnswers, Done, Opened, Open
<1>2. CASE CallGoto(t, n, "sent", "refused")
  BY <1>1, <1>2
<1>3. CASE report[t][n]["COMPLETED"] = "done" /\ CallGoto(t, n, "sendingCOMPLETED", "accepted")
  <2>1. HandledReport(t, n)
    BY <1>3 DEF HandledReport, CallGoto
  <2> QED BY <1>1, <1>3, <2>1
<1>4. CASE report[t][n]["FAILED"] = "done" /\ CallGoto(t, n, "sendingFAILED", "refused")
  <2>1. HandledReport(t, n)
    BY <1>4 DEF HandledReport, CallGoto
  <2> QED BY <1>1, <1>4, <2>1
<1> QED BY <1>2, <1>3, <1>4 DEF WorkerAnswers

(* Every step of a worker is a step of the interface.                      *)
LEMMA WorkerMaps ==
  ASSUME CInv, NEW t \in Tasks, NEW n \in Dispatches, WorkerStep(t, n) PROVE InterfaceStep
<1>1. \/ Interface!WorkerSends(<<t, n>>) \/ Interface!WorkerSendFails(<<t, n>>)
      \/ Interface!WorkerAnswers(<<t, n>>)
  BY WorkerSendsMaps, WorkerSendFailsMaps, WorkerAnswersMaps DEF WorkerStep
<1> QED BY <1>1 DEF InterfaceStep, Interface!Next

(* Every step of the dispatcher is a step of the interface or hidden.      *)
LEMMA NextMaps == CInv /\ [Next]_vars => InterfaceStep
<1> SUFFICES ASSUME CInv, [Next]_vars PROVE InterfaceStep
  OBVIOUS
<1>b. ASSUME UNCHANGED <<threads, call, report>> PROVE InterfaceStep
  BY <1>b, NothingSeen DEF InterfaceStep, threads
<1>1. ASSUME NEW t \in Tasks, PostTask(t) PROVE InterfaceStep
  BY <1>b, <1>1 DEF PostTask
<1>2. CASE RunLoop
  BY <1>b, <1>2 DEF RunLoop
<1>3. ASSUME NEW t \in Tasks, NEW n \in Dispatches, TimerStep(t, n) PROVE InterfaceStep
  BY <1>b, <1>3 DEF TimerStep, TimerFires, TimerGate, TimerCheckTimeout, TimerSetTimeout,
          TimerCheckRetrying, TimerSetRetrying, TimerCount, TimerCheckFailed,
          TimerSetFailed, TimerReenqueue, TimerGoto
<1>4. CASE UNCHANGED vars
  BY <1>b, <1>4 DEF vars
<1> QED BY <1>1, <1>2, <1>3, <1>4, PoolStepMaps, ReportMaps, WorkerMaps DEF Next, Rest

(* No call has been sent.                                                  *)
LEMMA InitMaps == Init => Interface!Init
<1> SUFFICES ASSUME Init PROVE Interface!Init
  OBVIOUS
<1>1. \A t \in Tasks, n \in Dispatches : ~HandledReport(t, n) /\ ~Open(t, n)
  BY DEF Init, HandledReport, Open, Awaited
<1>2. /\ Stages = [c \in Tasks \X Dispatches |-> "none"]
      /\ Done = [c \in Tasks \X Dispatches |-> FALSE]
      /\ Opened = [c \in Tasks \X Dispatches |-> FALSE]
  BY <1>1 DEF Init, Stages, Done, Opened, HandledReport, Open
<1> QED BY <1>2 DEF Interface!Init, Stages, Done, Opened, Open

(* However the races on the task end, the calls of the dispatcher keep to  *)
(* the interface that the worker processes implement: every call is sent   *)
(* once, answered at most once and only while its thread waits, and        *)
(* "accepted" follows the handled report (worker_client.py:22-58,          *)
(* servicer.py:210-275).                                                   *)
THEOREM DispatcherKeepsInterface == Spec => CallsKeepInterface
<1>1. Init => Interface!Init
  BY InitMaps
<1>2. CInv /\ [Next]_vars => [Interface!Next]_(Interface!vars)
  BY NextMaps DEF InterfaceStep
<1> QED BY <1>1, <1>2, CallInvariance, PTL DEF Spec, CallsKeepInterface, Interface!Spec

-----------------------------------------------------------------------------
(* The retries follow RetryProtocol. A task rests while it is in a queue,  *)
(* with a thread that has not begun its dispatch, or in the delay before a *)
(* retry; it is guarded while its timeout is being armed or may act.       *)

Delayed(t) == \E n \in Dispatches : timer[t][n] = "delay"
Rests(t)   == Waiting(t) \/ Delayed(t)

Phase(posted, rests, guarded) ==
  IF ~posted THEN "new" ELSE IF rests THEN "waiting" ELSE IF guarded THEN "sent" ELSE "over"

(* PhaseOf, before a step, as a function of three facts on the task.       *)
LEMMA PhaseBefore ==
  ASSUME NEW t PROVE PhaseOf(t) = Phase(Posted(t), Rests(t), Guarded(t))
<1>1. CASE ~Posted(t) BY <1>1 DEF PhaseOf, Phase
<1>2. CASE Posted(t) /\ Waiting(t) BY <1>2 DEF PhaseOf, Phase, Rests
<1>3. CASE Posted(t) /\ ~Waiting(t) /\ Delayed(t) BY <1>3 DEF PhaseOf, Phase, Rests, Delayed
<1>4. CASE Posted(t) /\ ~Waiting(t) /\ ~Delayed(t) BY <1>4 DEF PhaseOf, Phase, Rests, Delayed
<1> QED BY <1>1, <1>2, <1>3, <1>4

(* The same after a step.                                                  *)
LEMMA PhaseAfter ==
  ASSUME NEW t PROVE PhaseOf(t)' = Phase(Posted(t)', Rests(t)', Guarded(t)')
<1>1. CASE ~Posted(t)' BY <1>1 DEF PhaseOf, Phase
<1>2. CASE Posted(t)' /\ Waiting(t)' BY <1>2 DEF PhaseOf, Phase, Rests
<1>3. CASE Posted(t)' /\ ~Waiting(t)' /\ Delayed(t)' BY <1>3 DEF PhaseOf, Phase, Rests, Delayed
<1>4. CASE Posted(t)' /\ ~Waiting(t)' /\ ~Delayed(t)' BY <1>4 DEF PhaseOf, Phase, Rests, Delayed
<1> QED BY <1>1, <1>2, <1>3, <1>4

(* A task none of whose three facts changes stays in its phase.            *)
LEMMA PhaseKept ==
  ASSUME NEW t, Posted(t)' <=> Posted(t), Rests(t)' <=> Rests(t), Guarded(t)' <=> Guarded(t)
  PROVE  PhaseOf(t)' = PhaseOf(t)
BY PhaseBefore, PhaseAfter DEF Phase

Phases == [t \in Tasks |-> PhaseOf(t)]

ProtocolStep == Protocol!Next \/ UNCHANGED Protocol!vars

(* One task takes a step of the protocol.                                  *)
LEMMA PhasesUpdate ==
  ASSUME NEW t \in Tasks, NEW to, PhaseOf(t)' = to,
         \A u \in Tasks \ {t} : PhaseOf(u)' = PhaseOf(u)
  PROVE  Phases' = [Phases EXCEPT ![t] = to]
<1>1. \A u \in Tasks : PhaseOf(u)' = IF u = t THEN to ELSE PhaseOf(u)
  OBVIOUS
<1> QED BY <1>1 DEF Phases

(* One task moves to a phase the protocol allows.                          *)
LEMMA TaskMoves ==
  ASSUME NEW t \in Tasks, UNCHANGED dispatches,
         \A u \in Tasks \ {t} : PhaseOf(u)' = PhaseOf(u),
         \/ PhaseOf(t)' = PhaseOf(t)
         \/ PhaseOf(t) = "new" /\ PhaseOf(t)' = "waiting"
         \/ PhaseOf(t) \in {"waiting", "sent"} /\ PhaseOf(t)' = "over"
         \/ PhaseOf(t) = "sent" /\ PhaseOf(t)' = "waiting" /\ dispatches[t] < MaxRetries
  PROVE  ProtocolStep
<1>1. ASSUME PhaseOf(t)' = PhaseOf(t) PROVE ProtocolStep
  <2>1. \A u \in Tasks : PhaseOf(u)' = PhaseOf(u)
    BY <1>1
  <2>2. Phases' = Phases
    BY <2>1 DEF Phases
  <2> QED BY <2>2 DEF ProtocolStep, Protocol!vars, Phases
<1>2. ASSUME NEW from, NEW to, PhaseOf(t) = from, PhaseOf(t)' = to
      PROVE  Protocol!Move(t, from, to)
  <2>1. Phases' = [Phases EXCEPT ![t] = to]
    BY <1>2, PhasesUpdate
  <2>2. Phases[t] = from
    BY <1>2 DEF Phases
  <2> QED BY <2>1, <2>2 DEF Protocol!Move, Phases
<1>3. \/ PhaseOf(t)' = PhaseOf(t)
      \/ Protocol!Post(t) \/ Protocol!Leave(t) \/ Protocol!Expire(t)
  BY <1>2 DEF Protocol!Post, Protocol!Leave, Protocol!Expire
<1> QED BY <1>1, <1>3 DEF ProtocolStep, Protocol!Next

-----------------------------------------------------------------------------
(* A task at one place is at no other.                                     *)
LEMMA HoldingAlone ==
  ASSUME IInv, NEW p \in Pool, NEW t, t = cur[p], pc[p] \in Holding
  PROVE  /\ t \in Tasks /\ Posted(t) /\ ~InSeq(queue, t) /\ ~InSeq(jobs, t)
         /\ \A q \in Pool : pc[q] \in Holding /\ cur[q] = t => q = p
         /\ \A n \in Dispatches : timer[t][n] \notin Pending
<1>1. t \in Tasks
  BY TypeFacts DEF IInv
<1>2. Posted(t)
  BY <1>1 DEF IInv, Fresh, Posted
<1> QED BY <1>1, <1>2 DEF IInv, OneToken

(* A task guarded by a timer is at no other place.                         *)
LEMMA PendingAlone ==
  ASSUME IInv, NEW t \in Tasks, NEW n \in Dispatches, timer[t][n] \in Pending
  PROVE  /\ Posted(t) /\ ~InSeq(queue, t) /\ ~InSeq(jobs, t)
         /\ \A q \in Pool : pc[q] \in Holding => cur[q] # t
         /\ \A m \in Dispatches : timer[t][m] \in Pending => m = n
<1>1. Posted(t)
  BY DEF IInv, Fresh, Posted, Pending
<1> QED BY <1>1 DEF IInv, OneToken

(* A task in a queue is with no thread and no timer.                       *)
LEMMA QueuedAlone ==
  ASSUME IInv, NEW t \in Tasks, InSeq(queue, t) \/ InSeq(jobs, t)
  PROVE  /\ Posted(t)
         /\ \A q \in Pool : pc[q] \in Holding => cur[q] # t
         /\ \A m \in Dispatches : timer[t][m] \notin Pending
<1>1. Posted(t)
  BY DEF IInv, Fresh, Posted
<1> QED BY <1>1 DEF IInv, OneToken

(* Taking the head of a sequence keeps the other elements.                 *)
LEMMA TailKeeps ==
  ASSUME NEW S, NEW s \in Seq(S), s # <<>>, NEW u, u # Head(s)
  PROVE  InSeq(Tail(s), u) <=> InSeq(s, u)
<1> DEFINE r == Tail(s)  h == Head(s)
<1>1. /\ r \in Seq(S)
      /\ DOMAIN s = 1..Len(s) /\ Len(s) \in Nat \ {0}
      /\ DOMAIN r = 1..(Len(s) - 1)
      /\ \A i \in 1..(Len(s) - 1) : r[i] = s[i + 1]
      /\ h = s[1]
  OBVIOUS
<1> HIDE DEF r, h
<1>2. InSeq(r, u) => InSeq(s, u)
  BY <1>1 DEF InSeq
<1>3. ASSUME NEW i \in DOMAIN s, s[i] = u PROVE InSeq(r, u)
  <2>1. i # 1
    BY <1>1, <1>3 DEF h
  <2>2. i - 1 \in DOMAIN r /\ r[i - 1] = u
    BY <1>1, <1>3, <2>1
  <2> QED BY <2>2 DEF InSeq
<1>4. InSeq(s, u) => InSeq(r, u)
  BY <1>3 DEF InSeq
<1> QED BY <1>2, <1>4 DEF r

-----------------------------------------------------------------------------
(* A task whose places and timers a step does not touch keeps its phase.   *)
LEMMA PlacesKept ==
  ASSUME NEW u, status'[u] = "CREATED" <=> status[u] = "CREATED",
         InSeq(queue', u) <=> InSeq(queue, u), InSeq(jobs', u) <=> InSeq(jobs, u),
         \A q \in Pool : pc[q] \in Holding /\ cur[q] = u => pc'[q] = pc[q] /\ cur'[q] = u,
         \A q \in Pool : pc'[q] \in Holding /\ cur'[q] = u => pc'[q] = pc[q] /\ cur[q] = u,
         timer'[u] = timer[u]
  PROVE  PhaseOf(u)' = PhaseOf(u)
<1>1. Posted(u)' <=> Posted(u)
  BY DEF Posted
<1>2. (\E q \in Pool : cur'[q] = u /\ pc'[q] \in Holding \ {"arm"})
        <=> (\E q \in Pool : cur[q] = u /\ pc[q] \in Holding \ {"arm"})
  OBVIOUS
<1>3. (\E q \in Pool : cur'[q] = u /\ pc'[q] = "arm") <=> (\E q \in Pool : cur[q] = u /\ pc[q] = "arm")
  BY DEF Holding
<1>4. Waiting(u)' <=> Waiting(u)
  BY <1>2 DEF Waiting
<1>5. Guarded(u)' <=> Guarded(u)
  BY <1>3 DEF Guarded
<1>6. Rests(u)' <=> Rests(u)
  BY <1>4 DEF Rests, Delayed
<1> QED BY <1>1, <1>5, <1>6, PhaseKept

(* Steps that touch no place and no timer at all.                          *)
LEMMA NoPhaseMoves ==
  ASSUME UNCHANGED <<queue, jobs, timer, dispatches>>, StaysPosted,
         \A q \in Pool : pc[q] \in Holding \/ pc'[q] \in Holding =>
            pc'[q] = pc[q] /\ cur'[q] = cur[q]
  PROVE  ProtocolStep
<1>1. \A u \in Tasks : PhaseOf(u)' = PhaseOf(u)
  BY PlacesKept DEF StaysPosted
<1>2. Phases' = Phases
  BY <1>1 DEF Phases
<1> QED BY <1>2 DEF ProtocolStep, Protocol!vars, Phases

(* PostTask is the post of the protocol.                                   *)
LEMMA PostTaskPosts ==
  ASSUME IInv, NEW t \in Tasks, PostTask(t) PROVE ProtocolStep
<1>1. /\ status[t] = "CREATED" /\ status'[t] = "QUEUED"
      /\ \A u \in Tasks \ {t} : status'[u] = status[u]
      /\ UNCHANGED <<jobs, pc, cur, timer, dispatches>>
  BY DEF PostTask, Set, IInv, TypeOK, threads
<1>2. \A u : InSeq(queue', u) <=> InSeq(queue, u) \/ u = t
  BY AppendFacts DEF PostTask, IInv, TypeOK
<1>3. \A u \in Tasks \ {t} : PhaseOf(u)' = PhaseOf(u)
  BY <1>1, <1>2, PlacesKept
<1>4. PhaseOf(t) = "new"
  BY <1>1, PhaseBefore DEF Phase, Posted
<1>5. PhaseOf(t)' = "waiting"
  <2>1. Posted(t)' /\ Rests(t)'
    BY <1>1, <1>2 DEF Posted, Rests, Waiting
  <2> QED BY <2>1, PhaseAfter DEF Phase
<1> QED BY <1>1, <1>3, <1>4, <1>5, TaskMoves

(* The loop hands the task on, or drops it: then it is over.               *)
LEMMA RunLoopMoves ==
  ASSUME IInv, RunLoop PROVE ProtocolStep
<1>c. PICK t \in Tasks : t = Head(queue)
  BY TailFacts DEF RunLoop, IInv, TypeOK
<1>1. /\ InSeq(queue, t) /\ ~InSeq(queue', t)
      /\ \A u : u # t => (InSeq(queue', u) <=> InSeq(queue, u))
  BY <1>c, TailFacts, TailKeeps DEF RunLoop, IInv, TypeOK, OneToken
<1>2. /\ jobs' = jobs \/ InSeq(jobs', t)
      /\ \A u : u # t => (InSeq(jobs', u) <=> InSeq(jobs, u))
  BY <1>c, AppendFacts DEF RunLoop, IInv, TypeOK
<1>3. UNCHANGED <<status, pc, cur, timer, dispatches>>
  BY DEF RunLoop, task, threads
<1>4. \A u \in Tasks \ {t} : PhaseOf(u)' = PhaseOf(u)
  BY <1>1, <1>2, <1>3, PlacesKept
<1>5. /\ Posted(t) /\ \A q \in Pool : pc[q] \in Holding => cur[q] # t
      /\ \A m \in Dispatches : timer[t][m] \notin Pending
  BY <1>1, QueuedAlone
<1>6. ~InSeq(jobs, t)
  BY <1>1 DEF IInv, OneToken
<1>7. PhaseOf(t) = "waiting"
  <2>1. Rests(t)
    BY <1>1 DEF Rests, Waiting
  <2> QED BY <1>5, <2>1, PhaseBefore DEF Phase
<1>8. PhaseOf(t)' \in {"waiting", "over"}
  <2>1. Posted(t)'
    BY <1>3, <1>5 DEF Posted
  <2>2. ~Guarded(t)'
    BY <1>3, <1>5 DEF Guarded, Holding
  <2> QED BY <2>1, <2>2, PhaseAfter DEF Phase
<1> QED BY <1>3, <1>4, <1>7, <1>8, TaskMoves

(* A pool thread takes the task.                                           *)
LEMMA StartJobMoves ==
  ASSUME IInv, NEW p \in Pool, StartJob(p) PROVE ProtocolStep
<1>c. PICK t \in Tasks : t = Head(jobs)
  BY TailFacts DEF StartJob, IInv, TypeOK
<1>1. /\ InSeq(jobs, t)
      /\ \A u : u # t => (InSeq(jobs', u) <=> InSeq(jobs, u))
  BY <1>c, TailFacts, TailKeeps DEF StartJob, IInv, TypeOK
<1>2. /\ pc[p] = "idle" /\ pc'[p] = "lookup" /\ cur'[p] = t
      /\ \A q \in Pool : q # p => pc'[q] = pc[q] /\ cur'[q] = cur[q]
      /\ UNCHANGED <<status, queue, timer, dispatches>>
  BY <1>c DEF StartJob, IInv, TypeOK, task
<1>3. \A u \in Tasks \ {t} : PhaseOf(u)' = PhaseOf(u)
  BY <1>1, <1>2, PlacesKept DEF Holding
<1>4. PhaseOf(t) = "waiting"
  <2>1. Posted(t) /\ Rests(t)
    BY <1>1, QueuedAlone DEF Rests, Waiting
  <2> QED BY <2>1, PhaseBefore DEF Phase
<1>5. PhaseOf(t)' = "waiting"
  <2>1. Posted(t)'
    BY <1>1, <1>2, QueuedAlone DEF Posted
  <2>2. Rests(t)'
    BY <1>2 DEF Rests, Waiting, Holding
  <2> QED BY <2>1, <2>2, PhaseAfter DEF Phase
<1> QED BY <1>2, <1>3, <1>4, <1>5, TaskMoves

(* A thread that prepares a dispatch goes on, gives its task back or drops *)
(* it.                                                                     *)
LEMMA HoldingMoves ==
  ASSUME IInv, NEW p \in Pool, pc[p] \in Holding \ {"arm"},
         \A q \in Pool : q # p => pc'[q] = pc[q] /\ cur'[q] = cur[q],
         \/ pc'[p] \in Holding \ {"arm"} /\ cur'[p] = cur[p]
         \/ pc'[p] = "idle",
         \/ queue' = queue
         \/ queue' = Append(queue, cur[p]),
         UNCHANGED <<status, jobs, timer, dispatches>>
  PROVE  ProtocolStep
<1>c. PICK t \in Tasks : t = cur[p]
  BY TypeFacts DEF IInv
<1>1. /\ Posted(t) /\ ~InSeq(queue, t) /\ ~InSeq(jobs, t)
      /\ \A q \in Pool : pc[q] \in Holding /\ cur[q] = t => q = p
      /\ \A n \in Dispatches : timer[t][n] \notin Pending
  BY <1>c, HoldingAlone
<1>2. \A u : u # t => (InSeq(queue', u) <=> InSeq(queue, u))
  <2>1. queue \in Seq(Tasks)
    BY DEF IInv, TypeOK
  <2>2. CASE queue' = Append(queue, t)
    BY <2>1, <2>2, AppendFacts
  <2> QED BY <1>c, <2>2
<1>3. \A u \in Tasks \ {t} : PhaseOf(u)' = PhaseOf(u)
  BY <1>2, <1>c, PlacesKept DEF Holding
<1>4. PhaseOf(t) = "waiting"
  <2>1. Rests(t)
    BY <1>c DEF Rests, Waiting
  <2> QED BY <1>1, <2>1, PhaseBefore DEF Phase
<1>5. PhaseOf(t)' \in {"waiting", "over"}
  <2>1. Posted(t)'
    BY <1>1 DEF Posted
  <2>2. ~Guarded(t)'
    BY <1>1, <1>c DEF Guarded, Holding
  <2> QED BY <2>1, <2>2, PhaseAfter DEF Phase
<1> QED BY <1>3, <1>4, <1>5, TaskMoves

(* The task is sent: its dispatch is counted.                              *)
LEMMA SetDispatchedSends ==
  ASSUME IInv, NEW p \in Pool, SetDispatched(p) PROVE ProtocolStep
<1>c. PICK t \in Tasks : t = cur[p]
  BY TypeFacts DEF IInv, SetDispatched, Holding
<1>0. /\ pc[p] = "setDispatched" /\ pc'[p] = "arm" /\ cur' = cur
      /\ \A q \in Pool : q # p => pc'[q] = pc[q]
      /\ status'[t] = "DISPATCHED" /\ \A u \in Tasks \ {t} : status'[u] = status[u]
      /\ dispatches' = [dispatches EXCEPT ![t] = @ + 1]
      /\ UNCHANGED <<queue, jobs, timer>>
  BY <1>c DEF SetDispatched, IInv, TypeOK
<1>1. /\ Posted(t) /\ ~InSeq(queue, t) /\ ~InSeq(jobs, t)
      /\ \A q \in Pool : pc[q] \in Holding /\ cur[q] = t => q = p
      /\ \A n \in Dispatches : timer[t][n] \notin Pending
  BY <1>0, <1>c, HoldingAlone DEF Holding
<1>2. \A u \in Tasks \ {t} : PhaseOf(u)' = PhaseOf(u)
  BY <1>0, <1>c, PlacesKept DEF Holding
<1>3. PhaseOf(t) = "waiting"
  <2>1. Rests(t)
    BY <1>0, <1>c DEF Rests, Waiting, Holding
  <2> QED BY <1>1, <2>1, PhaseBefore DEF Phase
<1>4. PhaseOf(t)' = "sent"
  <2>1. Posted(t)' /\ Guarded(t)'
    BY <1>0, <1>c DEF Posted, Guarded
  <2>2. ~Waiting(t)'
    BY <1>0, <1>1 DEF Waiting, Holding
  <2>3. ~Delayed(t)'
    BY <1>0, <1>1 DEF Delayed, Pending, TimerPC
  <2> QED BY <2>1, <2>2, <2>3, PhaseAfter DEF Phase, Rests
<1>5. dispatches[t] < MaxRetries
  BY <1>0, <1>c DEF IInv, Counters, Between, Holding
<1>6. Phases' = [Phases EXCEPT ![t] = "sent"] /\ Phases[t] = "waiting"
  <2>1. Phases' = [Phases EXCEPT ![t] = "sent"]
    BY <1>2, <1>4, PhasesUpdate
  <2> QED BY <1>3, <2>1 DEF Phases
<1>7. Protocol!Send(t)
  BY <1>0, <1>5, <1>6 DEF Protocol!Send, Protocol!Move, Phases
<1> QED BY <1>7 DEF ProtocolStep, Protocol!Next

(* The guard passes from the thread to the timer it arms.                  *)
LEMMA ArmAndSendMoves ==
  ASSUME IInv, NEW p \in Pool, ArmAndSend(p) PROVE ProtocolStep
<1>c. PICK t \in Tasks, n \in Dispatches : t = cur[p] /\ n = no[p]
  BY ArmAndSendFacts
<1>0. /\ pc[p] = "arm" /\ pc'[p] = "wait" /\ cur' = cur
      /\ \A q \in Pool : q # p => pc'[q] = pc[q]
      /\ timer'[t][n] = "armed"
      /\ \A m \in Dispatches \ {n} : timer'[t][m] = timer[t][m]
      /\ \A u \in Tasks \ {t} : timer'[u] = timer[u]
      /\ UNCHANGED <<status, queue, jobs, dispatches>>
  <2>1. timer' = [timer EXCEPT ![t][n] = "armed"] /\ timer \in [Tasks -> [Dispatches -> TimerPC]]
    BY <1>c DEF ArmAndSend, IInv, TypeOK
  <2>2. /\ pc[p] = "arm" /\ pc'[p] = "wait" /\ cur' = cur
        /\ \A q \in Pool : q # p => pc'[q] = pc[q]
    BY ArmAndSendFacts
  <2>3. UNCHANGED <<status, queue, jobs, dispatches>>
    BY DEF ArmAndSend, task
  <2> QED BY <2>1, <2>2, <2>3
<1>1. /\ Posted(t) /\ ~InSeq(queue, t) /\ ~InSeq(jobs, t)
      /\ \A q \in Pool : pc[q] \in Holding /\ cur[q] = t => q = p
      /\ \A m \in Dispatches : timer[t][m] \notin Pending
  BY <1>0, <1>c, HoldingAlone DEF Holding
<1>2. \A u \in Tasks \ {t} : PhaseOf(u)' = PhaseOf(u)
  BY <1>0, <1>c, PlacesKept DEF Holding
<1>3. Posted(t)' <=> Posted(t)
  BY <1>0 DEF Posted
<1>4. Guarded(t) /\ Guarded(t)'
  BY <1>0, <1>c DEF Guarded, Pending, TimerPC
<1>5. ~Waiting(t) /\ ~Waiting(t)'
  BY <1>0, <1>1 DEF Waiting, Holding
<1>6. ~Delayed(t) /\ ~Delayed(t)'
  BY <1>0, <1>1 DEF Delayed, Pending, TimerPC
<1>7. PhaseOf(t)' = PhaseOf(t)
  BY <1>3, <1>4, <1>5, <1>6, PhaseKept DEF Rests
<1> QED BY <1>0, <1>2, <1>7, TaskMoves

(* Cancelling an armed timer settles the task: nothing sends it again.     *)
LEMMA CancelMoves ==
  ASSUME IInv, NEW t \in Tasks, CancelTimeout(t), UNCHANGED <<status, queue, jobs, dispatches>>,
         \A q \in Pool : pc[q] \in Holding \/ pc'[q] \in Holding =>
            pc'[q] = pc[q] /\ cur'[q] = cur[q]
  PROVE  ProtocolStep
<1>1. CASE timer' = timer
  BY <1>1, NoPhaseMoves DEF StaysPosted
<1>2. CASE timers[t] # 0 /\ timer[t][timers[t]] = "armed"
  <2>c. PICK n \in Dispatches : n = timers[t]
    BY <1>2, RetriesAssumption DEF IInv, TypeOK, Dispatches
  <2>0. timer' = [timer EXCEPT ![t][n] = "done"] /\ timer \in [Tasks -> [Dispatches -> TimerPC]]
    BY <1>2, <2>c DEF CancelTimeout, IInv, TypeOK
  <2>1. /\ timer[t][n] = "armed" /\ timer'[t][n] = "done"
        /\ \A m \in Dispatches \ {n} : timer'[t][m] = timer[t][m]
        /\ \A u \in Tasks \ {t} : timer'[u] = timer[u]
    BY <1>2, <2>c, <2>0
  <2>2. /\ Posted(t) /\ ~InSeq(queue, t) /\ ~InSeq(jobs, t)
        /\ \A q \in Pool : pc[q] \in Holding => cur[q] # t
        /\ \A m \in Dispatches : timer[t][m] \in Pending => m = n
    BY <2>1, PendingAlone DEF Pending, TimerPC
  <2>3. \A u \in Tasks \ {t} : PhaseOf(u)' = PhaseOf(u)
    BY <2>1, PlacesKept
  <2>4. PhaseOf(t) = "sent"
    <3>1. Guarded(t) /\ ~Waiting(t) /\ ~Delayed(t)
      BY <2>1, <2>2 DEF Guarded, Waiting, Delayed, Pending, TimerPC
    <3> QED BY <2>2, <3>1, PhaseBefore DEF Phase, Rests
  <2>5. PhaseOf(t)' = "over"
    <3>1. Posted(t)'
      BY <2>2 DEF Posted
    <3>2. ~Guarded(t)'
      BY <2>1, <2>2 DEF Guarded, Pending, Holding
    <3>3. ~Waiting(t)' /\ ~Delayed(t)'
      BY <2>1, <2>2 DEF Waiting, Delayed, Pending, TimerPC
    <3> QED BY <3>1, <3>2, <3>3, PhaseAfter DEF Phase, Rests
  <2> QED BY <2>3, <2>4, <2>5, TaskMoves
<1> QED BY <1>1, <1>2 DEF CancelTimeout

(* Every step of a pool thread follows the protocol.                       *)
LEMMA PoolStepFollows ==
  ASSUME IInv, NEW p \in Pool, PoolStep(p) PROVE ProtocolStep
(* A thread that has sent its task away.                                   *)
<1>a. ASSUME NEW from, NEW to, from \notin Holding, to \notin Holding, PoolGoto(p, from, to)
      PROVE  \A q \in Pool : pc[q] \in Holding \/ pc'[q] \in Holding =>
                pc'[q] = pc[q] /\ cur'[q] = cur[q]
  BY <1>a, PoolGotoFacts
<1>b. ASSUME NEW from, NEW to, from \notin Holding, to \notin Holding, PoolGoto(p, from, to), Local
      PROVE  ProtocolStep
  BY <1>a, <1>b, NoPhaseMoves DEF Local, task, StaysPosted
<1>c. ASSUME NEW from, from \notin Holding \cup {"idle"}, PoolGoto(p, from, "idle"),
             NEW new \in TaskState \ {"CREATED"}, Set(cur[p], new), UNCHANGED <<queue, jobs, timer>>
      PROVE  ProtocolStep
  <2>1. cur[p] \in Tasks /\ status[cur[p]] # "CREATED"
    BY <1>c DEF IInv, TypeOK, Fresh, PoolGoto
  <2>2. StaysPosted
    BY <1>c, <2>1 DEF IInv, TypeOK, StaysPosted, Set
  <2>3. "idle" \notin Holding
    BY DEF Holding
  <2> QED BY <1>a, <1>c, <2>2, <2>3, NoPhaseMoves DEF Set
(* A thread that prepares a dispatch.                                      *)
<1>d. ASSUME NEW from, NEW to, from \in Holding \ {"arm"}, to \in (Holding \ {"arm"}) \cup {"idle"},
             PoolGoto(p, from, to), queue' \in {queue, Append(queue, cur[p])},
             UNCHANGED <<status, jobs, timer, dispatches>>
      PROVE  ProtocolStep
  <2>1. /\ pc[p] = from /\ pc'[p] = to /\ (to # "idle" => cur'[p] = cur[p])
        /\ \A q \in Pool : q # p => pc'[q] = pc[q] /\ cur'[q] = cur[q]
    BY <1>d, PoolGotoFacts
  <2>2. "idle" \notin Holding
    BY DEF Holding
  <2> QED BY <1>d, <2>1, <2>2, HoldingMoves
<1> USE DEF Holding
<1>1. CASE StartJob(p) BY <1>1, StartJobMoves
<1>2. CASE SelectWorker(p) BY <1>2, <1>d DEF SelectWorker, Local, task
<1>3. CASE NoWorker(p) BY <1>3, <1>d DEF NoWorker, Local, task
<1>4. CASE RequeueUnserved(p) BY <1>4, <1>d DEF RequeueUnserved, task
<1>5. CASE CheckDispatched(p) BY <1>5, <1>d DEF CheckDispatched, PoolCheck, Local, task
<1>6. CASE SetDispatched(p) BY <1>6, SetDispatchedSends
<1>7. CASE ArmAndSend(p) BY <1>7, ArmAndSendMoves
<1>8. CASE RpcAccepted(p) BY <1>8, <1>b DEF RpcAccepted
<1>9. CASE RpcRefused(p) BY <1>9, <1>b DEF RpcRefused
<1>10. CASE RpcError(p) BY <1>10, <1>b DEF RpcError
<1>11. CASE CheckProcessing(p) BY <1>11, <1>b DEF CheckProcessing, PoolCheck
<1>12. CASE SetProcessing(p) BY <1>12, <1>c DEF SetProcessing, TaskState
<1>13. CASE CancelRefused(p)
  <2>1. \A q \in Pool : pc[q] \in Holding \/ pc'[q] \in Holding =>
           pc'[q] = pc[q] /\ cur'[q] = cur[q]
    BY <1>13, PoolGotoFacts DEF CancelRefused
  <2>2. PICK t \in Tasks : t = cur[p]
    BY <1>13 DEF CancelRefused, PoolGoto, IInv, TypeOK
  <2> QED BY <1>13, <2>1, <2>2, CancelMoves DEF CancelRefused, task
<1>14. CASE CheckFailed(p) BY <1>14, <1>b DEF CheckFailed, PoolCheck
<1>15. CASE SetFailed(p) BY <1>15, <1>c DEF SetFailed, TaskState
<1> QED BY <1>1, <1>2, <1>3, <1>4, <1>5, <1>6, <1>7, <1>8, <1>9, <1>10, <1>11,
           <1>12, <1>13, <1>14, <1>15 DEF PoolStep

(* A timer that goes on guards its task, one that ends gives it up, one    *)
(* that expires puts it back.                                              *)
LEMMA TimerMoves ==
  ASSUME IInv, NEW t \in Tasks, NEW n \in Dispatches, NEW from, NEW to,
         from \in Pending, TimerGoto(t, n, from, to), StaysPosted, UNCHANGED dispatches,
         \/ from # "delay" /\ to # "delay" /\ queue' = queue
         \/ from = "count" /\ to = "delay" /\ queue' = queue /\ dispatches[t] < MaxRetries
         \/ from = "delay" /\ to = "done" /\ queue' = Append(queue, t)
  PROVE  ProtocolStep
<1>1. /\ timer[t][n] = from /\ timer'[t][n] = to
      /\ \A m \in Dispatches \ {n} : timer'[t][m] = timer[t][m]
      /\ \A u \in Tasks \ {t} : timer'[u] = timer[u]
      /\ UNCHANGED <<jobs, pc, cur>>
  BY DEF TimerGoto, IInv, TypeOK, threads
<1>2. /\ Posted(t) /\ ~InSeq(queue, t) /\ ~InSeq(jobs, t)
      /\ \A q \in Pool : pc[q] \in Holding => cur[q] # t
      /\ \A m \in Dispatches : timer[t][m] \in Pending => m = n
  BY <1>1, PendingAlone
<1>3. \A u : u # t => (InSeq(queue', u) <=> InSeq(queue, u))
  <2>1. queue \in Seq(Tasks)
    BY DEF IInv, TypeOK
  <2>2. CASE queue' = Append(queue, t)
    BY <2>1, <2>2, AppendFacts
  <2>3. CASE queue' = queue
    BY <2>3
  <2> QED BY <2>2, <2>3
<1>4. \A u \in Tasks \ {t} : PhaseOf(u)' = PhaseOf(u)
  BY <1>1, <1>3, PlacesKept DEF StaysPosted
<1>5. Posted(t)'
  BY <1>2 DEF Posted, StaysPosted
<1>6. ~Waiting(t)
  BY <1>2 DEF Waiting
<1>7. Guarded(t)
  BY <1>1 DEF Guarded
<1>8. CASE from # "delay" /\ to # "delay" /\ queue' = queue
  <2>1. ~Delayed(t) /\ ~Delayed(t)'
    BY <1>1, <1>2, <1>8 DEF Delayed, Pending, TimerPC
  <2>2. ~Waiting(t)'
    BY <1>1, <1>2, <1>8 DEF Waiting
  <2>3. PhaseOf(t) = "sent"
    BY <1>2, <1>6, <1>7, <2>1, PhaseBefore DEF Phase, Rests
  <2>4. PhaseOf(t)' \in {"sent", "over"}
    BY <1>5, <2>1, <2>2, PhaseAfter DEF Phase, Rests
  <2> QED BY <1>4, <2>3, <2>4, TaskMoves
<1>9. CASE from = "count" /\ to = "delay" /\ queue' = queue /\ dispatches[t] < MaxRetries
  <2>1. ~Delayed(t) /\ Delayed(t)'
    BY <1>1, <1>2, <1>9 DEF Delayed, Pending, TimerPC
  <2>2. PhaseOf(t) = "sent"
    BY <1>2, <1>6, <1>7, <2>1, PhaseBefore DEF Phase, Rests
  <2>3. PhaseOf(t)' = "waiting"
    BY <1>5, <2>1, PhaseAfter DEF Phase, Rests
  <2> QED BY <1>4, <1>9, <2>2, <2>3, TaskMoves
<1>10. CASE from = "delay" /\ to = "done" /\ queue' = Append(queue, t)
  <2>1. InSeq(queue', t)
    <3>1. queue \in Seq(Tasks)
      BY DEF IInv, TypeOK
    <3> QED BY <1>10, <3>1, AppendFacts
  <2>2. Delayed(t) /\ Waiting(t)'
    BY <1>1, <1>10, <2>1 DEF Delayed, Waiting
  <2>3. PhaseOf(t) = "waiting"
    BY <1>2, <2>2, PhaseBefore DEF Phase, Rests
  <2>4. PhaseOf(t)' = "waiting"
    BY <1>5, <2>2, PhaseAfter DEF Phase, Rests
  <2> QED BY <1>4, <2>3, <2>4, TaskMoves
<1> QED BY <1>8, <1>9, <1>10

(* Of the timer callback, the protocol sees the start of the delay (the    *)
(* task waits again) and giving the task up.                               *)
LEMMA TimerStepFollows ==
  ASSUME IInv, NEW t \in Tasks, NEW n \in Dispatches, TimerStep(t, n) PROVE ProtocolStep
<1>b. ASSUME NEW from, NEW to, TimerGoto(t, n, from, to), UNCHANGED <<task, queue>>,
             from \in Pending \ {"delay"}, to # "delay"
      PROVE  ProtocolStep
  BY <1>b, TimerMoves DEF task, StaysPosted
<1>c. ASSUME NEW from, NEW to, TimerGoto(t, n, from, to), UNCHANGED queue,
             from \in Pending \ {"delay"}, to # "delay",
             NEW new \in TaskState \ {"CREATED"}, Set(t, new)
      PROVE  ProtocolStep
  <2>1. status[t] # "CREATED"
    BY <1>c DEF IInv, Fresh, TimerGoto, Pending
  <2>2. StaysPosted
    BY <1>c, <2>1 DEF IInv, TypeOK, StaysPosted, Set
  <2> QED BY <1>c, <2>2, TimerMoves DEF Set
<1> USE DEF Pending, TimerPC, TaskState
<1>1. CASE TimerFires(t, n) BY <1>1, <1>b DEF TimerFires
<1>2. CASE TimerGate(t, n) BY <1>2, <1>b DEF TimerGate
<1>3. CASE TimerCheckTimeout(t, n) BY <1>3, <1>b DEF TimerCheckTimeout
<1>4. CASE TimerSetTimeout(t, n) BY <1>4, <1>c DEF TimerSetTimeout
<1>5. CASE TimerCheckRetrying(t, n) BY <1>5, <1>b DEF TimerCheckRetrying
<1>6. CASE TimerSetRetrying(t, n) BY <1>6, <1>c DEF TimerSetRetrying
<1>7. CASE TimerCount(t, n)
  <2>1. /\ StaysPosted /\ UNCHANGED <<dispatches, queue>>
        /\ TimerGoto(t, n, "count", IF retry_count[t] + 1 >= MaxRetries THEN "checkFailed" ELSE "delay")
    BY <1>7 DEF TimerCount, StaysPosted
  <2>2. timer[t][n] = "count" /\ retry_count[t] \in Nat
    BY <2>1 DEF TimerGoto, IInv, TypeOK
  <2>3. dispatches[t] = retry_count[t] + 1
    BY <2>2 DEF IInv, Counters, Uncounted
  <2>4. CASE retry_count[t] + 1 >= MaxRetries
    <3>1. TimerGoto(t, n, "count", "checkFailed")
      BY <2>1, <2>4
    <3> QED BY <2>1, <3>1, TimerMoves
  <2>5. CASE ~(retry_count[t] + 1 >= MaxRetries)
    <3>1. TimerGoto(t, n, "count", "delay")
      BY <2>1, <2>5
    <3>2. dispatches[t] < MaxRetries
      BY <2>2, <2>3, <2>5, RetriesAssumption
    <3> QED BY <2>1, <3>1, <3>2, TimerMoves
  <2> QED BY <2>4, <2>5
<1>8. CASE TimerCheckFailed(t, n) BY <1>8, <1>b DEF TimerCheckFailed
<1>9. CASE TimerSetFailed(t, n) BY <1>9, <1>c DEF TimerSetFailed
<1>10. CASE TimerReenqueue(t, n)
  BY <1>10, TimerMoves DEF TimerReenqueue, task, StaysPosted
<1> QED BY <1>1, <1>2, <1>3, <1>4, <1>5, <1>6, <1>7, <1>8, <1>9, <1>10 DEF TimerStep

(* ReturnResult takes a task away from its timer, and does nothing else    *)
(* the protocol sees.                                                      *)
LEMMA ReportFollows ==
  ASSUME IInv, NEW t \in Tasks, NEW n \in Dispatches, NEW o \in Outcome,
         ReportArrives(t, n, o) \/ ReportStep(t, n, o)
  PROVE  ProtocolStep
<1>1. UNCHANGED <<queue, jobs, pc, cur, dispatches>>
  BY ReportFacts
<1>2. CASE ReportCancel(t, n, o)
  BY <1>1, <1>2, CancelMoves DEF ReportCancel, task
<1>3. CASE ~ReportCancel(t, n, o)
  <2>1. timer' = timer
    BY <1>3 DEF ReportArrives, ReportStep, ReportGate, ReportRead,
         ReportCheckProcessing, ReportSetProcessing, ReportCheckOutcome, ReportSetOutcome,
         ReportStore
  <2>2. status[t] # "CREATED"
    BY DEF IInv, Fresh, ReportArrives, ReportStep, ReportGate, ReportCancel, ReportRead,
         ReportCheckProcessing, ReportSetProcessing, ReportCheckOutcome,
         ReportSetOutcome, ReportStore, ReportGoto
  <2>3. \/ status' = status
        \/ \E new \in TaskState \ {"CREATED"} : status' = [status EXCEPT ![t] = new]
    BY <1>3 DEF ReportArrives, ReportStep, ReportGate, ReportRead,
         ReportCheckProcessing, ReportSetProcessing, ReportCheckOutcome, ReportSetOutcome,
         ReportStore, Set, task, TaskState, Outcome
  <2>4. StaysPosted
    BY <2>2, <2>3 DEF IInv, TypeOK, StaysPosted
  <2> QED BY <1>1, <2>1, <2>4, NoPhaseMoves
<1> QED BY <1>2, <1>3

(* Every step of the dispatcher is a step of the protocol or hidden.       *)
LEMMA NextFollows == IInv /\ [Next]_vars => ProtocolStep
<1> SUFFICES ASSUME IInv, [Next]_vars PROVE ProtocolStep
  OBVIOUS
<1>1. ASSUME NEW t \in Tasks, NEW n \in Dispatches, WorkerStep(t, n) PROVE ProtocolStep
  BY <1>1, NoPhaseMoves DEF WorkerStep, WorkerSends, WorkerSendFails, WorkerAnswers, CallGoto,
          task, threads, StaysPosted
<1>2. CASE UNCHANGED vars
  BY <1>2, NoPhaseMoves DEF vars, task, threads, StaysPosted
<1> QED BY <1>1, <1>2, PostTaskPosts, RunLoopMoves, PoolStepFollows, TimerStepFollows,
           ReportFollows DEF Next, Rest

(* However workers, timeouts, retries and the races on the status go: the  *)
(* dispatcher implements the retry protocol. A task is sent again only     *)
(* after the timeout of the dispatch before expired, at most MaxRetries    *)
(* times, and never once it was settled or dropped                         *)
(* (dispatch_loop.py:87-235).                                              *)
THEOREM RetriesImplementProtocol == Spec => RetriesFollowProtocol
<1>1. Init => Protocol!Init
  <2> SUFFICES ASSUME Init PROVE Protocol!Init
    OBVIOUS
  <2>1. \A t \in Tasks : PhaseOf(t) = "new"
    BY PhaseBefore DEF Init, Phase, Posted
  <2> QED BY <2>1 DEF Init, Protocol!Init
<1>2. IInv /\ [Next]_vars => [Protocol!Next]_(Protocol!vars)
  BY NextFollows DEF ProtocolStep
<1> QED BY <1>1, <1>2, Invariance, PTL DEF Spec, RetriesFollowProtocol, Protocol!Spec
=============================================================================
