-------------------------- MODULE DispatcherProofs --------------------------
(***************************************************************************)
(* Proofs about the dispatcher, for any sets of tasks and threads, any     *)
(* MaxRetries > 0 and either order of deadline and timeout.                *)
(***************************************************************************)
EXTENDS DispatcherProperties, TLAPS

-----------------------------------------------------------------------------
(* Appending an element that a sequence without repetitions does not hold  *)
(* keeps it without repetitions (TaskQueue.enqueue, Executor.submit).      *)
LEMMA AppendFacts ==
  ASSUME NEW S, NEW s \in Seq(S), NEW t \in S
  PROVE  /\ Append(s, t) \in Seq(S)
         /\ \A u : InSeq(Append(s, t), u) <=> InSeq(s, u) \/ u = t
         /\ Distinct(s) /\ ~InSeq(s, t) => Distinct(Append(s, t))
<1> DEFINE a == Append(s, t)
<1>1. /\ a \in Seq(S)
      /\ DOMAIN s = 1..Len(s) /\ Len(s) \in Nat
      /\ DOMAIN a = 1..(Len(s) + 1)
      /\ \A i \in 1..Len(s) : a[i] = s[i]
      /\ a[Len(s) + 1] = t
  OBVIOUS
<1>2. ASSUME NEW u PROVE InSeq(a, u) <=> InSeq(s, u) \/ u = t
  <2> HIDE DEF a
  <2> QED BY <1>1 DEF InSeq
<1>3. Distinct(s) /\ ~InSeq(s, t) => Distinct(a)
  <2> HIDE DEF a
  <2> QED BY <1>1 DEF InSeq, Distinct
<1> QED BY <1>1, <1>2, <1>3

(* Taking the head of a sequence without repetitions leaves a sequence     *)
(* without it (TaskQueue.dequeue, a pool thread that starts a job).        *)
LEMMA TailFacts ==
  ASSUME NEW S, NEW s \in Seq(S), s # <<>>
  PROVE  /\ Head(s) \in S /\ Tail(s) \in Seq(S)
         /\ InSeq(s, Head(s))
         /\ \A u : InSeq(Tail(s), u) => InSeq(s, u)
         /\ Distinct(s) => Distinct(Tail(s)) /\ ~InSeq(Tail(s), Head(s))
<1> DEFINE r == Tail(s)  h == Head(s)
<1>1. /\ h \in S /\ r \in Seq(S)
      /\ DOMAIN s = 1..Len(s) /\ Len(s) \in Nat \ {0}
      /\ DOMAIN r = 1..(Len(s) - 1)
      /\ \A i \in 1..(Len(s) - 1) : r[i] = s[i + 1]
      /\ h = s[1]
  OBVIOUS
<1> HIDE DEF r, h
<1>2. InSeq(s, h) BY <1>1 DEF InSeq
<1>3. \A u : InSeq(r, u) => InSeq(s, u) BY <1>1 DEF InSeq
<1>4. ASSUME Distinct(s), NEW i \in DOMAIN r, NEW j \in DOMAIN r, r[i] = r[j]
      PROVE  i = j
  <2>1. s[i + 1] = s[j + 1] /\ i + 1 \in DOMAIN s /\ j + 1 \in DOMAIN s
    BY <1>1, <1>4
  <2> QED BY <2>1, <1>1, <1>4 DEF Distinct
<1>5. Distinct(s) => ~InSeq(r, h) BY <1>1 DEF Distinct, InSeq
<1> QED BY <1>1, <1>2, <1>3, <1>4, <1>5 DEF r, h, Distinct
-----------------------------------------------------------------------------
(* The inductive invariant. OneToken and RetryBudget are not inductive:    *)
(* whether a place may put a task back depends on which dispatch it stands *)
(* for, so each place says how far the counters of its task are.           *)

(* Nobody works on a task that was not posted.                             *)
Fresh ==
  \A t \in Tasks : status[t] = "CREATED" =>
    /\ ~InSeq(queue, t) /\ ~InSeq(jobs, t)
    /\ \A p \in Pool : cur[p] # t
    /\ dispatches[t] = 0 /\ retry_count[t] = 0
    /\ \A n \in Dispatches :
         /\ timer[t][n] = "none" /\ call[t][n] = "none"
         /\ \A o \in Outcome : report[t][n][o] = "none"

Uncounted == {"armed", "gate", "checkTimeout", "setTimeout", "checkRetrying",
              "setRetrying", "count"}

Between(t) == dispatches[t] = retry_count[t] /\ retry_count[t] < MaxRetries

Counters ==
  /\ \A t \in Tasks :
       /\ retry_count[t] <= dispatches[t]
       /\ dispatches[t] <= retry_count[t] + 1
       /\ dispatches[t] <= MaxRetries
  /\ \A t \in Tasks : InSeq(queue, t) \/ InSeq(jobs, t) => Between(t)
  /\ \A p \in Pool : pc[p] \in Holding \ {"arm"} => Between(cur[p])
  /\ \A p \in Pool : pc[p] = "arm" =>
       no[p] = dispatches[cur[p]] /\ dispatches[cur[p]] = retry_count[cur[p]] + 1
  /\ \A t \in Tasks, n \in Dispatches : timer[t][n] \in Uncounted =>
       n = dispatches[t] /\ dispatches[t] = retry_count[t] + 1
  /\ \A t \in Tasks, n \in Dispatches : timer[t][n] = "delay" => Between(t)

IInv == TypeOK /\ Fresh /\ OneToken /\ Counters /\ ArmedIsRegistered

-----------------------------------------------------------------------------
(* Nothing has been posted, so nothing is scheduled.                       *)
LEMMA InitIInv == Init => IInv
<1> USE TasksAssumption, RetriesAssumption
<1> SUFFICES ASSUME Init PROVE IInv
  OBVIOUS
<1>1. TypeOK
  <2>1. /\ status \in [Tasks -> TaskState] /\ retry_count \in [Tasks -> Nat]
        /\ result \in [Tasks -> Outcome \cup {NoResult}] /\ dispatches \in [Tasks -> Nat]
    BY DEF Init, TaskState
  <2>2. queue \in Seq(Tasks) /\ jobs \in Seq(Tasks)
    BY DEF Init
  <2>3. /\ pc \in [Pool -> PoolPC] /\ cur \in [Pool -> Tasks \cup {NoTask}]
        /\ no \in [Pool -> 0..MaxRetries] /\ timers \in [Tasks -> 0..MaxRetries]
        /\ \A p \in Pool : (pc[p] = "idle") <=> (cur[p] = NoTask)
    BY DEF Init, PoolPC
  <2>4. /\ timer \in [Tasks -> [Dispatches -> TimerPC]]
        /\ call \in [Tasks -> [Dispatches -> CallPC]]
    BY DEF Init, TimerPC, CallPC
  <2>5. report \in [Tasks -> [Dispatches -> [Outcome -> ReportPC]]]
    BY DEF Init, ReportPC
  <2> QED BY <2>1, <2>2, <2>3, <2>4, <2>5 DEF TypeOK
<1>2. Fresh
  BY DEF Init, Fresh, InSeq, Dispatches, Outcome
<1>3. OneToken
  BY DEF Init, OneToken, Distinct, InSeq, Holding, Pending
<1>4. Counters
  BY DEF Init, Counters, InSeq, Holding, Uncounted, Between
<1>5. ArmedIsRegistered
  BY DEF Init, ArmedIsRegistered
<1> QED BY <1>1, <1>2, <1>3, <1>4, <1>5 DEF IInv

(* A pool thread that holds a task holds one of Tasks; the counters are    *)
(* natural numbers.                                                        *)
LEMMA TypeFacts ==
  ASSUME TypeOK
  PROVE  /\ \A p \in Pool : pc[p] \in Holding => cur[p] \in Tasks
         /\ \A t \in Tasks : dispatches[t] \in Nat /\ retry_count[t] \in Nat
         /\ \A t \in Tasks, n \in Dispatches : timer[t][n] \in TimerPC
         /\ \A t \in Tasks : timers[t] \in 0..MaxRetries
BY DEF TypeOK, Holding

(* PostTask puts a task nobody works on into the queue.                    *)
LEMMA PostTaskIInv ==
  ASSUME IInv, NEW t \in Tasks, PostTask(t) PROVE IInv'
<1> USE TasksAssumption, RetriesAssumption DEF IInv, PostTask, Set, task, threads
<1>0. /\ queue' \in Seq(Tasks)
      /\ \A u : InSeq(queue', u) <=> InSeq(queue, u) \/ u = t
      /\ Distinct(queue')
  BY AppendFacts DEF TypeOK, OneToken, Fresh
<1>1. TypeOK' BY <1>0 DEF TypeOK, TaskState
<1>2. Fresh' BY <1>0 DEF TypeOK, Fresh
<1>3. OneToken' BY <1>0 DEF TypeOK, Fresh, OneToken, Holding, Pending, PoolPC
<1>4. Counters' BY <1>0 DEF TypeOK, Fresh, Counters, Between
<1>5. ArmedIsRegistered' BY DEF ArmedIsRegistered
<1> QED BY <1>1, <1>2, <1>3, <1>4, <1>5

(* The loop moves the first queued task to the executor or drops it.       *)
LEMMA RunLoopIInv ==
  ASSUME IInv, RunLoop PROVE IInv'
<1> USE TasksAssumption, RetriesAssumption DEF IInv, RunLoop, task, threads
<1> DEFINE h == Head(queue)
<1>a. /\ h \in Tasks /\ queue' \in Seq(Tasks)
      /\ InSeq(queue, h) /\ ~InSeq(queue', h)
      /\ \A u : InSeq(queue', u) => InSeq(queue, u)
      /\ Distinct(queue')
  BY TailFacts DEF TypeOK, OneToken
<1>b. /\ jobs' \in Seq(Tasks)
      /\ \A u : InSeq(jobs', u) => InSeq(jobs, u) \/ u = h
      /\ Distinct(jobs')
  BY <1>a, AppendFacts DEF TypeOK, OneToken
<1> HIDE DEF h
<1>0. UNCHANGED <<task, threads, timer, timers, call, report>>
  OBVIOUS
<1> HIDE DEF RunLoop
<1>1. TypeOK' BY <1>a, <1>b, <1>0 DEF TypeOK
<1>2. Fresh' BY <1>a, <1>b, <1>0 DEF Fresh
<1>3. OneToken' BY <1>a, <1>b, <1>0 DEF TypeOK, OneToken
<1>4. Counters' BY <1>a, <1>b, <1>0 DEF TypeOK, Counters, Between
<1>5. ArmedIsRegistered' BY <1>0 DEF ArmedIsRegistered
<1> QED BY <1>1, <1>2, <1>3, <1>4, <1>5
(* Steps that touch no place where a task waits: the handlers and workers. *)
StaysPosted == \A t \in Tasks : status'[t] = "CREATED" <=> status[t] = "CREATED"

(* Actions that only write statuses, results, calls and reports.           *)
LEMMA QuietIInv ==
  ASSUME IInv, TypeOK', StaysPosted,
         UNCHANGED <<queue, jobs, threads, retry_count, dispatches, timer, timers>>,
         \A t \in Tasks : status[t] = "CREATED" =>
            call'[t] = call[t] /\ report'[t] = report[t]
  PROVE  IInv'
<1> USE DEF IInv, threads
<1>1. Fresh' BY DEF Fresh, StaysPosted
<1>2. OneToken' BY DEF OneToken
<1>3. Counters' BY DEF Counters, Between
<1>4. ArmedIsRegistered' BY DEF ArmedIsRegistered
<1> QED BY <1>1, <1>2, <1>3, <1>4

(* Steps of a pool thread that leave the queues and the timers alone.      *)
LEMMA PoolGotoIInv ==
  ASSUME IInv, TypeOK', StaysPosted, NEW p \in Pool, NEW from, NEW to,
         PoolGoto(p, from, to), from # "idle", to # "arm",
         to \in Holding => from \in Holding \ {"arm"},
         UNCHANGED <<queue, jobs, retry_count, dispatches, timer, timers, call, report>>
  PROVE  IInv'
<1> USE TasksAssumption DEF IInv
<1>0. /\ pc[p] = from /\ pc'[p] = to
      /\ \A q \in Pool : q # p => pc'[q] = pc[q] /\ cur'[q] = cur[q] /\ no'[q] = no[q]
      /\ cur'[p] \in {cur[p], NoTask}
      /\ to \in Holding => cur'[p] = cur[p]
  BY DEF PoolGoto, TypeOK, Holding
<1>1. Fresh' BY <1>0 DEF Fresh, StaysPosted
<1>2. OneToken' BY <1>0 DEF OneToken
<1>3. Counters' BY <1>0 DEF Counters, Between
<1>4. ArmedIsRegistered' BY DEF ArmedIsRegistered
<1> QED BY <1>1, <1>2, <1>3, <1>4

(* Steps of a timer callback that leave the counters and the queues alone. *)
LEMMA TimerGotoIInv ==
  ASSUME IInv, TypeOK', StaysPosted, NEW t \in Tasks, NEW n \in Dispatches,
         NEW from, NEW to,
         TimerGoto(t, n, from, to), from \in Pending, to \notin {"armed", "delay"},
         to \in Uncounted => from \in Uncounted,
         UNCHANGED <<queue, retry_count, dispatches>>
  PROVE  IInv'
<1> USE DEF IInv, threads
<1>0. /\ timer[t][n] = from /\ timer'[t][n] = to
      /\ \A u \in Tasks, m \in Dispatches :
            ~(u = t /\ m = n) => timer'[u][m] = timer[u][m]
      /\ UNCHANGED <<jobs, pc, cur, no, timers, call, report>>
  BY DEF TimerGoto, TypeOK
<1>1. Fresh' BY <1>0 DEF Fresh, StaysPosted, Pending
<1>2. OneToken' BY <1>0 DEF OneToken
<1>3. Counters' BY <1>0 DEF Counters, Between
<1>4. ArmedIsRegistered' BY <1>0 DEF ArmedIsRegistered
<1> QED BY <1>1, <1>2, <1>3, <1>4

(* A pool thread takes the first job of the executor.                      *)
LEMMA StartJobIInv ==
  ASSUME IInv, NEW p \in Pool, StartJob(p) PROVE IInv'
<1> USE TasksAssumption, RetriesAssumption DEF IInv
<1> DEFINE h == Head(jobs)
<1>a. /\ h \in Tasks /\ jobs' \in Seq(Tasks)
      /\ InSeq(jobs, h) /\ ~InSeq(jobs', h)
      /\ \A u : InSeq(jobs', u) => InSeq(jobs, u)
      /\ Distinct(jobs')
  BY TailFacts DEF TypeOK, OneToken, StartJob
<1>b. /\ pc[p] = "idle" /\ pc'[p] = "lookup" /\ cur'[p] = h
      /\ \A q \in Pool : q # p => pc'[q] = pc[q] /\ cur'[q] = cur[q]
      /\ UNCHANGED <<status, retry_count, dispatches, queue, no, timer, timers, call, report>>
  BY DEF StartJob, TypeOK, task
<1>1. TypeOK' BY <1>a DEF TypeOK, StartJob, task, PoolPC
<1> HIDE DEF h
<1>2. Fresh' BY <1>a, <1>b DEF Fresh
<1>3. OneToken' BY <1>a, <1>b DEF OneToken
<1>4. Counters' BY <1>a, <1>b DEF Counters, Between
<1>5. ArmedIsRegistered' BY <1>b DEF ArmedIsRegistered
<1> QED BY <1>1, <1>2, <1>3, <1>4, <1>5

(* A pool thread that found no worker puts its task back.                  *)
LEMMA RequeueUnservedIInv ==
  ASSUME IInv, NEW p \in Pool, RequeueUnserved(p) PROVE IInv'
<1> USE TasksAssumption, RetriesAssumption DEF IInv
<1> DEFINE t == cur[p]
<1>0. t \in Tasks /\ pc[p] = "sleep" BY DEF RequeueUnserved, PoolGoto, TypeOK
<1>a. /\ queue' \in Seq(Tasks)
      /\ \A u : InSeq(queue', u) <=> InSeq(queue, u) \/ u = t
      /\ Distinct(queue')
  BY <1>0, AppendFacts DEF TypeOK, OneToken, RequeueUnserved, Holding
<1>b. /\ pc'[p] = "idle" /\ cur'[p] = NoTask /\ no'[p] = 0
      /\ \A q \in Pool : q # p => pc'[q] = pc[q] /\ cur'[q] = cur[q] /\ no'[q] = no[q]
      /\ UNCHANGED <<status, retry_count, dispatches, jobs, timer, timers, call, report>>
  BY DEF RequeueUnserved, PoolGoto, TypeOK, task
<1>1. TypeOK' BY <1>a DEF TypeOK, RequeueUnserved, PoolGoto, task, PoolPC
<1> HIDE DEF t
<1>c. t = cur[p] BY DEF t
<1>2. Fresh' BY <1>0, <1>a, <1>b, <1>c DEF Fresh
<1>3. OneToken' BY <1>0, <1>a, <1>b, <1>c DEF OneToken, Holding
<1>4. Counters' BY <1>0, <1>a, <1>b, <1>c DEF Counters, Between, Holding
<1>5. ArmedIsRegistered' BY <1>b DEF ArmedIsRegistered
<1> QED BY <1>1, <1>2, <1>3, <1>4, <1>5

(* A new dispatch begins: the task held no other place and no timer.       *)
LEMMA SetDispatchedIInv ==
  ASSUME IInv, NEW p \in Pool, SetDispatched(p) PROVE IInv'
<1> USE TasksAssumption, RetriesAssumption DEF IInv
<1> DEFINE t == cur[p]
<1>0. /\ t \in Tasks /\ pc[p] = "setDispatched" /\ Between(t)
      /\ dispatches[t] \in Nat /\ dispatches[t] + 1 \in 0..MaxRetries
  BY DEF SetDispatched, TypeOK, Counters, Between, Holding
<1>b. /\ pc'[p] = "arm" /\ no'[p] = dispatches'[t] /\ dispatches'[t] = dispatches[t] + 1
      /\ \A q \in Pool : q # p => pc'[q] = pc[q] /\ no'[q] = no[q]
      /\ \A u \in Tasks : u # t => dispatches'[u] = dispatches[u] /\ status'[u] = status[u]
      /\ status'[t] = "DISPATCHED"
      /\ UNCHANGED <<retry_count, queue, jobs, cur, timer, timers, call, report>>
  BY <1>0 DEF SetDispatched, TypeOK
<1>1. TypeOK' BY <1>0 DEF TypeOK, SetDispatched, PoolPC, TaskState
<1> HIDE DEF t
<1>c. t = cur[p] BY DEF t
<1>2. Fresh' BY <1>0, <1>b, <1>c DEF Fresh
<1>3. OneToken' BY <1>0, <1>b, <1>c DEF OneToken, Holding
<1>d. /\ ~InSeq(queue, t) /\ ~InSeq(jobs, t)
      /\ \A q \in Pool : pc[q] \in Holding /\ cur[q] = t => q = p
      /\ \A m \in Dispatches : timer[t][m] \notin Uncounted \cup {"delay"}
  BY <1>0, <1>c DEF OneToken, Holding, Pending, TimerPC, Uncounted
<1>4. Counters'
  <2>1. \A u \in Tasks : /\ retry_count[u] <= dispatches'[u]
                         /\ dispatches'[u] <= retry_count[u] + 1
                         /\ dispatches'[u] <= MaxRetries
    BY <1>0, <1>b, TypeFacts DEF Counters, Between
  <2>2. \A u \in Tasks : InSeq(queue, u) \/ InSeq(jobs, u) => Between(u)'
    BY <1>b, <1>d DEF Counters, Between
  <2>3. \A q \in Pool : pc'[q] \in Holding \ {"arm"} => Between(cur[q])'
    BY <1>b, <1>d, TypeFacts DEF Counters, Between, Holding
  <2>4. \A q \in Pool : pc'[q] = "arm" =>
          no'[q] = dispatches'[cur[q]] /\ dispatches'[cur[q]] = retry_count[cur[q]] + 1
    <3> SUFFICES ASSUME NEW q \in Pool, pc'[q] = "arm", q # p
                 PROVE  no'[q] = dispatches'[cur[q]] /\ dispatches'[cur[q]] = retry_count[cur[q]] + 1
      BY <1>0, <1>b, <1>c DEF Between
    <3>1. pc[q] = "arm" /\ no'[q] = no[q] /\ cur[q] # t /\ cur[q] \in Tasks
      BY <1>b, <1>d, TypeFacts DEF Holding
    <3> QED BY <1>b, <3>1 DEF Counters
  <2>5. \A u \in Tasks, n \in Dispatches :
          /\ timer[u][n] \in Uncounted =>
               n = dispatches'[u] /\ dispatches'[u] = retry_count[u] + 1
          /\ timer[u][n] = "delay" => Between(u)'
    <3> SUFFICES ASSUME NEW u \in Tasks, u # t
                 PROVE  \A n \in Dispatches :
                          /\ timer[u][n] \in Uncounted =>
                               n = dispatches'[u] /\ dispatches'[u] = retry_count[u] + 1
                          /\ timer[u][n] = "delay" => Between(u)'
      BY <1>d
    <3> QED BY <1>b DEF Counters, Between
  <2> QED BY <2>1, <2>2, <2>3, <2>4, <2>5, <1>b DEF Counters, Between
<1>5. ArmedIsRegistered' BY <1>b DEF ArmedIsRegistered
<1> QED BY <1>1, <1>2, <1>3, <1>4, <1>5

(* The token passes from the pool thread to the timer it arms.             *)
LEMMA ArmAndSendIInv ==
  ASSUME IInv, NEW p \in Pool, ArmAndSend(p) PROVE IInv'
<1> USE TasksAssumption, RetriesAssumption DEF IInv
<1> DEFINE t == cur[p]  n == no[p]
<1>0. /\ t \in Tasks /\ pc[p] = "arm" /\ n \in Dispatches
      /\ n = dispatches[t] /\ dispatches[t] = retry_count[t] + 1
  BY DEF ArmAndSend, PoolGoto, TypeOK, Counters, Dispatches
<1>b. /\ pc'[p] = "wait" /\ cur'[p] = t /\ no'[p] = n
      /\ \A q \in Pool : q # p => pc'[q] = pc[q] /\ cur'[q] = cur[q] /\ no'[q] = no[q]
      /\ timer'[t][n] = "armed" /\ timers'[t] = n
      /\ \A u \in Tasks, m \in Dispatches : ~(u = t /\ m = n) =>
            timer'[u][m] = timer[u][m] /\ call'[u][m] = call[u][m]
      /\ \A u \in Tasks : u # t => timers'[u] = timers[u]
      /\ UNCHANGED <<status, retry_count, dispatches, queue, jobs, report>>
  BY <1>0 DEF ArmAndSend, PoolGoto, TypeOK, task
<1>1. TypeOK'
  BY <1>0 DEF TypeOK, ArmAndSend, PoolGoto, task, PoolPC, TimerPC, CallPC, Dispatches
<1> HIDE DEF t, n
<1>c. t = cur[p] /\ n = no[p] BY DEF t, n
<1>2. Fresh' BY <1>0, <1>b, <1>c DEF Fresh
<1>3. OneToken' BY <1>0, <1>b, <1>c DEF OneToken, Holding
<1>4. Counters' BY <1>0, <1>b, <1>c DEF Counters, Between, Holding, Uncounted
<1>d. \A m \in Dispatches : timer[t][m] # "armed"
  BY <1>0, <1>c DEF OneToken, Holding, Pending, TimerPC
<1>5. ArmedIsRegistered' BY <1>0, <1>b, <1>d DEF ArmedIsRegistered
<1> QED BY <1>1, <1>2, <1>3, <1>4, <1>5

(* Cancelling releases the token of an armed timer and no other.           *)
LEMMA CancelIInv ==
  ASSUME IInv, TypeOK', NEW t \in Tasks, CancelTimeout(t),
         \A p \in Pool : pc'[p] \in Holding =>
            pc'[p] = pc[p] /\ cur'[p] = cur[p] /\ no'[p] = no[p],
         status[t] # "CREATED",
         \A p \in Pool : cur'[p] = cur[p],
         UNCHANGED <<task, queue, jobs, call>>,
         \A u \in Tasks : u # t => report'[u] = report[u]
  PROVE  IInv'
<1> USE DEF IInv, task
<1>0. /\ timers'[t] = 0 /\ \A u \in Tasks : u # t => timers'[u] = timers[u]
      /\ \A u \in Tasks, m \in Dispatches :
           /\ timer'[u][m] = timer[u][m] \/ (timer'[u][m] = "done" /\ timer[u][m] = "armed")
           /\ u = t => timer'[u][m] # "armed"
  <2>1. /\ timers' = [timers EXCEPT ![t] = 0] /\ timers \in [Tasks -> 0..MaxRetries]
        /\ timer \in [Tasks -> [Dispatches -> TimerPC]]
    BY DEF CancelTimeout, TypeOK
  <2>2. CASE timers[t] # 0 /\ timer[t][timers[t]] = "armed"
    <3>1. timers[t] \in Dispatches
      BY <2>1, <2>2, RetriesAssumption DEF Dispatches
    <3>2. timer' = [timer EXCEPT ![t][timers[t]] = "done"]
      BY <2>2 DEF CancelTimeout
    <3>3. \A u \in Tasks, m \in Dispatches :
            timer'[u][m] = IF u = t /\ m = timers[t] THEN "done" ELSE timer[u][m]
      BY <2>1, <3>1, <3>2
    <3>4. \A m \in Dispatches : timer[t][m] = "armed" => m = timers[t]
      BY DEF ArmedIsRegistered
    <3> QED BY <2>1, <2>2, <3>3, <3>4
  <2>3. CASE ~(timers[t] # 0 /\ timer[t][timers[t]] = "armed")
    <3>1. timer' = timer
      BY <2>3 DEF CancelTimeout
    <3>2. \A m \in Dispatches : m # 0
      BY RetriesAssumption DEF Dispatches
    <3>3. \A m \in Dispatches : timer[t][m] # "armed"
      BY <2>3, <3>2 DEF ArmedIsRegistered
    <3> QED BY <2>1, <3>1, <3>3
  <2> QED BY <2>2, <2>3
<1>1. Fresh' BY <1>0 DEF Fresh
<1>2. OneToken' BY <1>0 DEF OneToken, Pending
<1>3. Counters' BY <1>0 DEF Counters, Between, Uncounted, Holding
<1>4. ArmedIsRegistered' BY <1>0 DEF ArmedIsRegistered
<1> QED BY <1>1, <1>2, <1>3, <1>4

(* The callback counts the retry and, if any is left, keeps the task.      *)
LEMMA TimerCountIInv ==
  ASSUME IInv, NEW t \in Tasks, NEW n \in Dispatches, TimerCount(t, n) PROVE IInv'
<1> USE TasksAssumption, RetriesAssumption DEF IInv
<1> DEFINE to == IF retry_count[t] + 1 >= MaxRetries THEN "checkFailed" ELSE "delay"
<1>0. /\ timer[t][n] = "count" /\ timer'[t][n] = to
      /\ \A u \in Tasks, m \in Dispatches :
            ~(u = t /\ m = n) => timer'[u][m] = timer[u][m]
      /\ retry_count'[t] = retry_count[t] + 1
      /\ \A u \in Tasks : u # t => retry_count'[u] = retry_count[u]
      /\ retry_count[t] \in Nat
      /\ dispatches[t] = retry_count[t] + 1
      /\ UNCHANGED <<status, dispatches, queue, jobs, pc, cur, no, timers, call, report>>
  BY DEF TimerCount, TimerGoto, TypeOK, threads, Counters, Uncounted
<1>1. TypeOK' BY DEF TypeOK, TimerCount, TimerGoto, threads, TimerPC
<1>2. Fresh' BY <1>0 DEF Fresh
<1>3. OneToken' BY <1>0 DEF OneToken, Pending, TimerPC
<1>d. /\ ~InSeq(queue, t) /\ ~InSeq(jobs, t)
      /\ \A q \in Pool : pc[q] \in Holding => cur[q] # t
      /\ \A m \in Dispatches : m # n => timer[t][m] \notin Uncounted \cup {"delay"}
  BY <1>0 DEF OneToken, Holding, Pending, TimerPC, Uncounted
<1>4. Counters'
  <2>1. \A u \in Tasks : /\ retry_count'[u] <= dispatches[u]
                         /\ dispatches[u] <= retry_count'[u] + 1
                         /\ dispatches[u] <= MaxRetries
    BY <1>0, TypeFacts DEF Counters
  <2>2. \A u \in Tasks : InSeq(queue, u) \/ InSeq(jobs, u) => Between(u)'
    BY <1>0, <1>d DEF Counters, Between
  <2>3. \A q \in Pool : pc[q] \in Holding \ {"arm"} => Between(cur[q])'
    BY <1>0, <1>d, TypeFacts DEF Counters, Between, Holding
  <2>4. \A q \in Pool : pc[q] = "arm" =>
          no[q] = dispatches[cur[q]] /\ dispatches[cur[q]] = retry_count'[cur[q]] + 1
    BY <1>0, <1>d, TypeFacts DEF Counters, Holding
  <2>5. \A u \in Tasks, m \in Dispatches :
          timer'[u][m] \in Uncounted =>
            m = dispatches[u] /\ dispatches[u] = retry_count'[u] + 1
    BY <1>0, <1>d DEF Counters, Uncounted
  <2>6. \A u \in Tasks, m \in Dispatches : timer'[u][m] = "delay" => Between(u)'
    <3> SUFFICES ASSUME NEW u \in Tasks, NEW m \in Dispatches, timer'[u][m] = "delay"
                 PROVE  Between(u)'
      OBVIOUS
    <3>1. CASE u = t
      <4>1. m = n BY <1>0, <1>d, <3>1
      <4>2. ~(retry_count[t] + 1 >= MaxRetries) BY <1>0, <4>1, <3>1
      <4> QED BY <1>0, <4>2, <3>1 DEF Between
    <3>2. CASE u # t
      BY <1>0, <3>2 DEF Counters, Between
    <3> QED BY <3>1, <3>2
  <2> QED BY <2>1, <2>2, <2>3, <2>4, <2>5, <2>6, <1>0 DEF Counters, Between
<1>5. ArmedIsRegistered' BY <1>0 DEF ArmedIsRegistered
<1> QED BY <1>1, <1>2, <1>3, <1>4, <1>5

(* The delay timer puts the task back into the queue and is done.          *)
LEMMA TimerReenqueueIInv ==
  ASSUME IInv, NEW t \in Tasks, NEW n \in Dispatches, TimerReenqueue(t, n) PROVE IInv'
<1> USE TasksAssumption, RetriesAssumption DEF IInv
<1>0. /\ timer[t][n] = "delay" /\ timer'[t][n] = "done"
      /\ \A u \in Tasks, m \in Dispatches :
            ~(u = t /\ m = n) => timer'[u][m] = timer[u][m]
      /\ UNCHANGED <<status, retry_count, dispatches, jobs, pc, cur, no, timers, call, report>>
  BY DEF TimerReenqueue, TimerGoto, TypeOK, threads, task
<1>a. /\ queue' \in Seq(Tasks)
      /\ \A u : InSeq(queue', u) <=> InSeq(queue, u) \/ u = t
      /\ Distinct(queue')
  <2>1. queue \in Seq(Tasks) /\ queue' = Append(queue, t)
    BY DEF TypeOK, TimerReenqueue
  <2>2. Distinct(queue) /\ ~InSeq(queue, t)
    BY <1>0 DEF OneToken, Pending, TimerPC
  <2> QED BY <2>1, <2>2, AppendFacts
<1>b. timer' \in [Tasks -> [Dispatches -> TimerPC]] /\ UNCHANGED result
  BY DEF TypeOK, TimerReenqueue, TimerGoto, task, TimerPC
<1>1. TypeOK' BY <1>0, <1>a, <1>b DEF TypeOK
<1>2. Fresh' BY <1>0, <1>a DEF Fresh
<1>3. OneToken' BY <1>0, <1>a DEF OneToken, Pending, TimerPC
<1>4. Counters' BY <1>0, <1>a DEF Counters, Between, Uncounted
<1>5. ArmedIsRegistered' BY <1>0 DEF ArmedIsRegistered
<1> QED BY <1>1, <1>2, <1>3, <1>4, <1>5

-----------------------------------------------------------------------------
(* The part of TypeOK a moving pool thread touches.                        *)
LEMMA PoolGotoType ==
  ASSUME TypeOK, NEW p \in Pool, NEW from, NEW to \in PoolPC,
         from # "idle", PoolGoto(p, from, to)
  PROVE  /\ pc' \in [Pool -> PoolPC]
         /\ cur' \in [Pool -> Tasks \cup {NoTask}]
         /\ no' \in [Pool -> 0..MaxRetries]
         /\ \A q \in Pool : (pc'[q] = "idle") <=> (cur'[q] = NoTask)
<1>1. pc' \in [Pool -> PoolPC] /\ cur' \in [Pool -> Tasks \cup {NoTask}]
  BY DEF TypeOK, PoolGoto
<1>2. no' \in [Pool -> 0..MaxRetries]
  BY RetriesAssumption DEF TypeOK, PoolGoto
<1>3. \A q \in Pool : (pc'[q] = "idle") <=> (cur'[q] = NoTask)
  <2>1. cur[p] # NoTask BY DEF TypeOK, PoolGoto
  <2>2. /\ pc'[p] = to /\ cur'[p] = IF to = "idle" THEN NoTask ELSE cur[p]
        /\ \A q \in Pool : q # p => pc'[q] = pc[q] /\ cur'[q] = cur[q]
    BY DEF TypeOK, PoolGoto
  <2> QED BY <2>1, <2>2 DEF TypeOK
<1> QED BY <1>1, <1>2, <1>3

(* Every step of a pool thread preserves the invariant.                    *)
LEMMA PoolStepIInv ==
  ASSUME IInv, NEW p \in Pool, PoolStep(p) PROVE IInv'
<1> USE TasksAssumption
<1>a. TypeOK BY DEF IInv
(* A thread that only moves, as PoolCheck does when it reads the status.   *)
<1>b. ASSUME NEW from, NEW to, PoolGoto(p, from, to), Local,
             to \in PoolPC, from # "idle", to # "arm",
             to \in Holding => from \in Holding \ {"arm"}
      PROVE  IInv'
  <2>1. TypeOK' BY <1>a, <1>b, PoolGotoType DEF TypeOK, Local, task
  <2>2. StaysPosted BY <1>b DEF StaysPosted, Local, task
  <2> QED BY <1>b, <2>1, <2>2, PoolGotoIInv DEF Local, task
(* A thread that writes its task's status and returns.                     *)
<1>c. ASSUME NEW from, from \notin {"idle"}, PoolGoto(p, from, "idle"),
             NEW new \in TaskState \ {"CREATED"}, Set(cur[p], new),
             UNCHANGED <<queue, jobs, timer, timers, call, report>>
      PROVE  IInv'
  <2>1. cur[p] \in Tasks /\ status[cur[p]] # "CREATED"
    BY <1>a, <1>c DEF TypeOK, PoolGoto, IInv, Fresh
  <2>a. "idle" \in PoolPC BY DEF PoolPC
  <2>2. TypeOK' BY <1>a, <1>c, <2>a, PoolGotoType DEF TypeOK, Set
  <2>3. StaysPosted BY <1>a, <1>c, <2>1 DEF TypeOK, StaysPosted, Set
  <2>4. "idle" \notin Holding BY DEF Holding
  <2> QED BY <1>c, <2>2, <2>3, <2>4, PoolGotoIInv DEF Set
<1>1. CASE StartJob(p) BY <1>1, StartJobIInv
<1>2. CASE SelectWorker(p) BY <1>2, <1>b DEF SelectWorker, Holding, PoolPC
<1>3. CASE NoWorker(p) BY <1>3, <1>b DEF NoWorker, Holding, PoolPC
<1>4. CASE RequeueUnserved(p) BY <1>4, RequeueUnservedIInv
<1>5. CASE CheckDispatched(p)
  BY <1>5, <1>b DEF CheckDispatched, PoolCheck, Holding, PoolPC
<1>6. CASE SetDispatched(p) BY <1>6, SetDispatchedIInv
<1>7. CASE ArmAndSend(p) BY <1>7, ArmAndSendIInv
<1>8. CASE RpcAccepted(p) BY <1>8, <1>b DEF RpcAccepted, Holding, PoolPC
<1>9. CASE RpcRefused(p) BY <1>9, <1>b DEF RpcRefused, Holding, PoolPC
<1>10. CASE RpcError(p) BY <1>10, <1>b DEF RpcError, Holding, PoolPC
<1>11. CASE CheckProcessing(p)
  BY <1>11, <1>b DEF CheckProcessing, PoolCheck, Holding, PoolPC
<1>12. CASE SetProcessing(p) BY <1>12, <1>c DEF SetProcessing, TaskState
<1>13. CASE CancelRefused(p)
  <2>1. /\ cur[p] \in Tasks /\ status[cur[p]] # "CREATED"
        /\ pc[p] = "cancel" /\ cur' = cur
        /\ \A q \in Pool : pc'[q] \in Holding =>
              pc'[q] = pc[q] /\ cur'[q] = cur[q] /\ no'[q] = no[q]
    BY <1>a, <1>13 DEF TypeOK, CancelRefused, PoolGoto, IInv, Fresh, Holding
  <2>2. timers' \in [Tasks -> 0..MaxRetries]
    <3>1. 0 \in 0..MaxRetries BY RetriesAssumption
    <3>2. timers' = [timers EXCEPT ![cur[p]] = 0] BY <1>13 DEF CancelRefused, CancelTimeout
    <3> QED BY <1>a, <3>1, <3>2 DEF TypeOK
  <2>3. timer' \in [Tasks -> [Dispatches -> TimerPC]]
    BY <1>a, <1>13 DEF TypeOK, CancelRefused, CancelTimeout, TimerPC
  <2>a. "cancel" # "idle" /\ "checkFailed" \in PoolPC BY DEF PoolPC
  <2>b. PoolGoto(p, "cancel", "checkFailed") BY <1>13 DEF CancelRefused
  <2>4. TypeOK'
    BY <1>a, <1>13, <2>a, <2>b, <2>2, <2>3, PoolGotoType DEF TypeOK, CancelRefused, task
  <2> QED BY <1>13, <2>1, <2>4, CancelIInv DEF CancelRefused
<1>14. CASE CheckFailed(p)
  BY <1>14, <1>b DEF CheckFailed, PoolCheck, Holding, PoolPC
<1>15. CASE SetFailed(p) BY <1>15, <1>c DEF SetFailed, TaskState
<1> QED BY <1>1, <1>2, <1>3, <1>4, <1>5, <1>6, <1>7, <1>8, <1>9, <1>10, <1>11,
           <1>12, <1>13, <1>14, <1>15 DEF PoolStep

(* Every step of a timer preserves the invariant.                          *)
LEMMA TimerStepIInv ==
  ASSUME IInv, NEW t \in Tasks, NEW n \in Dispatches, TimerStep(t, n) PROVE IInv'
<1>a. TypeOK BY DEF IInv
(* A callback that only reads.                                             *)
<1>b. ASSUME NEW from, NEW to, TimerGoto(t, n, from, to), UNCHANGED <<task, queue>>,
             from \in Pending, to \in TimerPC \ {"armed", "delay"},
             to \in Uncounted => from \in Uncounted
      PROVE  IInv'
  <2>1. TypeOK' BY <1>a, <1>b DEF TypeOK, TimerGoto, threads, task
  <2>2. StaysPosted BY <1>b DEF StaysPosted, task
  <2> QED BY <1>b, <2>1, <2>2, TimerGotoIInv DEF task
(* A callback that writes the status.                                      *)
<1>c. ASSUME NEW from, NEW to, TimerGoto(t, n, from, to), UNCHANGED queue,
             from \in Pending, to \in TimerPC \ {"armed", "delay"},
             to \in Uncounted => from \in Uncounted,
             NEW new \in TaskState \ {"CREATED"}, Set(t, new)
      PROVE  IInv'
  <2>1. status[t] # "CREATED"
    BY <1>a, <1>c DEF IInv, Fresh, TimerGoto, Pending
  <2>2. TypeOK' BY <1>a, <1>c DEF TypeOK, TimerGoto, threads, Set
  <2>3. StaysPosted BY <1>a, <1>c, <2>1 DEF TypeOK, StaysPosted, Set
  <2> QED BY <1>c, <2>2, <2>3, TimerGotoIInv DEF Set
<1> USE DEF Pending, TimerPC, Uncounted, TaskState
<1>1. CASE TimerFires(t, n) BY <1>1, <1>b DEF TimerFires
<1>2. CASE TimerGate(t, n) BY <1>2, <1>b DEF TimerGate
<1>3. CASE TimerCheckTimeout(t, n) BY <1>3, <1>b DEF TimerCheckTimeout
<1>4. CASE TimerSetTimeout(t, n) BY <1>4, <1>c DEF TimerSetTimeout
<1>5. CASE TimerCheckRetrying(t, n) BY <1>5, <1>b DEF TimerCheckRetrying
<1>6. CASE TimerSetRetrying(t, n) BY <1>6, <1>c DEF TimerSetRetrying
<1>7. CASE TimerCount(t, n) BY <1>7, TimerCountIInv
<1>8. CASE TimerCheckFailed(t, n) BY <1>8, <1>b DEF TimerCheckFailed
<1>9. CASE TimerSetFailed(t, n) BY <1>9, <1>c DEF TimerSetFailed
<1>10. CASE TimerReenqueue(t, n) BY <1>10, TimerReenqueueIInv
<1> QED BY <1>1, <1>2, <1>3, <1>4, <1>5, <1>6, <1>7, <1>8, <1>9, <1>10 DEF TimerStep

(* Every step of ReturnResult preserves the invariant.                     *)
LEMMA ReportStepIInv ==
  ASSUME IInv, NEW t \in Tasks, NEW n \in Dispatches, NEW o \in Outcome,
         ReportArrives(t, n, o) \/ ReportStep(t, n, o)
  PROVE  IInv'
<1>a. TypeOK BY DEF IInv
<1>0. status[t] # "CREATED"
  BY DEF IInv, Fresh, ReportArrives, ReportStep, ReportGate, ReportCancel, ReportRead,
         ReportCheckProcessing, ReportSetProcessing, ReportCheckOutcome,
         ReportSetOutcome, ReportStore, ReportGoto
(* A handler that does not cancel the timer.                               *)
<1>b. ASSUME NEW from, NEW to \in ReportPC, ReportGoto(t, n, o, from, to),
             UNCHANGED <<retry_count, dispatches, timer, timers>>,
             status' \in [Tasks -> TaskState],
             result' \in [Tasks -> Outcome \cup {NoResult}],
             status'[t] # "CREATED",
             \A u \in Tasks : u # t => status'[u] = status[u]
      PROVE  IInv'
  <2>1. report' \in [Tasks -> [Dispatches -> [Outcome -> ReportPC]]]
    BY <1>a, <1>b DEF TypeOK, ReportGoto
  <2>2. TypeOK' BY <1>a, <1>b, <2>1 DEF TypeOK, ReportGoto, threads
  <2>3. StaysPosted BY <1>0, <1>b DEF StaysPosted
  <2>4. \A u \in Tasks : u # t => call'[u] = call[u] /\ report'[u] = report[u]
    BY <1>a, <1>b DEF TypeOK, ReportGoto
  <2> QED BY <1>0, <1>b, <2>2, <2>3, <2>4, QuietIInv DEF ReportGoto
<1>c. ASSUME NEW from, NEW to \in ReportPC, ReportGoto(t, n, o, from, to),
             UNCHANGED <<task, timer, timers>>
      PROVE  IInv'
  BY <1>0, <1>a, <1>b, <1>c DEF TypeOK, task
<1>d. ASSUME NEW from, NEW to \in ReportPC, ReportGoto(t, n, o, from, to),
             UNCHANGED <<timer, timers>>,
             NEW new \in TaskState \ {"CREATED"}, Set(t, new)
      PROVE  IInv'
  BY <1>a, <1>b, <1>d DEF TypeOK, Set
<1> USE DEF ReportPC
<1>1. CASE ReportArrives(t, n, o) BY <1>1, <1>c DEF ReportArrives
<1>2. CASE ReportGate(t, n, o) BY <1>2, <1>c DEF ReportGate
<1>3. CASE ReportCancel(t, n, o)
  <2>1. timers' \in [Tasks -> 0..MaxRetries]
    BY <1>a, <1>3, RetriesAssumption DEF TypeOK, ReportCancel, CancelTimeout
  <2>2. timer' \in [Tasks -> [Dispatches -> TimerPC]]
    BY <1>a, <1>3 DEF TypeOK, ReportCancel, CancelTimeout, TimerPC
  <2>3. report' \in [Tasks -> [Dispatches -> [Outcome -> ReportPC]]]
    BY <1>a, <1>3 DEF TypeOK, ReportCancel, ReportGoto
  <2>4. TypeOK'
    BY <1>a, <1>3, <2>1, <2>2, <2>3 DEF TypeOK, ReportCancel, ReportGoto, threads, task
  <2>5. \A u \in Tasks : u # t => report'[u] = report[u]
    BY <1>a, <1>3 DEF TypeOK, ReportCancel, ReportGoto
  <2> QED BY <1>0, <1>3, <2>4, <2>5, CancelIInv DEF ReportCancel, ReportGoto, threads
<1>4. CASE ReportRead(t, n, o) BY <1>4, <1>c DEF ReportRead
<1>5. CASE ReportCheckProcessing(t, n, o) BY <1>5, <1>c DEF ReportCheckProcessing
<1>6. CASE ReportSetProcessing(t, n, o)
  BY <1>6, <1>d DEF ReportSetProcessing, TaskState
<1>7. CASE ReportCheckOutcome(t, n, o) BY <1>7, <1>c DEF ReportCheckOutcome
<1>8. CASE ReportSetOutcome(t, n, o)
  BY <1>8, <1>d DEF ReportSetOutcome, TaskState, Outcome
<1>9. CASE ReportStore(t, n, o)
  BY <1>0, <1>a, <1>9, <1>b DEF ReportStore, TypeOK
<1> QED BY <1>1, <1>2, <1>3, <1>4, <1>5, <1>6, <1>7, <1>8, <1>9 DEF ReportStep

(* Every step of a worker preserves the invariant.                         *)
LEMMA WorkerStepIInv ==
  ASSUME IInv, NEW t \in Tasks, NEW n \in Dispatches, WorkerStep(t, n) PROVE IInv'
<1>a. TypeOK BY DEF IInv
<1>b. ASSUME NEW from \in CallPC \ {"none"}, NEW to \in CallPC, CallGoto(t, n, from, to)
      PROVE  IInv'
  <2>1. TypeOK' BY <1>a, <1>b DEF TypeOK, CallGoto, task, threads
  <2>2. StaysPosted BY <1>b DEF StaysPosted, CallGoto, task
  <2>3. status[t] # "CREATED"
    BY <1>b DEF IInv, Fresh, CallGoto
  <2>4. \A u \in Tasks : u # t => call'[u] = call[u]
    BY <1>a, <1>b DEF TypeOK, CallGoto
  <2> QED BY <1>b, <2>1, <2>2, <2>3, <2>4, QuietIInv DEF CallGoto, task
<1> QED
  BY <1>b DEF WorkerStep, WorkerSends, WorkerSendFails, WorkerAnswers, CallPC

(* Every step of every thread preserves the inductive invariant.           *)
LEMMA NextIInv == IInv /\ [Next]_vars => IInv'
<1> SUFFICES ASSUME IInv, [Next]_vars PROVE IInv'
  OBVIOUS
<1>1. CASE UNCHANGED vars
  BY <1>1 DEF IInv, vars, task, threads, TypeOK, Fresh, OneToken, Counters, Between,
              ArmedIsRegistered
<1>2. CASE Rest
  BY <1>1, <1>2 DEF Rest
<1>3. CASE Next /\ ~Rest
  BY <1>3, PostTaskIInv, RunLoopIInv, PoolStepIInv, TimerStepIInv, ReportStepIInv,
     WorkerStepIInv DEF Next
<1> QED BY <1>1, <1>2, <1>3

(* The inductive invariant holds in every reachable state.                 *)
THEOREM Invariance == Spec => []IInv
BY InitIInv, NextIInv, PTL DEF Spec

-----------------------------------------------------------------------------
(* The attributes, queues, threads and timers of the dispatcher keep the   *)
(* values the code gives them.                                             *)
THEOREM TypeCorrect == Spec => []TypeOK
<1>1. IInv => TypeOK BY DEF IInv
<1> QED BY Invariance, <1>1, PTL

(* No task is ever scheduled twice, although nothing in the code checks    *)
(* it: queue, pool thread and timer hand the task to one another.          *)
THEOREM NeverScheduledTwice == Spec => []OneToken
<1>1. IInv => OneToken BY DEF IInv
<1> QED BY Invariance, <1>1, PTL

(* Whatever the workers, the timeouts and the races on the status do, a    *)
(* task is sent at most MaxRetries times.                                  *)
THEOREM RetriesBounded == Spec => []RetryBudget
<1>1. IInv => RetryBudget
  <2> SUFFICES ASSUME IInv, NEW t \in Tasks
               PROVE  /\ retry_count[t] <= dispatches[t]
                      /\ dispatches[t] <= retry_count[t] + 1
                      /\ dispatches[t] <= MaxRetries
                      /\ Waiting(t) => dispatches[t] = retry_count[t] /\ retry_count[t] < MaxRetries
    BY DEF RetryBudget
  <2>1. Waiting(t) => Between(t)
    BY DEF IInv, Counters, Waiting
  <2> QED BY <2>1 DEF IInv, Counters, Between
<1> QED BY Invariance, <1>1, PTL

(* cancel_timeout always reaches the timer that guards the task.           *)
THEOREM GuardingTimerReachable == Spec => []ArmedIsRegistered
<1>1. IInv => ArmedIsRegistered BY DEF IInv
<1> QED BY Invariance, <1>1, PTL

-----------------------------------------------------------------------------
(* What a step may do to the status and to the result of a task.           *)

Later == {"DISPATCHED", "PROCESSING", "TIMEOUT", "RETRYING", "FAILED"}

StatusMoves ==
  \A t \in Tasks :
    \/ status'[t] = status[t]
    \/ status[t] = "CREATED" /\ status'[t] = "QUEUED"
    \/ status'[t] \in Later
    \/ /\ status'[t] = "COMPLETED"
       /\ \E n \in Dispatches, o \in Outcome : report'[t][n][o] = "store"

ResultMoves ==
  \A t \in Tasks :
    \/ result'[t] # NoResult
    \/ /\ result'[t] = result[t]
       /\ \A n \in Dispatches, o \in Outcome :
            report[t][n][o] = "store" => report'[t][n][o] = "store"

(* Only a status of Later is written outside PostTask and ReturnResult.    *)
LEMMA WritesMove ==
  ASSUME TypeOK, UNCHANGED <<result, report>>,
         \/ UNCHANGED status
         \/ \E t \in Tasks, new \in Later : status' = [status EXCEPT ![t] = new]
  PROVE  StatusMoves /\ ResultMoves
<1>1. ResultMoves
  BY DEF ResultMoves
<1>2. StatusMoves
  BY DEF StatusMoves, TypeOK
<1> QED BY <1>1, <1>2

(* _dispatch completes no task and writes no result.                       *)
LEMMA PoolStepMoves ==
  ASSUME TypeOK, NEW p \in Pool, PoolStep(p) PROVE StatusMoves /\ ResultMoves
<1> USE TasksAssumption
<1>1. pc[p] # "idle" => cur[p] \in Tasks
  BY DEF TypeOK
<1>2. UNCHANGED <<result, report>>
  BY DEF PoolStep, StartJob, SelectWorker, NoWorker, RequeueUnserved, CheckDispatched,
         SetDispatched, ArmAndSend, RpcAccepted, RpcRefused, RpcError, CheckProcessing,
         SetProcessing, CancelRefused, CheckFailed, SetFailed, PoolCheck, Local, Set, task
<1>3. \/ UNCHANGED status
      \/ \E new \in Later : status' = [status EXCEPT ![cur[p]] = new] /\ pc[p] # "idle"
  BY DEF PoolStep, StartJob, SelectWorker, NoWorker, RequeueUnserved, CheckDispatched,
         SetDispatched, ArmAndSend, RpcAccepted, RpcRefused, RpcError, CheckProcessing,
         SetProcessing, CancelRefused, CheckFailed, SetFailed, PoolCheck, PoolGoto,
         Local, Set, task, Later
<1> QED BY <1>1, <1>2, <1>3, WritesMove

(* _on_timeout completes no task and writes no result.                     *)
LEMMA TimerStepMoves ==
  ASSUME TypeOK, NEW t \in Tasks, NEW n \in Dispatches, TimerStep(t, n)
  PROVE  StatusMoves /\ ResultMoves
<1>1. UNCHANGED <<result, report>>
  BY DEF TimerStep, TimerFires, TimerGate, TimerCheckTimeout, TimerSetTimeout,
         TimerCheckRetrying, TimerSetRetrying, TimerCount, TimerCheckFailed,
         TimerSetFailed, TimerReenqueue, TimerGoto, Set, task
<1>2. \/ UNCHANGED status
      \/ \E new \in Later : status' = [status EXCEPT ![t] = new]
  BY DEF TimerStep, TimerFires, TimerGate, TimerCheckTimeout, TimerSetTimeout,
         TimerCheckRetrying, TimerSetRetrying, TimerCount, TimerCheckFailed,
         TimerSetFailed, TimerReenqueue, Set, task, Later
<1> QED BY <1>1, <1>2, WritesMove

(* ReturnResult completes a task only on its way to the result.            *)
LEMMA ReportStepMoves ==
  ASSUME TypeOK, NEW t \in Tasks, NEW n \in Dispatches, NEW o \in Outcome,
         ReportArrives(t, n, o) \/ ReportStep(t, n, o)
  PROVE  StatusMoves /\ ResultMoves
<1>1. ASSUME NEW from, NEW to, ReportGoto(t, n, o, from, to)
      PROVE  /\ report[t][n][o] = from /\ report'[t][n][o] = to
             /\ \A u \in Tasks, m \in Dispatches, q \in Outcome :
                  ~(u = t /\ m = n /\ q = o) => report'[u][m][q] = report[u][m][q]
  BY <1>1 DEF ReportGoto, TypeOK
<1>2. ASSUME NEW from \in ReportPC \ {"store"}, NEW to, ReportGoto(t, n, o, from, to), UNCHANGED result
      PROVE  ResultMoves
  BY <1>1, <1>2 DEF ResultMoves
<1>3. ASSUME UNCHANGED status PROVE StatusMoves
  BY <1>3 DEF StatusMoves
<1>4. CASE UNCHANGED <<status, result>> /\
           \E from \in ReportPC \ {"store"}, to \in ReportPC : ReportGoto(t, n, o, from, to)
  BY <1>2, <1>3, <1>4
<1>5. CASE ReportSetProcessing(t, n, o)
  <2>1. StatusMoves
    BY <1>5 DEF ReportSetProcessing, Set, StatusMoves, TypeOK, Later
  <2> QED BY <1>2, <1>5, <2>1 DEF ReportSetProcessing, Set, ReportPC
<1>6. CASE ReportSetOutcome(t, n, o)
  <2>1. report'[t][n][o] = "store"
    BY <1>1, <1>6 DEF ReportSetOutcome
  <2>2. /\ status'[t] \in {"COMPLETED", "FAILED"}
        /\ \A u \in Tasks : u # t => status'[u] = status[u]
    BY <1>6 DEF ReportSetOutcome, Set, TypeOK, Outcome
  <2>3. StatusMoves
    BY <2>1, <2>2 DEF StatusMoves, Later
  <2> QED BY <1>2, <1>6, <2>3 DEF ReportSetOutcome, Set, ReportPC
<1>7. CASE ReportStore(t, n, o)
  <2>1. /\ result'[t] # NoResult
        /\ \A u \in Tasks : u # t => result'[u] = result[u]
    BY <1>7 DEF ReportStore, TypeOK, Outcome, NoResult
  <2>2. \A u \in Tasks, m \in Dispatches, q \in Outcome : u # t => report'[u][m][q] = report[u][m][q]
    BY <1>1, <1>7 DEF ReportStore
  <2>3. ResultMoves
    BY <2>1, <2>2 DEF ResultMoves
  <2> QED BY <1>3, <1>7, <2>3 DEF ReportStore
<1>8. \/ ReportSetProcessing(t, n, o) \/ ReportSetOutcome(t, n, o) \/ ReportStore(t, n, o)
      \/ UNCHANGED <<status, result>> /\
           \E from \in ReportPC \ {"store"}, to \in ReportPC : ReportGoto(t, n, o, from, to)
  BY DEF ReportArrives, ReportStep, ReportGate, ReportCancel, ReportRead,
         ReportCheckProcessing, ReportCheckOutcome, ReportPC, task
<1> QED BY <1>4, <1>5, <1>6, <1>7, <1>8

(* Only ReturnResult completes a task, and every step keeps results.       *)
LEMMA NextMoves == TypeOK /\ [Next]_vars => StatusMoves /\ ResultMoves
<1> SUFFICES ASSUME TypeOK, [Next]_vars PROVE StatusMoves /\ ResultMoves
  OBVIOUS
<1>1. CASE UNCHANGED vars
  BY <1>1, WritesMove DEF vars, task
<1>2. ASSUME NEW t \in Tasks, PostTask(t) PROVE StatusMoves /\ ResultMoves
  <2>1. ResultMoves
    BY <1>2 DEF PostTask, Set, ResultMoves
  <2>2. StatusMoves
    BY <1>2 DEF PostTask, Set, StatusMoves, TypeOK
  <2> QED BY <2>1, <2>2
<1>3. CASE RunLoop
  BY <1>3, WritesMove DEF RunLoop, task
<1>4. ASSUME NEW t \in Tasks, NEW n \in Dispatches, WorkerStep(t, n)
      PROVE  StatusMoves /\ ResultMoves
  BY <1>4, WritesMove DEF WorkerStep, WorkerSends, WorkerSendFails, WorkerAnswers, CallGoto, task
<1> QED BY <1>1, <1>2, <1>3, <1>4, PoolStepMoves, TimerStepMoves, ReportStepMoves DEF Next, Rest

(* ReturnResult writes the terminal status before the result, but no       *)
(* COMPLETED task stays without one (servicer.py:247,255).                 *)
THEOREM CompletedGetsResult == Spec => []CompletedHasResult
<1>1. Init => CompletedHasResult
  BY DEF Init, CompletedHasResult
<1>2. ASSUME TypeOK, CompletedHasResult, [Next]_vars PROVE CompletedHasResult'
  <2>1. StatusMoves /\ ResultMoves
    BY <1>2, NextMoves
  <2> QED BY <1>2, <2>1 DEF StatusMoves, ResultMoves, CompletedHasResult, Later
<1> QED BY <1>1, <1>2, TypeCorrect, PTL DEF Spec

-----------------------------------------------------------------------------
(* A settled task stays settled.                                           *)

PoolWrite   == {"setDispatched", "setProcessing", "setFailed"}
TimerWrite  == {"setTimeout", "setRetrying", "setFailed"}
ReportWrite == {"setProcessing", "setOutcome", "store"}

(* Nobody passes the check of transition() for a settled task, and its     *)
(* writes are all of other tasks.                                          *)
StaysFinal(t) ==
  Settled(t) => Settled(t)' /\ status'[t] = status[t] /\ result'[t] = result[t]

(* It is enough that nobody begins to write the task and that its          *)
(* attributes are left alone.                                              *)
LEMMA FinalKept ==
  ASSUME NEW t \in Tasks, status'[t] = status[t], result'[t] = result[t],
         \A p \in Pool : cur'[p] = t /\ pc'[p] \in PoolWrite => cur[p] = t /\ pc[p] \in PoolWrite,
         \A n \in Dispatches : timer'[t][n] \in TimerWrite => timer[t][n] \in TimerWrite,
         \A n \in Dispatches, o \in Outcome :
            report'[t][n][o] \in ReportWrite => report[t][n][o] \in ReportWrite
  PROVE  StaysFinal(t)
BY DEF StaysFinal, Settled, Writing, PoolWrite, TimerWrite, ReportWrite

(* transition() allows nothing to a terminal task.                         *)
LEMMA TerminalAllowsNothing ==
  ASSUME NEW t \in Tasks, status[t] \in Terminal, NEW new PROVE ~Allowed(t, new)
BY DEF Terminal, Allowed, MayChange, VALID_TRANSITIONS

(* Cancelling a timer makes no callback run.                               *)
LEMMA CancelWritesNothing ==
  ASSUME TypeOK, NEW u \in Tasks, CancelTimeout(u), NEW t \in Tasks, NEW n \in Dispatches
  PROVE  timer'[t][n] = timer[t][n] \/ timer'[t][n] = "done"
<1>1. CASE timer' = timer
  BY <1>1
<1>2. CASE timer' = [timer EXCEPT ![u][timers[u]] = "done"] /\ timers[u] # 0
  <2>1. timers[u] \in Dispatches
    BY <1>2, RetriesAssumption DEF TypeOK, Dispatches
  <2> QED BY <1>2, <2>1 DEF TypeOK
<1> QED BY <1>1, <1>2 DEF CancelTimeout

(* _dispatch writes no settled task.                                       *)
LEMMA PoolStepFinal ==
  ASSUME TypeOK, NEW p \in Pool, PoolStep(p), NEW t \in Tasks PROVE StaysFinal(t)
<1> SUFFICES ASSUME Settled(t) PROVE StaysFinal(t)
  BY DEF StaysFinal
<1> USE TasksAssumption
<1>1. UNCHANGED <<result, report>>
  BY DEF PoolStep, StartJob, SelectWorker, NoWorker, RequeueUnserved, CheckDispatched,
         SetDispatched, ArmAndSend, RpcAccepted, RpcRefused, RpcError, CheckProcessing,
         SetProcessing, CancelRefused, CheckFailed, SetFailed, PoolCheck, Local, Set, task
<1>2. \/ UNCHANGED status
      \/ \E new : status' = [status EXCEPT ![cur[p]] = new] /\ pc[p] \in PoolWrite
  BY DEF PoolStep, StartJob, SelectWorker, NoWorker, RequeueUnserved, CheckDispatched,
         SetDispatched, ArmAndSend, RpcAccepted, RpcRefused, RpcError, CheckProcessing,
         SetProcessing, CancelRefused, CheckFailed, SetFailed, PoolCheck, PoolGoto,
         Local, Set, task, PoolWrite
<1>3. status'[t] = status[t]
  BY <1>2 DEF Settled, Writing, PoolWrite, TypeOK
<1>4. \A q \in Pool : q # p => pc'[q] = pc[q] /\ cur'[q] = cur[q]
  BY DEF PoolStep, StartJob, SelectWorker, NoWorker, RequeueUnserved, CheckDispatched,
         SetDispatched, ArmAndSend, RpcAccepted, RpcRefused, RpcError, CheckProcessing,
         SetProcessing, CancelRefused, CheckFailed, SetFailed, PoolCheck, PoolGoto, TypeOK
<1>5. pc'[p] \in PoolWrite => cur'[p] = cur[p] /\ \E new : Allowed(cur[p], new)
  BY DEF PoolStep, StartJob, SelectWorker, NoWorker, RequeueUnserved, CheckDispatched,
         SetDispatched, ArmAndSend, RpcAccepted, RpcRefused, RpcError, CheckProcessing,
         SetProcessing, CancelRefused, CheckFailed, SetFailed, PoolCheck, PoolGoto,
         PoolWrite, TypeOK
<1>6. \/ UNCHANGED timer
      \/ pc[p] = "cancel" /\ CancelTimeout(cur[p])
      \/ pc[p] = "arm" /\ timer' = [timer EXCEPT ![cur[p]][no[p]] = "armed"]
  BY DEF PoolStep, StartJob, SelectWorker, NoWorker, RequeueUnserved, CheckDispatched,
         SetDispatched, ArmAndSend, RpcAccepted, RpcRefused, RpcError, CheckProcessing,
         SetProcessing, CancelRefused, CheckFailed, SetFailed, PoolCheck, PoolGoto, Local
<1>7. pc[p] # "idle" => cur[p] \in Tasks
  BY DEF TypeOK
<1>8. \A n \in Dispatches : timer'[t][n] \in TimerWrite => timer[t][n] \in TimerWrite
  <2>1. CASE pc[p] = "cancel" /\ CancelTimeout(cur[p])
    BY <1>7, <2>1, CancelWritesNothing DEF TimerWrite
  <2>2. CASE pc[p] = "arm" /\ timer' = [timer EXCEPT ![cur[p]][no[p]] = "armed"]
    BY <1>7, <2>2 DEF TimerWrite, TypeOK
  <2> QED BY <1>6, <2>1, <2>2
<1>9. \A q \in Pool : cur'[q] = t /\ pc'[q] \in PoolWrite => cur[q] = t /\ pc[q] \in PoolWrite
  BY <1>4, <1>5, TerminalAllowsNothing DEF Settled
<1> QED BY <1>1, <1>3, <1>8, <1>9, FinalKept

(* _on_timeout writes no settled task: it gives up at a check.             *)
LEMMA TimerStepFinal ==
  ASSUME TypeOK, NEW u \in Tasks, NEW m \in Dispatches, TimerStep(u, m), NEW t \in Tasks
  PROVE  StaysFinal(t)
<1> SUFFICES ASSUME Settled(t) PROVE StaysFinal(t)
  BY DEF StaysFinal
<1>1. UNCHANGED <<result, report, pc, cur>>
  BY DEF TimerStep, TimerFires, TimerGate, TimerCheckTimeout, TimerSetTimeout,
         TimerCheckRetrying, TimerSetRetrying, TimerCount, TimerCheckFailed,
         TimerSetFailed, TimerReenqueue, TimerGoto, Set, task, threads
<1>2. \/ UNCHANGED status
      \/ \E new : status' = [status EXCEPT ![u] = new] /\ timer[u][m] \in TimerWrite
  BY DEF TimerStep, TimerFires, TimerGate, TimerCheckTimeout, TimerSetTimeout,
         TimerCheckRetrying, TimerSetRetrying, TimerCount, TimerCheckFailed,
         TimerSetFailed, TimerReenqueue, TimerGoto, Set, task, TimerWrite
<1>3. status'[t] = status[t]
  BY <1>2 DEF Settled, Writing, TimerWrite, TypeOK
<1>4. /\ timer'[u][m] \in TimerWrite => \E new : Allowed(u, new)
      /\ \A n \in Dispatches : ~(t = u /\ n = m) => timer'[t][n] = timer[t][n]
  <2>1. ASSUME NEW from, NEW to, TimerGoto(u, m, from, to)
        PROVE  /\ timer'[u][m] = to
               /\ \A n \in Dispatches : ~(t = u /\ n = m) => timer'[t][n] = timer[t][n]
    BY <2>1 DEF TimerGoto, TypeOK
  <2> HIDE DEF TimerGoto
  <2> QED
    BY <2>1 DEF TimerStep, TimerFires, TimerGate, TimerCheckTimeout, TimerSetTimeout,
         TimerCheckRetrying, TimerSetRetrying, TimerCount, TimerCheckFailed,
         TimerSetFailed, TimerReenqueue, TimerWrite
<1>5. \A n \in Dispatches : timer'[t][n] \in TimerWrite => timer[t][n] \in TimerWrite
  BY <1>4, TerminalAllowsNothing DEF Settled, TypeOK
<1> QED BY <1>1, <1>3, <1>5, FinalKept

(* ReturnResult writes no settled task: it gives up at its first test or   *)
(* at a check.                                                             *)
LEMMA ReportStepFinal ==
  ASSUME TypeOK, NEW u \in Tasks, NEW m \in Dispatches, NEW q \in Outcome,
         ReportArrives(u, m, q) \/ ReportStep(u, m, q), NEW t \in Tasks
  PROVE  StaysFinal(t)
<1> SUFFICES ASSUME Settled(t) PROVE StaysFinal(t)
  BY DEF StaysFinal
<1>1. UNCHANGED <<pc, cur>>
  BY DEF ReportArrives, ReportStep, ReportGate, ReportCancel, ReportRead,
         ReportCheckProcessing, ReportSetProcessing, ReportCheckOutcome, ReportSetOutcome,
         ReportStore, ReportGoto, threads
<1>2. \/ UNCHANGED <<status, result>>
      \/ /\ report[u][m][q] \in ReportWrite
         /\ \E new : status' = [status EXCEPT ![u] = new]
         /\ UNCHANGED result
      \/ /\ report[u][m][q] \in ReportWrite
         /\ result' = [result EXCEPT ![u] = q]
         /\ UNCHANGED status
  BY DEF ReportArrives, ReportStep, ReportGate, ReportCancel, ReportRead,
         ReportCheckProcessing, ReportSetProcessing, ReportCheckOutcome, ReportSetOutcome,
         ReportStore, ReportGoto, Set, task, ReportWrite
<1>3. status'[t] = status[t] /\ result'[t] = result[t]
  BY <1>2 DEF Settled, Writing, ReportWrite, TypeOK
<1>4. \E to : /\ report' = [report EXCEPT ![u][m][q] = to]
              /\ to \in ReportWrite =>
                   (\E new : Allowed(u, new)) \/ report[u][m][q] \in ReportWrite
  BY DEF ReportArrives, ReportStep, ReportGate, ReportCancel, ReportRead,
         ReportCheckProcessing, ReportSetProcessing, ReportCheckOutcome, ReportSetOutcome,
         ReportStore, ReportGoto, ReportWrite
<1>5. \A n \in Dispatches, o \in Outcome :
         report'[t][n][o] \in ReportWrite => report[t][n][o] \in ReportWrite
  BY <1>4, TerminalAllowsNothing DEF Settled, TypeOK
<1>6. \A n \in Dispatches : timer'[t][n] \in TimerWrite => timer[t][n] \in TimerWrite
  <2>1. UNCHANGED timer \/ CancelTimeout(u)
    BY DEF ReportArrives, ReportStep, ReportGate, ReportCancel, ReportRead,
           ReportCheckProcessing, ReportSetProcessing, ReportCheckOutcome,
           ReportSetOutcome, ReportStore
  <2> QED BY <2>1, CancelWritesNothing DEF TimerWrite
<1> QED BY <1>1, <1>3, <1>5, <1>6, FinalKept

(* Every step keeps what is settled.                                       *)
LEMMA NextFinal ==
  ASSUME TypeOK, [Next]_vars, NEW t \in Tasks PROVE StaysFinal(t)
<1>1. CASE UNCHANGED vars
  BY <1>1, FinalKept DEF vars, task, threads
<1>2. ASSUME NEW u \in Tasks, PostTask(u) PROVE StaysFinal(t)
  <2>1. CASE u = t
    BY <1>2, <2>1 DEF PostTask, StaysFinal, Settled, Terminal
  <2>2. CASE u # t
    BY <1>2, <2>2, FinalKept DEF PostTask, Set, threads, TypeOK
  <2> QED BY <2>1, <2>2
<1>3. CASE RunLoop
  BY <1>3, FinalKept DEF RunLoop, task, threads
<1>4. ASSUME NEW u \in Tasks, NEW n \in Dispatches, WorkerStep(u, n) PROVE StaysFinal(t)
  BY <1>4, FinalKept
  DEF WorkerStep, WorkerSends, WorkerSendFails, WorkerAnswers, CallGoto, task, threads
<1> QED
  BY <1>1, <1>2, <1>3, <1>4, PoolStepFinal, TimerStepFinal, ReportStepFinal DEF Next, Rest

(* A terminal task that nobody is about to write is final for every        *)
(* thread, timer and report that is still under way                        *)
(* (state_machine.py:48-55, servicer.py:230-255).                          *)
THEOREM SettledForGood == Spec => SettledIsFinal
<1>1. ASSUME TypeOK, [Next]_vars
      PROVE  [\A t \in Tasks : Settled(t) =>
                Settled(t)' /\ status'[t] = status[t] /\ result'[t] = result[t]]_vars
  BY <1>1, NextFinal DEF StaysFinal
<1> QED BY <1>1, TypeCorrect, PTL DEF Spec, SettledIsFinal

=============================================================================
