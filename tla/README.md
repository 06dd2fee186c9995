# TaskGrid in TLA+

This directory specifies TaskGrid, a small distributed task system (clients post
tasks to a dispatcher, the dispatcher sends them to workers found through a name
service, workers return results), model-checks it with TLC and proves its safety
properties with TLAPS. Paths below are relative to the repository; line numbers
refer to `src/dispatcher/dispatch_loop.py` and its neighbours.

## 1. The system

| component | state | operations | interacts with |
|---|---|---|---|
| state machine (`state_machine.py`, `common/protocol.py`) | `Task.status` | `transition`, `is_terminal` | called by every thread below, on shared `Task` objects, under no lock |
| dispatch loop (`dispatch_loop.py`, `task_queue.py`) | queue, executor queue, 10 pool threads, `_timers`, one `threading.Timer` per dispatch | `run`, `_dispatch`, `_on_timeout`, `_reenqueue_after_delay`, `cancel_timeout` | name service (lookup), worker (`ExecuteTask`), servicer (cancel) |
| servicer (`servicer.py`, `task_store.py`) | the task store | `PostTask`, `ReturnResult`, `GetResult`, `GetStatus` | clients, workers, dispatch loop; up to 10 handler threads |
| worker client, selection (`worker_client.py`, `worker_selector.py`, `namensdienst_client.py`) | round-robin counters | `dispatch_task` (5 s deadline), `select`, `lookup_worker` | name service, workers |
| worker (`worker/worker.py`, `task_handlers/`) | `current_load`, `is_draining` | `ExecuteTask`, registration with retries, heartbeat loop, graceful shutdown | dispatcher (`ReturnResult`), name service |
| name service (`namensdienst/`) | the list `workers`, shared by handler threads and the expiry loop without a lock | `RegisterWorker`, `LookupWorker`, `DeregisterWorker`, `SendHeartbeat`, expiry loop | workers, dispatcher |
| status collector, HTTP status server | none | `get_status` | reads the store and the name service |
| client | none | `send_task`, `request_result` | servicer |

What is hard in it:

* **Unlocked shared objects.** `TaskStore` locks its dictionary but hands out the
  same `Task` object to everybody. `transition()` tests the status and writes it
  later; pool thread, timer callback and report handlers interleave between.
* **Timeouts against answers.** A report may arrive before, during or after the
  timeout callback, after the retry started, or twice (`COMPLETED` and then `FAILED`,
  when sending the first raised).
* **Failure.** A worker may crash, refuse, or answer after the deadline; after an
  RPC error only the timer moves the task.
* **Liveness.** A task must settle although its timer may be replaced, cancelled or
  find an impossible transition; tasks nobody serves circulate for ever.
* **The name service list.** Read-filter-assign without a lock; an expiry thread that
  iterates a copy but removes in place, under the iterations of the handlers; heartbeats
  that refresh one entry of several; a list that a restart empties.
* **Shutdown.** The draining flag and the load are two variables; signals interrupt the
  main thread anywhere, calls go on in the pool while it waits.
* **Torn reads.** `GetResult` and `get_status` read shared tasks attribute by attribute
  and pass by pass while they change.

What makes each component correct: the state machine never leaves a terminal state;
the dispatch loop never schedules a task twice, never loses one, retries only after a
timeout and at most `MAX_RETRIES` times, and settles every task; the servicer gives a
completed task its result; the name service lists exactly the live registrations; the
worker answers only after its report and finishes what it accepted; observers see
states the tasks really had.

`PROJECT.json` lists every hazard with its line and the properties that cover it.

## 2. Modules

| module | content |
|---|---|
| `StateMachine` | `TaskState`, `VALID_TRANSITIONS`, the test `MayChange`, `Terminal` |
| `Dispatcher` | dispatch loop, pool, timers, `PostTask`, `ReturnResult` and `ExecuteTask`: the core |
| `RetryProtocol` | abstract specification: what the retry mechanism promises of a task |
| `DispatcherProperties` | invariants, the refinement of `RetryProtocol`, liveness, documented claims |
| `MCDispatcher` | instance for TLC |
| `DispatcherProofs` | inductive invariant of the dispatcher and the theorems that hold for every timing |
| `DispatcherRefinementProofs` | the dispatcher implements `CallInterface` and `RetryProtocol` |
| `DispatcherTimingProofs` | what holds when the RPC ends before the timeout: one thread per task, no lost task |
| `NameService` | the registration list, its handlers, heartbeats, the expiry loop and time |
| `NameServiceProperties` | invariants, expiry as liveness, documented claims |
| `MCNameService` | instances for TLC |
| `NameServiceProofs` | inductive invariant and theorems |
| `Observers`, `MCObservers` | client and monitoring call composed with `Dispatcher`, their properties; instance |
| `ObserversProofs` | observers change nothing; what they can see wrong |
| `CallInterface` | abstract specification: what the dispatcher relies on in an `ExecuteTask` call |
| `Workers` | lookup, round-robin choice, `ExecuteTask`, start and shutdown of the worker processes |
| `WorkersProperties`, `MCWorkers` | their invariants and the refinement of `CallInterface`; instance |
| `WorkersProofs`, `WorkersInterfaceProofs` | inductive invariant and theorems; the workers implement `CallInterface` |

How they meet. `Observers` extends `Dispatcher`: one state space, in which observers read
what the dispatcher's threads write. `Dispatcher` and `Workers` are two sides of the call:
`Dispatcher` has the threads around it and takes the worker as its environment; `Workers` has
the processes inside it and takes pool threads and `ReturnResult` as its environment.
`CallInterface` is the contract, and both sides are shown to refine it
(`CallsFollowInterface`, `CallsKeepInterface`): what `Dispatcher` lets a worker do is no
more than the contract. That it is no less follows action by action (`ArmAndSend`,
`WorkerSends`, `WorkerSendFails`, `ReportArrives` to the end of the handler,
`WorkerAnswers`, `RpcError`) and is not checked by a run; `Ends` is a worker that takes no
further step. `NameService` and the others meet in the answer of `LookupWorker`: `NameService`
shows what the list may become (entries lost, late, stale or twice), `Dispatcher` takes any
answer, and `Workers` any of a set `Lists`, in which workers may be missing or listed twice.

### How `Dispatcher` corresponds to the code

* `status`, `retry_count`, `result` are attributes of the shared `Task` objects;
  `queue` is the `TaskQueue`, `jobs` the executor's queue, `timers` the dictionary
  `_timers`. `pc`, `cur`, `no` say where each pool thread is in `_dispatch`.
* Each write of `DISPATCHED` starts a *dispatch*, numbered by the auxiliary variable
  `dispatches`. `timer[t][n]`, `call[t][n]` and `report[t][n][o]` are the timer, the
  `ExecuteTask` call and the `ReturnResult` handler (for outcome `o`) of dispatch `n`.
* Each access to a shared attribute is a step of its own. `transition()` is a *check*
  step and a *set* step. What a thread does on its own objects is merged into the step
  before it; registering a timer, starting it and sending the call (lines 231-235, 139)
  is one step, since no other thread can tell the difference.
* `TaskStore.update` stores the object that is already stored, hence changes nothing.
* A worker first reports and then answers (`worker.py` 357-372). It may refuse, fail
  before, between or after its steps, or take no further step (crash). `RpcError` may
  end a waiting call at any time: it stands for the deadline, a lost connection and a
  crashed worker. Reports still arrive after the call ended.
* `RpcBeforeTimeout` is the one fact about time: with the default 30 s timeout and the
  5 s deadline, the pool thread has left the call before the timer of its dispatch
  fires. `FALSE` drops this, for timeouts below 5 s (the error tests use 3 s).
  Everything else is untimed: delays take any time.
* `result` records the outcome whose report wrote it; texts, types, timestamps and
  `assigned_worker` are left out, since no condition of the dispatcher reads them.

### How `NameService` corresponds to the code

* `listed` is `self.workers`. An entry is named by its worker, the number of the call
  that made it and the index of its type. `born` numbers the appends. Every list that is
  ever assigned is a part of an older one, in its order, and entries are only added at the
  end, so each list is in the order of `born` and a set of entries says all of it; `First`
  is where an iteration of the list goes next.
* `handlers` are the `RegisterWorker` and `DeregisterWorker` handlers that run. They may
  overlap, those of one worker too: a client that gives up (`register_worker` retries, a
  SIGTERM during its call sends `update_worker_status` beside it) does not end its handler.
  A handler filters the list entry by entry (`Call` begins, `Visit` goes past one entry,
  `FilterEnds`), assigns the result (`Assign`) and appends one entry per type
  (`AppendEntry`). A single `append` or `remove` is atomic under the GIL.
* `SendHeartbeat` is a search (`Heartbeat`, `HeartbeatVisit`, `HeartbeatFinds`), the stamp
  and then the status. The expiry loop computes `elapsed` (`LoopCheck`), writes the status
  (`LoopMark`) and removes (`LoopRemove`, where `ValueError` ends the thread).
* `ahead` and `rest` are what an iteration has not come to yet. Python iterates a list by
  position: a removal behind the position moves the rest up and the next entry is missed
  (`Missed`, `Shifted`); an append is met. After an assignment the old list changes no
  more, so what iterates it comes to its end at once (`Filtered`, `Sought`). Where an
  iteration stands matters to a removal only, so `Visit` and `HeartbeatVisit` are taken
  when one is due: any position an iteration could have reached before is reached then.
  The comment in `nameservice.py` 117 ("copy, so that one can delete while iterating") is
  true of the loop's own iteration, not of the handlers'.
* `phase` is the worker process: `serve`, SIGTERM (`UpdateStatus` registers again as
  `DRAINING`; `UpdateFails` when that call fails), also during the registration
  (`quitting`: no heartbeat thread yet), exit or crash. A lost answer of `register_worker`
  is a `Reply` that leaves the worker registering. After a restart a worker keeps its id
  and address.
* Time: one `Tick` is a heartbeat interval (5 s); `age` is `lastHeartbeat` in ticks. A
  handler ends within the tick it began in, a live worker's heartbeat is handled or
  lost once per tick, and the loop (every second) makes at least one pass.
* `LookupWorker` is what a lookup answers when nothing is removed while it reads; its own
  comprehension may skip an entry as well, which the dispatcher meets as a shorter answer
  and looks up again later.
* `steady`, `exposed` and `skipped` are auxiliary: whether a heartbeat was lost since the
  registration, whether another handler cut across the worker's last call or the name
  service was restarted since, and whether an iteration skipped an entry of the worker
  since its last call began.
* `Restart` is a new name service process: empty list, no handlers, a fresh loop. Calls
  in progress end with an error; `steady` survives, since the worker's heartbeats go on
  being answered ("Worker not found" is an answer, `worker.py` 148).

### How `Observers` corresponds to the code

* `obs` is one call. Observers write nothing, so one of them that makes one call at a time
  meets every state that several would. `GetResult` reads status and then result
  (`servicer.py` 170-171); `get_status` takes four passes over the copied list of shared
  tasks (`status_collector.py` 21-25), of which the share of one task, any one, is
  followed. `GetStatus` and `GET /status` are two callers of it.
* `PostTask` stores tasks as `QUEUED`, so no observer sees `CREATED`. An unknown id is
  answered at once and left out. `GetResult` never fills the `error` that the client prints for
  a `FAILED` task, so the outcome shown has no text; no property is about the text.
* `left` and `final` are auxiliary: during the call the task left `TIMEOUT` or a terminal
  status; it was settled when the call began.

### How `Workers` corresponds to the code

* `phase` is the main thread. It installs the handlers, registers and then opens its port
  (`worker.py` 412-415, 430); a call sent to a closed port reaches nobody. `Signal` is the
  handler: it runs in the main thread, wherever that is, sets the flag and starts
  `graceful_shutdown`, also inside a shutdown under way. During the registration there is no
  pool to wait for (`quitting`); during the join at exit, the `sys.exit` of the second
  shutdown aborts the join (`hurrying`, `ExitAtOnce`). `SignalInLock` is a signal that finds
  the main thread holding `load_lock` (in `get_current_load`, lines 84, 259 and 291): the
  handler takes the lock again and waits for itself, the phase is `stuck`, or `jammed` when
  the port is closed, and no call changes the load any more. SIGKILL (`Kill`) ends that, as
  any crash.
* `handler` is `ExecuteTask` of one call in one of `Slots` threads. Flag and load are two steps
  (329, 349). Sending `COMPLETED` returns when the dispatcher has handled it, or raises
  whether or not it has, and then `FAILED` is sent, which may raise out of the `except`
  block: the load goes down in every case (`finally`).
* `wait_for_running_tasks` ends when the load is 0 or, at any time, by `SHUTDOWN_TIMEOUT`
  (`timedOut`). `sys.exit` waits for the pool threads, then the process is gone.
* `Lookup` returns any list of `Lists` whose workers were started; they may be gone. What
  makes the lists is the subject of `NameService`, where overlapping registrations list a
  worker twice, so `Lists` may as well. `Lookup` and `Select` are two steps, so the chosen
  worker may be gone by then. Workers serve all types. `recent` is auxiliary: the places of
  the last selections of a type over one list.

### Properties of the dispatcher

* `OneToken`: at most one place (queue, executor, preparing thread, pending timer)
  may dispatch a task.
* `RetryBudget`: dispatches and `retry_count` go together; never more than
  `MaxRetries` dispatches.
* `ArmedIsRegistered`: an armed timer is always the one `cancel_timeout` would stop.
* `NoLostTask`: an unsettled task waits, is guarded by a timer, or is about to be
  settled by a thread that cancelled the timer.
* `OneThreadPerTask`: no two pool threads work on one task.
* `AcceptComesTooLate`: with the default timing the accept branch never writes `PROCESSING`.
  This contradicts the repository's documents and is listed as finding 3 (run
  `accept_too_late`, property `AcceptStartsProcessing`): `docs/STATE_MODEL.md` 16, 54 and 75,
  `docs/adr/ADR-005.md` 12, `documentation/Dispatcher.tex` 199, 207-211 and 379-380 and the
  comments `dispatch_loop.py` 13 and 142 say that a task becomes `PROCESSING` when the worker
  accepts it; `tests/test_dispatch.py` 105-118 and `tests/test_timeout_retry.py` 139-156 expect
  it, with a worker client that answers `True` and no worker that reports. In the running
  system the answer follows the report (`worker.py` 357-372), so the accepted task is settled.
* `CompletedHasResult`: `COMPLETED` without a result exists only inside a handler. It does not
  say whose result: of two reports that overlap, one may write the last status and the other
  the last result, so that a `COMPLETED` task keeps the empty result of a `FAILED` report.
* `SettledIsFinal`: `Settled(t)` says that `t` is terminal and nobody stands between the
  check and the write of a transition or in front of the write of the result. From then on
  status and result stay, whatever thread, timer or report is still under way. It is what
  remains true of the documents' "a terminal task is never overwritten".
* `RetriesFollowProtocol`: refinement of `RetryProtocol`.
* `CallsKeepInterface`: refinement of `CallInterface`.
* `EveryTaskSettles`: every served task ends in a terminal state for good.

### Properties of the name service

* `StaleNotOffered`: an entry of a worker's latest call that was silent for more than 10 s
  is not offered, whatever happens between the loop's reads and writes, unless an
  iteration skipped an entry of that worker: a skipped entry is dropped from a list that
  the loop then marks, and may be put back by an older one.
* `LostOnlyByRace`: a registered worker whose heartbeats arrive is offered for its
  first type, unless one of three things happened since its last call began: another
  handler (of any worker, the same one included) cut across it, the name service was
  restarted, or an iteration skipped its entry because the loop removed another one.
* `SilentWorkersExpire`: entries of a worker that is gone go away for good, as long as
  the expiry thread lives.

### Properties of the observers

* `EmptyAnswerRacesStore`: `COMPLETED` without a result is answered only while a report
  handler stands between its two writes at the very moment the result is read.
* `MissedOnlyIfRevived`: `get_status` misses a task only if the task went from `TIMEOUT` or a
  terminal status back during the call; the order of the passes follows the life of a task.
* `FinalIsShown`: a call that begins when the task is settled answers the status and the
  result the task keeps, and `get_status` counts the task once.
* `ClientLearnsOutcome`, `StatusCountsSettle`: in the end each client of a served task is
  shown its outcome and result, and each task is counted exactly once.

### Properties of the workers

* `LoadCountsTasks`: the load is the number of calls between the two counting steps,
  whatever raises.
* `DrainWaitsForRunning`: a shutdown that stopped waiting because of load 0 leaves no task
  running that was counted before the flag was set. (One that read the flag before and
  counts later may still run; this is the window the property leaves open.)
* `RoundRobinFair`: as long as the lookups of a type return the same n entries, n selections
  in a row take all n places; a worker that is listed twice gets two of them.
* `CallsFollowInterface`: refinement of `CallInterface`.

## 3. Runs

| run | instance | shows |
|---|---|---|
| `dispatcher_default` | 1 task, 2 threads, 2 tries, default timing, fair | all invariants, both refinements and `EveryTaskSettles` (447,957 states) |
| `dispatcher_short_timeout` | same, timeout may fire during the call, thread symmetry | the four invariants and the action property `SettledIsFinal`, which do not need the timing (2.7 million states) |
| `observers` | a served and an unserved task share 1 thread, 1 try, 1 observer, fair | the observers' properties; the unserved task does not starve the served one (399,232 states) |
| `workers` | 2 workers: one serves two tasks at a time and goes through its whole life with signals in every phase, the other comes late; lists with both or with one worker twice; 3 calls of 2 types, 2 slots, call symmetry, constraint `Focus` | the workers' properties and the refinement (873,489 states) |
| `nameservice` | 2 workers with 1 type, up to 3 calls that overlap, or 1 call and a restart, worker symmetry, constraint `ThreeCalls` | `TypeOK` and the invariants (1,538,045 states) |
| `nameservice_expiry` | 2 workers with 2 and 1 types, 2 calls or operator's deregistrations, lost heartbeats, a restart, fair, constraint `TwoCalls` | the invariants and `SilentWorkersExpire` (323,987 states) |
| `terminal_overwritten` | as default | counterexample to "a terminal task is never overwritten" |
| `late_result` | as default | counterexample to "late results are ignored" |
| `accept_too_late` | as default | counterexample to "an accepted task becomes `PROCESSING`" |
| `registration_lost` | 2 workers with 1 type, 2 calls | counterexample to "all available instances are returned" |
| `expiry_thread_ends` | 1 worker with 2 types, fair | counterexample to "stale entries are removed automatically" |
| `restart_forgotten` | 1 worker with 1 type, 1 restart, fair | counterexample to "after a restart the workers register again" |

Bounds. Tasks share nothing but the queue and the pool, so one task shows every race
on a task; `observers` has two for the sharing of queue and pool, and one that never settles. Two tries
are the least with a retry: an old and a new dispatch whose timers, calls and reports
overlap. Two pool threads are the most that can hold the same task in two tries. The
code's defaults (3 tries, 10 threads) add more of the same overlap; the theorems hold
for all values.

The name service's ages are the defaults in heartbeat intervals: unhealthy after 2 (10 s),
removed after 4 (20 s). The two passing runs remove after 3, which still leaves an age
at which an entry is unhealthy and stays listed; the theorems hold for every pair. Ages
above `OfflineAge` are indistinguishable to the code and are cut off there. Two calls are
the fewest that overlap or follow each other: a call over an older list, a registration
again while the loop holds the old entry, a draining update beside a registration. Three
are the fewest in which the loop removes an old entry while another worker's filter or
heartbeat passes a live one, and in which the removed entry comes back. The constraints
name the rest: `CallLeft` (a process for which no call is left does not try to register),
`TwoCalls` (calls, restarts and workers with a lost heartbeat are 2 together), `ThreeCalls`
(3 calls, or 1 and a restart; two handlers at a time; no heartbeat lost; `OneHeartbeat`:
one heartbeat handler at a time). States beyond a constraint are checked but not
continued; the theorems know no such bound. There is one restart: a second finds the same
empty list.

The observers make one call at a time (see above) and need no retry to see every status,
since the unserved task and a single try already leave `TIMEOUT`, `RETRYING` and both
outcomes to be read in every order. For the workers three calls are the fewest with two
tasks of one type and one of another, and one more than there are slots, so that a call
waits for a thread. Both workers at full load are too many states, so the constraint
`Focus` keeps the run to one worker, `w2`, that goes through its whole life with two tasks
at a time, while `w1` starts late, gets calls that wait in its pool, and may stop before it
serves; the third call is looked up, selected and sent but not run. `SomeLists` are the
list of both workers and the one that names `w2` twice, as two overlapping registrations
leave it. Workers share only the counters, of which `w1` sees every use. States beyond the
constraint are checked but not continued; the theorems know no such bound.

Deadlock is checked with the default timing, where `Rest` allows the system to stop
only when every task is terminal, and among the workers, which may rest when no dispatch
is under way. The short timing really may stop with a stuck task: with a timeout below
the RPC deadline a stale pool thread may write `PROCESSING` between the `TIMEOUT` and the
`RETRYING` of a newer dispatch; the callback then gives up and no timer is left. So that
run does not check deadlock, and `EveryTaskSettles` is checked with the default timing only.

Fairness. The loop, each pool thread, each timer and each report handler is a thread
the scheduler runs: weak fairness of each. A call ends by its deadline, so `RpcError`
keeps a waiting thread enabled. Workers, posts and arriving reports have no fairness.
`SelectWorker` of a served task is strongly fair: a task whose type has a live worker
does not meet an empty lookup for ever. It is assumed of the environment, not shown.

In the name service, the handlers, the heartbeat thread and the expiry thread are
threads that run: weak fairness. Time passes: strong fairness of `Tick`, since each
pass of the loop disables it for a moment, and the model lets the loop make any
number of passes within a tick.
Starting, leaving, registering and restarts have no fairness. Observers have none either:
their liveness properties say what a call shows if it is made. `Workers` is checked for
safety only; a shutdown need not end (`stuck`, `jammed`).

Findings. (1) `transition()` is not atomic, so a timeout callback or a second report
overwrites a terminal status that `STATE_MODEL.md` calls final. (2) `ReturnResult`
does not compare the reporting worker with the current dispatch, so a late result
settles a newer dispatch, against ADR-005. (3) A task does not become `PROCESSING` when the
worker accepts it, against the state model, ADR-005, comments and tests (see
`AcceptComesTooLate` above). (4) Two workers that register at the same time: the later
assignment drops the other one, which stays unlisted while its heartbeats are answered
"Worker not found". The in-place removal of the loop does the same to a worker whose entry
a filter skips, and with several types a worker loses all but the first, since a heartbeat
refreshes one entry only: `HeartbeatsKeepOffered` also fails with one worker that has two
types (`TypesOf <- Two`), without any race. (5) A worker that registers again while the
loop is about to remove its old entry ends the expiry thread with `ValueError`. (6) After a
restart of the name service a running worker is never listed again: it registers only at
its start and prints "Worker not found", against ADR-004.

## 4. Proofs

Every safety invariant, both action properties and all three refinements that the passing runs
check are proved, for every value of the constants:

| module | theorem | statement |
|---|---|---|
| `DispatcherProofs` | `TypeCorrect`, `NeverScheduledTwice`, `RetriesBounded`, `GuardingTimerReachable`, `CompletedGetsResult` | `Spec => []P` for `TypeOK`, `OneToken`, `RetryBudget`, `ArmedIsRegistered`, `CompletedHasResult` |
| | `SettledForGood` | `Spec => SettledIsFinal` |
| `DispatcherRefinementProofs` | `DispatcherKeepsInterface` | `Spec => CallsKeepInterface` |
| | `RetriesImplementProtocol` | `Spec => RetriesFollowProtocol` |
| `DispatcherTimingProofs` | `OneThread`, `AcceptBranchDead`, `NoTaskLost` | under `RpcBeforeTimeout`, `Spec => []P` for `OneThreadPerTask`, `AcceptComesTooLate`, `NoLostTask` |
| `ObserversProofs` | `ObserversChangeNothing` | `ObserversSpec => Spec` |
| | `ObserverTypeCorrect`, `OnlyRevivedMissed`, `FinalAnswersStay` | `ObserversSpec => []P` for `ObserverTypeOK`, `MissedOnlyIfRevived`, `FinalIsShown` |
| | `EmptyAnswerOnlyWhileStoring` | `ObserversSpec => EmptyAnswerRacesStore` |
| `WorkersProofs` | `TypeCorrect`, `LoadIsNumberOfTasks`, `DrainIsComplete`, `SelectionIsFair` | `Spec => []P` for `TypeOK`, `LoadCountsTasks`, `DrainWaitsForRunning`, `RoundRobinFair` |
| `WorkersInterfaceProofs` | `WorkersKeepInterface` | `Spec => CallsFollowInterface` |
| `NameServiceProofs` | `TypeCorrect`, `SilentNeverOffered`, `RegisteredIsOffered` | `Spec => []P` for `TypeOK`, `StaleNotOffered`, `LostOnlyByRace` |

Assumed are the named ASSUMEs of the modules, no more: `NoTask` is no task, `NoOne` no
worker, subsets are subsets, workers and calls of `Workers` are finite, the lists a lookup
returns are not empty, `MaxRetries`, `Slots` and the number of types of a worker
are positive (`TASK_TYPES` empty registers "unknown"), and
`1 < UnhealthyAge <= OfflineAge`: a worker is not called unhealthy before it could miss a
heartbeat (10 s, 5 s by default). Only the three theorems of `DispatcherTimingProofs`
suppose `RpcBeforeTimeout`, which is the default configuration; with a shorter timeout
they are false, and no run claims them.

### The arguments

**Dispatcher** (`DispatcherProofs`).
`IInv == TypeOK /\ Fresh /\ OneToken /\ Counters /\ ArmedIsRegistered` is inductive. The
properties alone are not: that a timer may put its task back without making it wait twice
depends on how far the task's counters are. `Counters` says for each place that may
dispatch a task how `dispatches` and `retry_count` stand there, and `Fresh` that a task
nobody posted has no timer, call or report. `RetryBudget` follows. There is one lemma per
action that moves a task or a counter and one (`QuietIInv`) for the actions that change
only statuses and reports. `CompletedGetsResult` needs no bookkeeping: every step either
leaves `COMPLETED` and the results alone, or is the handler that will store one
(`NextMoves`). `SettledForGood` has one lemma per kind of thread: a thread that reaches a
check finds the task terminal, and `VALID_TRANSITIONS` allows nothing from there
(`TerminalAllowsNothing`), so it never reaches a write; a thread that is past the check
would be `Writing`. The retried task comes back to the loop, which drops it by the same
test. This holds for both timings.

**Refinements** (`DispatcherRefinementProofs`). `CInv` adds to `IInv` what is true of the
calls: a dispatch not begun has none (`CallNumbers`), reports come from the worker of the
call and in its order (`CallReports`), one thread waits for it (`OneWaiter`). With it each
action is shown to be one action of `CallInterface` or hidden. For `RetryProtocol`,
`OneToken` is what makes the abstract phase a function of one place: a task that waits is
with no timer, and the reverse, so that each action moves at most one task by one phase.
Both hold for either timing.

**Timing** (`DispatcherTimingProofs`). `TInv == CInv /\ Working /\ EarlyReports /\
AcceptedLate /\ InHands`. `Working`: a thread that has sent a dispatch has sent the
*latest* one of its task and at most an armed timer guards it; hence the timer, which
waits for the thread (`RpcBeforeTimeout`), cannot put the task back while the thread works
on it (`FiredAlone`). `EarlyReports`: no report of the latest dispatch is past its write
while the status is still `DISPATCHED`; with `CallReports` it follows that an accepted
call finds another status (`AcceptedLate`). `InHands` names for each status who will
change it: the thread, timer callback or handler that wrote it, or who took the task over.
The point of its proof is that every such actor finds its own test true when the status
is the one it is responsible for (`TransitionFacts`), so that whoever gives up had been
overtaken by somebody else, who is responsible now. Without `AcceptedLate` this is
false: the accept branch would write `PROCESSING` with nobody left to settle the task.

**Workers** (`WorkersProofs`). `IInv` adds to the properties how far each call is at the
worker and at its caller (`CallStages`), that a call that selects holds a list of workers
(`ListsHeld`), that a shutdown that waits has set the flag (`Flags`), and that the places
last selected for a type are a window ending at its counter (`Selection`). Fairness of the selection is then arithmetic: two counts less than `n`
apart have different remainders (`Remainders`). The load is a cardinality, so the steps
that count a call use the theorems on finite sets. `WorkersInterfaceProofs` maps each step
to `CallInterface`; the end of a process maps to the end of its calls.

**Name service** (`NameServiceProofs`). `HandlerShape`, `BeatShape`, `Births` and `BornOrder`
say what handlers and heartbeats hold at each step, that an entry not yet appended is
nowhere, and that lists are in the order of the appends. That a silent entry is not
offered rests on `PassMarks` (what a pass of the loop has not handled yet is in its copy)
and `Carried`: a silent entry that some running filter may still bring back is in the
current list too, and in what every other worker's filter will make of its list, so
assigning an older list brings nothing back unmarked. An in-place removal is the one
step that breaks this for the entry it makes a filter miss, and there `skipped` is set.
That a worker stays offered rests on `FirstKept`: while none of the three races occurred
(`Safe`), the entry that heartbeats refresh is in the list, in the result of every filter
and, until it is stamped, ahead of the heartbeat's search, and the loop does not hold it;
`Solo` says that no other call of the worker can put an older entry before it. The proof
of `LoopRemove` is where the shift matters: an iteration misses at most the entry it would
have come to next.

**Observers** (`ObserversProofs`). Observers write nothing the dispatcher reads, so
`ObserversSpec` implements `Spec` and every theorem above holds beside them. `OInv` says
what stays true of a task after it was read: each pass of `get_status` that missed it
leaves only later statuses (`PassesNarrow`), and after `COMPLETED` was read the result is
there or about to be stored (`ResultFollows`). `FinalCalls` says of a call that began with
a settled task that what it has read is what the task still has, and that the passes so
far have counted it as often as the pass of its status is behind them (`CountedOnce`); a
step of the dispatcher preserves it by `NextFinal`, the lemma behind `SettledForGood`.

All inductive invariants were first checked by TLC on the instances of the runs.

### Only model-checked

* Liveness: `EveryTaskSettles`, `SilentWorkersExpire`, `ClientLearnsOutcome`,
  `StatusCountsSettle`. They rest on fairness, hence on ENABLED, which is outside what the
  proof system handles. Their safety halves are proved: a task not settled is in somebody's
  hands (`NoTaskLost`), a settled one stays so (`SettledForGood`), and who asks then sees it
  (`FinalAnswersStay`). What is left to TLC is that the hands move.
* That the system does not deadlock (again ENABLED).
* The documents' claims that the code does not keep: they are refuted by TLC's
  counterexamples and there is nothing to prove.

## 5. What could come next

* A second life of the dispatcher, whose task ids start at 1 again while workers still
  report old ones (see the hazards). Reports would need to name the life they belong to.
* An abstract name service (the set of live registrations) is left out on purpose: its
  handlers implement one only when they do not overlap, and `registration_lost` shows that
  they do. `LostOnlyByRace` states and proves what is true of them.

## 6. Not modelled

* Task handlers: pure functions on strings; the models tell only whether one returns or
  raises.
* Logging, the entry points and the generated gRPC code: output, wiring, message formats.
* Texts, timestamps and `assigned_worker`, which no condition reads; hence the average
  processing time, and the number of active workers in `get_status`.
* Rejected requests and unknown task ids: answered at once, no state changes.
* A restart of the dispatcher: its store and queue are in memory and gone with it.
* `current_load` as the name service stores it: nothing selects by it. `TaskStore`'s
  `count_by_status` and `worker_load_map`: nothing in the running system calls them.
