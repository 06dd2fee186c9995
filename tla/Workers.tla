------------------------------- MODULE Workers -------------------------------
(***************************************************************************)
(* The worker processes (worker.py) and how the dispatcher picks one and   *)
(* calls it: the lookup (namensdienst_client.py), the round-robin choice   *)
(* (worker_selector.py), ExecuteTask with its load and draining flag, and  *)
(* the shutdown on SIGTERM.                                                *)
(*                                                                         *)
(* is_draining is read and written under no lock, current_load under       *)
(* load_lock. The signal handler runs in the main thread, the calls in the *)
(* gRPC thread pool. A worker process runs once; a restarted worker is     *)
(* another one. What the name service makes of the registrations is the    *)
(* subject of NameService: here a lookup returns any of a set of lists,    *)
(* with workers that are not listed at all or more than once.              *)
(***************************************************************************)
EXTENDS Naturals, Sequences, FiniteSets

CONSTANTS
  Workers,   \* worker processes, all with the same task types
  Calls,     \* dispatches, each with at most one ExecuteTask call
  Types,     \* task types
  TypeOf,    \* per call the type of its task
  Lists,     \* the lists a lookup may return
  Ready,     \* the workers that serve already
  Mortal,    \* the workers that may be stopped, crash or be killed
  Slots      \* threads of the worker's gRPC pool (10 in the code)

NoOne == "nobody"

Distinct(s) == \A i, j \in DOMAIN s : s[i] = s[j] => i = j

ASSUME WorkersAssumption ==
  /\ IsFiniteSet(Workers) /\ NoOne \notin Workers
  /\ Mortal \subseteq Workers /\ Ready \subseteq Workers
  /\ Lists \subseteq Seq(Workers) \ {<<>>}
ASSUME CallsAssumption   == IsFiniteSet(Calls) /\ TypeOf \in [Calls -> Types]
ASSUME SlotsAssumption   == Slots \in Nat \ {0}

VARIABLES
  phase,         \* per worker its main thread: "off", "starting" (registers,
                 \* port closed), "serving", "updating", "waiting", "joining";
                 \* "quitting", "hurrying" (a shutdown that waits for no pool
                 \* thread: begun before the port was open, or again during
                 \* the join); "stuck", "jammed" (waits for the lock it
                 \* holds, the port open or closed); "gone"
  is_draining,   \* per worker
  current_load,  \* per worker
  timedOut,      \* per worker: the wait ended by SHUTDOWN_TIMEOUT
  counters,      \* RoundRobinSelector._counters
  thread,        \* per call the dispatcher's side: "idle", "select",
                 \* "wait", "over"
  list,          \* per call the list its lookup returned
  target,        \* per call the worker that has it
  handler,       \* per call ExecuteTask at the worker: its pc, the answer it
                 \* will give, and [auxiliary] whether its load was counted
                 \* before is_draining was set
  handled,       \* per call: ReturnResult has handled the report under way
  got,           \* per call the answer the dispatcher received, if any
  recent         \* [auxiliary] per type the places of the last selections
                 \* over one list

main     == <<phase, is_draining, timedOut>>
caller   == <<thread, list, target, counters, recent>>
vars     == <<main, current_load, caller, handler, handled, got>>

HandlerPC == {"none", "queued", "begin", "working", "sendingCOMPLETED",
              "sendingFAILED", "finally", "return", "ended"}
Answers   == {"none", "accepted", "failed", "rejected", "error"}

NoHandler    == [pc |-> "none", answer |-> "none", early |-> FALSE]
EndedHandler == [NoHandler EXCEPT !.pc = "ended"]

Init ==
  /\ phase = [w \in Workers |-> IF w \in Ready THEN "serving" ELSE "off"]
  /\ is_draining = [w \in Workers |-> FALSE]
  /\ current_load = [w \in Workers |-> 0]
  /\ timedOut = [w \in Workers |-> FALSE]
  /\ counters = [y \in Types |-> 0]
  /\ thread = [c \in Calls |-> "idle"]
  /\ list = [c \in Calls |-> <<>>]
  /\ target = [c \in Calls |-> NoOne]
  /\ handler = [c \in Calls |-> NoHandler]
  /\ handled = [c \in Calls |-> FALSE]
  /\ got = [c \in Calls |-> "none"]
  /\ recent = [y \in Types |-> [list |-> <<>>, places |-> <<>>]]

-----------------------------------------------------------------------------
(* The dispatcher: lookup_worker, select, dispatch_task.                   *)

Goto(c, from, to) == thread[c] = from /\ thread' = [thread EXCEPT ![c] = to]

(* An empty list selects nobody; so do an error and a timeout of the name  *)
(* service. The task is then queued again, and looked up later. A list may *)
(* still have workers that are gone.                                       *)
Lookup(c) ==
  /\ Goto(c, "idle", "select")
  /\ \E l \in Lists :
       /\ \A i \in DOMAIN l : phase[l[i]] # "off"
       /\ list' = [list EXCEPT ![c] = l]
  /\ UNCHANGED <<main, current_load, target, counters, recent, handler, handled, got>>

(* Mutant: one counter for all types.                                      *)
SharedCounter(y) == CHOOSE z \in Types : TRUE

CounterOf(y) == y

LastN(s, n) == SubSeq(s, IF Len(s) > n THEN Len(s) - n + 1 ELSE 1, Len(s))

(* The worker is picked under the selector's lock and called: the call     *)
(* reaches it when its port is open.                                       *)
Select(c) ==
  LET y    == TypeOf[c]
      n    == Len(list[c])
      i    == (counters[CounterOf(y)] % n) + 1
      pick == list[c][i]
      old  == IF recent[y].list = list[c] THEN recent[y].places ELSE <<>>
  IN
  /\ Goto(c, "select", "wait")
  /\ counters' = [counters EXCEPT ![CounterOf(y)] = @ + 1]
  /\ recent' = [recent EXCEPT ![y] =
       [list |-> list[c], places |-> LastN(Append(old, i), n)]]
  /\ list' = [list EXCEPT ![c] = <<>>]
  /\ IF phase[pick] \in {"serving", "updating", "waiting", "stuck"}
     THEN /\ target' = [target EXCEPT ![c] = pick]
          /\ handler' = [handler EXCEPT ![c].pc = "queued"]
     ELSE UNCHANGED <<target, handler>>
  /\ UNCHANGED <<main, current_load, handled, got>>

(* The deadline of 5 s, or a connection error, which any call may meet.    *)
RpcError(c) ==
  /\ Goto(c, "wait", "over")
  /\ UNCHANGED <<main, current_load, list, target, counters, recent,
                 handler, handled, got>>

-----------------------------------------------------------------------------
(* ExecuteTask, in a thread of the worker's pool.                          *)

At(w, pcs) == {c \in Calls : target[c] = w /\ handler[c].pc \in pcs}
Counted    == {"working", "sendingCOMPLETED", "sendingFAILED", "finally"}
InPool     == Counted \cup {"begin", "return"}

HandlerAnswers(c, from, to, answer) ==
  /\ handler[c].pc = from
  /\ handler' = [handler EXCEPT ![c].pc = to, ![c].answer = answer]
  /\ UNCHANGED <<main, list, target, counters, recent>>

Handler(c, from, to) == HandlerAnswers(c, from, to, handler[c].answer)

Quiet == UNCHANGED <<thread, current_load, handled, got>>

(* Mutant: the draining test is inside the try, so finally runs for it too.*)
RejectedDecreases(c) ==
  /\ handler[c].pc = "queued"
  /\ Cardinality(At(target[c], InPool)) < Slots
  /\ IF is_draining[target[c]]
     THEN HandlerAnswers(c, "queued", "finally", "rejected")
     ELSE Handler(c, "queued", "begin")
  /\ Quiet

CheckDraining(c) ==
  /\ handler[c].pc = "queued"
  /\ Cardinality(At(target[c], InPool)) < Slots
  /\ IF is_draining[target[c]]
     THEN HandlerAnswers(c, "queued", "return", "rejected")
     ELSE Handler(c, "queued", "begin")
  /\ Quiet

(* load_lock is free unless the main thread keeps it for ever.             *)
LockFree(w) == phase[w] \notin {"stuck", "jammed"}

IncreaseLoad(c) ==
  /\ handler[c].pc = "begin"
  /\ LockFree(target[c])
  /\ handler' = [handler EXCEPT ![c].pc = "working", ![c].early = ~is_draining[target[c]]]
  /\ current_load' = [current_load EXCEPT ![target[c]] = @ + 1]
  /\ UNCHANGED <<main, caller, handled, got>>

(* process_task returns or raises.                                         *)
ProcessTask(c) ==
  /\ Handler(c, "working", "sendingCOMPLETED") \/ Handler(c, "working", "sendingFAILED")
  /\ Quiet

(* ReturnResult at the dispatcher, before the worker has its answer.       *)
ReturnResult(c) ==
  /\ handler[c].pc \in {"sendingCOMPLETED", "sendingFAILED"} /\ ~handled[c]
  /\ handled' = [handled EXCEPT ![c] = TRUE]
  /\ UNCHANGED <<main, current_load, caller, handler, got>>

(* Mutant: the worker does not wait for the dispatcher's answer.           *)
SendUnacknowledged(c) ==
  /\ \/ HandlerAnswers(c, "sendingCOMPLETED", "finally", "accepted")
     \/ HandlerAnswers(c, "sendingFAILED", "finally", "failed")
  /\ Quiet

SendReturns(c) ==
  /\ handled[c]
  /\ \/ HandlerAnswers(c, "sendingCOMPLETED", "finally", "accepted")
     \/ HandlerAnswers(c, "sendingFAILED", "finally", "failed")
  /\ Quiet

(* Sending COMPLETED raises, whether or not it was handled: FAILED is sent.*)
SendRaises(c) ==
  /\ Handler(c, "sendingCOMPLETED", "sendingFAILED")
  /\ handled' = [handled EXCEPT ![c] = FALSE]
  /\ UNCHANGED <<thread, current_load, got>>

(* Mutant: the load is decreased after the except block, not in a finally. *)
FallbackSkipsDecrease(c) == HandlerAnswers(c, "sendingFAILED", "return", "error") /\ Quiet

(* Sending FAILED raises: the exception leaves ExecuteTask.                *)
FallbackRaises(c) == HandlerAnswers(c, "sendingFAILED", "finally", "error") /\ Quiet

DecreaseLoad(c) ==
  /\ Handler(c, "finally", "return")
  /\ LockFree(target[c])
  /\ current_load' = [current_load EXCEPT ![target[c]] = @ - 1]
  /\ UNCHANGED <<thread, handled, got>>

(* The call is over: the worker forgets it.                                *)
Ended(c) ==
  /\ handler' = [handler EXCEPT ![c] = EndedHandler]
  /\ target' = [target EXCEPT ![c] = NoOne]
  /\ handled' = [handled EXCEPT ![c] = FALSE]
  /\ UNCHANGED <<main, current_load, list, counters, recent>>

(* gRPC does not start a call nobody waits for any more.                   *)
Dropped(c) ==
  /\ handler[c].pc = "queued" /\ thread[c] # "wait"
  /\ Ended(c)
  /\ UNCHANGED <<thread, got>>

(* What dispatch_task makes of an answer: True, False or None.             *)
Success(answer) ==
  CASE answer = "accepted"             -> "accepted"
    [] answer \in {"failed", "rejected"} -> "refused"
    [] OTHER                           -> "none"

(* The answer, or the error the exception became, reaches who waits.       *)
Return(c) ==
  /\ handler[c].pc = "return"
  /\ Ended(c)
  /\ IF thread[c] = "wait"
     THEN /\ thread' = [thread EXCEPT ![c] = "over"]
          /\ got' = [got EXCEPT ![c] = Success(handler[c].answer)]
     ELSE UNCHANGED <<thread, got>>

-----------------------------------------------------------------------------
(* The main thread of a worker.                                            *)

Phase(w, from, to) ==
  /\ phase[w] \in from
  /\ phase' = [phase EXCEPT ![w] = to]
  /\ UNCHANGED <<current_load, caller, handler, handled, got>>

(* serve: the signal handlers are installed, register_worker runs.         *)
Start(w) == Phase(w, {"off"}, "starting") /\ UNCHANGED <<is_draining, timedOut>>

ServerStart(w) == Phase(w, {"starting"}, "serving") /\ UNCHANGED <<is_draining, timedOut>>

(* The shutdown starts, again if one is under way.                         *)
Shutdown(w) ==
  \/ Phase(w, {"serving", "updating", "waiting"}, "updating")
  \/ Phase(w, {"starting", "quitting"}, "quitting")
  \/ Phase(w, {"joining", "hurrying"}, "hurrying")

(* Mutant: the flag is not set.                                            *)
SignalOnly(w) == w \in Mortal /\ Shutdown(w) /\ UNCHANGED <<is_draining, timedOut>>

(* SIGTERM or SIGINT: handle_shutdown_signal.                              *)
Signal(w) ==
  /\ w \in Mortal
  /\ Shutdown(w)
  /\ is_draining' = [is_draining EXCEPT ![w] = TRUE]
  /\ UNCHANGED timedOut

(* The signal finds the main thread inside get_current_load; the handler   *)
(* calls it again and waits for the lock its own thread holds.             *)
SignalInLock(w) ==
  /\ w \in Mortal
  /\ \/ Phase(w, {"updating", "waiting"}, "stuck")
     \/ Phase(w, {"starting", "quitting", "hurrying"}, "jammed")
  /\ is_draining' = [is_draining EXCEPT ![w] = TRUE]
  /\ UNCHANGED timedOut

(* The process ends, and its memory and its calls with it.                 *)
Ends(w, from) ==
  /\ phase[w] \in from
  /\ phase' = [phase EXCEPT ![w] = "gone"]
  /\ is_draining' = [is_draining EXCEPT ![w] = FALSE]
  /\ timedOut' = [timedOut EXCEPT ![w] = FALSE]
  /\ current_load' = [current_load EXCEPT ![w] = 0]
  /\ handler' = [c \in Calls |-> IF target[c] = w THEN EndedHandler ELSE handler[c]]
  /\ handled' = [c \in Calls |-> target[c] # w /\ handled[c]]
  /\ target' = [c \in Calls |-> IF target[c] = w THEN NoOne ELSE target[c]]
  /\ UNCHANGED <<thread, list, counters, recent, got>>

(* update_worker_status("DRAINING") ends, or fails.                        *)
UpdateStatus(w) == Phase(w, {"updating"}, "waiting") /\ UNCHANGED <<is_draining, timedOut>>

(* wait_for_running_tasks ends when the load is 0 or by SHUTDOWN_TIMEOUT.  *)
WaitEnds(w) ==
  /\ Phase(w, {"waiting"}, "joining")
  /\ timedOut' = [timedOut EXCEPT ![w] = current_load[w] > 0]
  /\ UNCHANGED is_draining

(* sys.exit: the interpreter waits for the threads of the gRPC pool.       *)
Exit(w) ==
  /\ At(w, InPool \cup {"queued"}) = {}
  /\ Ends(w, {"joining"})

(* sys.exit when no pool runs yet, or inside that wait, which it aborts.   *)
ExitAtOnce(w) == Ends(w, {"quitting", "hurrying"})

(* A crash, or SIGKILL when the grace period of docker stop is over.       *)
Kill(w) ==
  /\ w \in Mortal
  /\ Ends(w, {"starting", "serving", "updating", "waiting", "joining", "quitting", "hurrying",
              "stuck", "jammed"})

-----------------------------------------------------------------------------
CallerStep(c) == Lookup(c) \/ Select(c) \/ RpcError(c)

HandlerStep(c) ==
  \/ CheckDraining(c) \/ Dropped(c) \/ IncreaseLoad(c) \/ ProcessTask(c)
  \/ ReturnResult(c) \/ SendReturns(c) \/ SendRaises(c) \/ FallbackRaises(c)
  \/ DecreaseLoad(c) \/ Return(c)

MainStep(w) ==
  \/ Start(w) \/ ServerStart(w) \/ Signal(w) \/ SignalInLock(w) \/ UpdateStatus(w)
  \/ WaitEnds(w) \/ Exit(w) \/ ExitAtOnce(w) \/ Kill(w)

(* Workers may rest when no dispatch is under way.                         *)
Rest == (\A c \in Calls : thread[c] \in {"idle", "over"}) /\ UNCHANGED vars

Next ==
  \/ \E c \in Calls : CallerStep(c) \/ HandlerStep(c)
  \/ \E w \in Workers : MainStep(w)
  \/ Rest

Spec == Init /\ [][Next]_vars

=============================================================================
