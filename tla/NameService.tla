----------------------------- MODULE NameService -----------------------------
(***************************************************************************)
(* The name service (namensdienst/nameservice.py) and what workers do with *)
(* it (worker.py): registration, heartbeats, the status update of a worker *)
(* that drains, and the expiry loop.                                       *)
(*                                                                         *)
(* The handlers and the loop share the list self.workers under no lock.    *)
(* RegisterWorker and DeregisterWorker filter the list entry by entry and  *)
(* assign the result later, a heartbeat searches it entry by entry, and    *)
(* the loop removes in place: a removal of an entry an iteration has       *)
(* passed makes the iteration skip the next one. A single append or remove *)
(* is atomic. Every list is in the order its entries were appended in, so  *)
(* a list is the set of its entries.                                       *)
(*                                                                         *)
(* Time passes in ticks of one heartbeat interval (5 s). In each tick a    *)
(* live worker's heartbeat is handled or lost, the loop (every 1 s) makes  *)
(* a pass, and the handlers that have begun come to their end.             *)
(***************************************************************************)
EXTENDS Naturals, Sequences

CONSTANTS
  Workers,       \* worker_ids, each with an address and port of its own
  TypesOf,       \* per worker its TASK_TYPES, in order
  UnhealthyAge,  \* NAMESERVICE_UNHEALTHY_SECS in ticks (10 s: 2)
  OfflineAge,    \* that times NAMESERVICE_OFFLINE_MULT (20 s: 4)
  Deregistered,  \* the workers an operator may deregister
  MaxCalls,      \* bound on all RegisterWorker and DeregisterWorker calls
  MaxRestarts    \* bound on the restarts of the name service

ASSUME AgesAssumption ==
  UnhealthyAge \in Nat /\ OfflineAge \in Nat /\ 1 < UnhealthyAge /\ UnhealthyAge <= OfflineAge
ASSUME CallsAssumption == MaxCalls \in Nat /\ MaxRestarts \in Nat
ASSUME OperatorAssumption == Deregistered \subseteq Workers
ASSUME TypesAssumption == \A w \in Workers : Len(TypesOf[w]) \in Nat \ {0}

VARIABLES
  phase,      \* per worker process: "off", "registering", "up", "leaving"
              \* (draining, the status update was tried), "quitting" (the
              \* same, before heartbeats began)
  made,       \* RegisterWorker and DeregisterWorker calls so far
  calls,      \* per worker the number of its latest call
  attempt,    \* per worker the call register_worker waits for, 0: none
  handlers,   \* the RegisterWorker and DeregisterWorker handlers that run
  listed,     \* self.workers
  born,       \* per entry, the how manyth it was appended as, 0: not yet
  births,     \* entries appended so far
  status,     \* Worker.status of each entry
  age,        \* ticks since Worker.lastHeartbeat, up to OfflineAge
  beat,       \* per worker, this tick's heartbeat: "due", "seeking" its
              \* entry, "found", "stamped", "done"
  rest,       \* the entries the search of a heartbeat has not come to yet
  target,     \* the entry a heartbeat has found
  loop,       \* the expiry thread: "sleep", "check", "mark", "remove", "dead"
  todo,       \* what is left of the loop's copy of the list
  cur,        \* the entry the loop handles, and whether its age was read
              \* to be OfflineAge or more
  passed,     \* the loop has made a pass in this tick
  steady,     \* [auxiliary] registered and no heartbeat lost since
  exposed,    \* [auxiliary] another call's handler cut across the worker's
              \* last call, or the name service was restarted since
  skipped,    \* [auxiliary] since the worker's last call began, an entry of
              \* it was skipped by a heartbeat of its own or by the filter
              \* of another worker's call
  restarts    \* restarts of the name service so far

worker == <<phase, made, calls, attempt>>
list   == <<listed, born, births>>
entry  == <<status, age>>
beats  == <<beat, rest, target>>
thread == <<loop, todo, cur, passed>>
ghosts == <<steady, exposed, skipped>>
vars   == <<worker, handlers, list, entry, beats, thread, ghosts, restarts>>

Calls == 1..MaxCalls

(* The entry of the i-th type of worker w made by call k.                  *)
Entries == UNION {[w : {w}, k : Calls, i : 1..Len(TypesOf[w])] : w \in Workers}
EntryState == {"ACTIVE", "DRAINING", "UNHEALTHY", "OFFLINE"}

(* A handler of call k of worker w: what it has kept of the list so far,   *)
(* the entries its filter has not come to yet, and the type it appends     *)
(* next with which status.                                                 *)
Handler == [w : Workers, k : Calls, op : {"register", "deregister"},
            pc : {"filter", "assign", "append", "reply"},
            kept : SUBSET Entries, ahead : SUBSET Entries, i : Nat, status : EntryState]

Of(w) == {e \in listed : e.w = w}

(* The first entry of a list, if it has one.                               *)
First(S) == {e \in S : \A d \in S : born[e] <= born[d]}

(* LookupWorker for type t, when nothing is removed while it reads.        *)
LookupWorker(t) ==
  {e \in listed : TypesOf[e.w][e.i] = t /\ status[e] \notin {"UNHEALTHY", "OFFLINE"}}

Init ==
  /\ phase = [w \in Workers |-> "off"]
  /\ made = 0
  /\ calls = [w \in Workers |-> 0]
  /\ attempt = [w \in Workers |-> 0]
  /\ handlers = {}
  /\ listed = {}
  /\ born = [e \in Entries |-> 0]
  /\ births = 0
  /\ status = [e \in Entries |-> "ACTIVE"]
  /\ age = [e \in Entries |-> 0]
  /\ beat = [w \in Workers |-> "due"]
  /\ rest = [w \in Workers |-> {}]
  /\ target = [w \in Workers |-> {}]
  /\ loop = "sleep"
  /\ todo = {}
  /\ cur = [entry |-> {}, offline |-> FALSE]
  /\ passed = FALSE
  /\ steady = [w \in Workers |-> FALSE]
  /\ exposed = [w \in Workers |-> FALSE]
  /\ skipped = [w \in Workers |-> FALSE]
  /\ restarts = 0

-----------------------------------------------------------------------------
(* The worker process.                                                     *)

Move(w, from, to) == phase[w] \in from /\ phase' = [phase EXCEPT ![w] = to]
NameServiceIdle == UNCHANGED <<made, calls, handlers, list, entry, beats, thread, exposed, skipped>>

Start(w) == Move(w, {"off"}, "registering") /\ NameServiceIdle /\ UNCHANGED <<attempt, steady>>

(* SIGTERM, which may come again while the shutdown is under way.          *)
Leave(w) == Move(w, {"up", "leaving"}, "leaving") \/ Move(w, {"registering", "quitting"}, "quitting")

(* update_worker_status cannot reach the name service; a worker that still *)
(* registers then just exits.                                              *)
UpdateFails(w) == Move(w, {"up"}, "leaving") /\ NameServiceIdle /\ UNCHANGED <<attempt, steady>>

(* sys.exit after draining, five failed registrations, or a crash.         *)
Exit(w) ==
  /\ Move(w, {"registering", "up", "leaving", "quitting"}, "off")
  /\ attempt' = [attempt EXCEPT ![w] = 0]
  /\ steady' = [steady EXCEPT ![w] = FALSE]
  /\ NameServiceIdle

-----------------------------------------------------------------------------
(* RegisterWorker and DeregisterWorker. A client that gives up on a call   *)
(* does not end its handler, so calls of one worker may overlap too.       *)

(* A handler starts to filter the list.                                    *)
Call(w, op, sent) ==
  /\ made < MaxCalls
  /\ made' = made + 1
  /\ calls' = [calls EXCEPT ![w] = made']
  /\ handlers' = handlers \cup {[w |-> w, k |-> made', op |-> op, pc |-> "filter",
                                 kept |-> {}, ahead |-> listed, i |-> 1, status |-> sent]}
  /\ exposed' = [exposed EXCEPT ![w] = \E h \in handlers : h.w = w]
  /\ skipped' = [skipped EXCEPT ![w] = FALSE]
  /\ UNCHANGED <<list, entry, beats, thread>>

(* An attempt of register_worker; it has given up on the one before.       *)
Register(w) ==
  /\ phase[w] = "registering"
  /\ Call(w, "register", "ACTIVE")
  /\ attempt' = [attempt EXCEPT ![w] = made']
  /\ UNCHANGED <<phase, steady>>

(* SIGTERM: update_worker_status("DRAINING"). Heartbeats go on until the   *)
(* process exits.                                                          *)
UpdateStatus(w) ==
  /\ Leave(w)
  /\ Call(w, "register", "DRAINING")
  /\ UNCHANGED <<attempt, steady>>

(* An operator's call: worker.py defines deregister_worker but never calls *)
(* it.                                                                     *)
Deregister(w) ==
  /\ w \in Deregistered
  /\ Call(w, "deregister", "ACTIVE")
  /\ steady' = [steady EXCEPT ![w] = FALSE]
  /\ UNCHANGED <<phase, attempt>>

Others(w, S) == {e \in S : e.w # w}

(* What a filter makes of the list unless the list still changes:          *)
(* addresses and ports are the worker's own.                               *)
Result(h) == h.kept \cup Others(h.w, h.ahead)

(* A filter goes past an entry. Where it stands matters only to a removal. *)
Visit(h) ==
  /\ loop = "remove" /\ h.pc = "filter" /\ h.ahead # {}
  /\ handlers' = (handlers \ {h}) \cup
       {[h EXCEPT !.kept = @ \cup Others(h.w, First(h.ahead)), !.ahead = @ \ First(@)]}
  /\ UNCHANGED <<worker, list, entry, beats, thread, ghosts>>

Filtered(h) ==
  IF h.pc = "filter" THEN [h EXCEPT !.pc = "assign", !.kept = Result(h), !.ahead = {}] ELSE h

FilterEnds(h) ==
  /\ h.pc = "filter"
  /\ handlers' = (handlers \ {h}) \cup {Filtered(h)}
  /\ UNCHANGED <<worker, list, entry, beats, thread, ghosts>>

(* A search of a list nobody changes any more finds the worker's first     *)
(* entry or none.                                                          *)
Own(w) == {e \in rest[w] : e.w = w}
Sought(w) == IF Own(w) = {} THEN "done" ELSE "found"

(* The filtered list becomes self.workers. What the other handlers iterate *)
(* then is a list that does not change any more.                           *)
Assign(h) ==
  /\ h.pc = "assign"
  /\ listed' = h.kept
  /\ handlers' = {Filtered(g) : g \in handlers \ {h}} \cup
       {g \in {[h EXCEPT !.pc = "append", !.kept = {}]} : h.op = "register"}
  /\ beat' = [w \in Workers |-> IF beat[w] = "seeking" THEN Sought(w) ELSE beat[w]]
  /\ target' = [w \in Workers |-> IF beat[w] = "seeking" THEN First(Own(w)) ELSE target[w]]
  /\ rest' = [w \in Workers |-> {}]
  /\ exposed' = [exposed EXCEPT ![h.w] = @ \/ \E g \in handlers \ {h} : g.pc \in {"filter", "assign"}]
  /\ UNCHANGED <<worker, born, births, entry, thread, steady, skipped>>

(* One entry per type, with lastHeartbeat = now, is appended to whatever   *)
(* list is there; who still iterates that list comes to it.                *)
AppendEntry(h) ==
  LET e == [w |-> h.w, k |-> h.k, i |-> h.i] IN
  /\ h.pc = "append"
  /\ listed' = listed \cup {e}
  /\ births' = births + 1
  /\ born' = [born EXCEPT ![e] = births']
  /\ status' = [status EXCEPT ![e] = h.status]
  /\ age' = [age EXCEPT ![e] = 0]
  /\ handlers' =
       {IF g.pc = "filter" THEN [g EXCEPT !.ahead = @ \cup {e}] ELSE g : g \in handlers \ {h}} \cup
       {[h EXCEPT !.i = @ + 1, !.pc = IF h.i = Len(TypesOf[h.w]) THEN "reply" ELSE "append"]}
  /\ rest' = [w \in Workers |-> IF beat[w] = "seeking" THEN rest[w] \cup {e} ELSE rest[w]]
  /\ exposed' = [exposed EXCEPT ![h.w] = @ \/ \E g \in handlers \ {h} : g.pc = "assign"]
  /\ UNCHANGED <<worker, beat, target, thread, steady, skipped>>

(* The answer reaches a worker that waits for it, or it is lost and the    *)
(* worker tries again; the other callers ignore it.                        *)
Reply(h) ==
  /\ h.pc = "reply"
  /\ handlers' = handlers \ {h}
  /\ \/ /\ phase[h.w] = "registering" /\ attempt[h.w] = h.k
        /\ phase' = [phase EXCEPT ![h.w] = "up"]
        /\ steady' = [steady EXCEPT ![h.w] = TRUE]
     \/ UNCHANGED <<phase, steady>>
  /\ UNCHANGED <<made, calls, attempt, list, entry, beats, thread, exposed, skipped>>

-----------------------------------------------------------------------------
(* SendHeartbeat.                                                          *)

Alive(w) == phase[w] \in {"up", "leaving"}
HeartbeatOnly == UNCHANGED <<worker, handlers, list, thread, exposed, skipped>>

Heartbeat(w) ==
  /\ Alive(w) /\ beat[w] = "due"
  /\ beat' = [beat EXCEPT ![w] = "seeking"]
  /\ rest' = [rest EXCEPT ![w] = listed]
  /\ HeartbeatOnly /\ UNCHANGED <<entry, target, steady>>

(* The search goes past an entry of another worker.                        *)
HeartbeatVisit(w) ==
  /\ loop = "remove" /\ beat[w] = "seeking"
  /\ rest[w] # {} /\ \A e \in First(rest[w]) : e.w # w
  /\ rest' = [rest EXCEPT ![w] = @ \ First(@)]
  /\ HeartbeatOnly /\ UNCHANGED <<entry, beat, target, steady>>

(* It stops at the first entry with the worker's id; the worker ignores    *)
(* that there is none.                                                     *)
HeartbeatFinds(w) ==
  /\ beat[w] = "seeking"
  /\ beat' = [beat EXCEPT ![w] = Sought(w)]
  /\ target' = [target EXCEPT ![w] = First(Own(w))]
  /\ rest' = [rest EXCEPT ![w] = {}]
  /\ HeartbeatOnly /\ UNCHANGED <<entry, steady>>

(* Mutant: lastHeartbeat is not set.                                       *)
HeartbeatUnstamped(w) ==
  /\ beat[w] = "found"
  /\ beat' = [beat EXCEPT ![w] = "stamped"]
  /\ HeartbeatOnly /\ UNCHANGED <<entry, rest, target, steady>>

HeartbeatStamp(w) ==
  /\ beat[w] = "found"
  /\ beat' = [beat EXCEPT ![w] = "stamped"]
  /\ age' = [e \in Entries |-> IF e \in target[w] THEN 0 ELSE age[e]]
  /\ HeartbeatOnly /\ UNCHANGED <<status, rest, target, steady>>

(* payload.status is never set, so the status becomes ACTIVE.              *)
HeartbeatStatus(w) ==
  /\ beat[w] = "stamped"
  /\ beat' = [beat EXCEPT ![w] = "done"]
  /\ status' = [e \in Entries |-> IF e \in target[w] THEN "ACTIVE" ELSE status[e]]
  /\ target' = [target EXCEPT ![w] = {}]
  /\ HeartbeatOnly /\ UNCHANGED <<age, rest, steady>>

HeartbeatLost(w) ==
  /\ Alive(w) /\ beat[w] = "due"
  /\ beat' = [beat EXCEPT ![w] = "done"]
  /\ steady' = [steady EXCEPT ![w] = FALSE]
  /\ HeartbeatOnly /\ UNCHANGED <<entry, rest, target>>

-----------------------------------------------------------------------------
(* The expiry loop.                                                        *)

LoopOnly == UNCHANGED <<worker, born, births, age, beat, target, steady, exposed>>
Undisturbed == UNCHANGED <<handlers, listed, rest, skipped>>

(* Mutant: entries once marked are skipped.                                *)
LoopStartFresh ==
  LET old == {e \in listed : age[e] >= UnhealthyAge /\ status[e] # "UNHEALTHY"} IN
  /\ loop = "sleep"
  /\ IF old = {} THEN passed' = TRUE /\ UNCHANGED <<loop, todo>>
                 ELSE loop' = "check" /\ todo' = old /\ UNCHANGED passed
  /\ UNCHANGED <<status, cur>> /\ Undisturbed /\ LoopOnly

(* Nothing happens in a pass to the entries that are fresh at its start,   *)
(* so the loop's copy of the list holds the others, and a pass without any *)
(* is one step.                                                            *)
LoopStart ==
  LET old == {e \in listed : age[e] >= UnhealthyAge} IN
  /\ loop = "sleep"
  /\ IF old = {} THEN passed' = TRUE /\ UNCHANGED <<loop, todo>>
                 ELSE loop' = "check" /\ todo' = old /\ UNCHANGED passed
  /\ UNCHANGED <<status, cur>> /\ Undisturbed /\ LoopOnly

(* Mutant: > for >= in line 120.                                           *)
LoopCheckLater(e) ==
  /\ loop = "check" /\ e \in First(todo)
  /\ todo' = todo \ {e}
  /\ IF age[e] > UnhealthyAge
     THEN loop' = "mark" /\ cur' = [entry |-> {e}, offline |-> age[e] >= OfflineAge]
     ELSE UNCHANGED <<loop, cur>>
  /\ UNCHANGED <<status, passed>> /\ Undisturbed /\ LoopOnly

(* elapsed is read before the status is written.                           *)
LoopCheck(e) ==
  /\ loop = "check" /\ e \in First(todo)
  /\ todo' = todo \ {e}
  /\ IF age[e] >= UnhealthyAge
     THEN loop' = "mark" /\ cur' = [entry |-> {e}, offline |-> age[e] >= OfflineAge]
     ELSE UNCHANGED <<loop, cur>>
  /\ UNCHANGED <<status, passed>> /\ Undisturbed /\ LoopOnly

(* Mutant: the state ADR-002 names.                                        *)
LoopMarkInactive ==
  /\ loop = "mark"
  /\ status' = [e \in Entries |-> IF e \in cur.entry THEN "INACTIVE" ELSE status[e]]
  /\ loop' = IF cur.offline THEN "remove" ELSE "check"
  /\ UNCHANGED <<todo, cur, passed>> /\ Undisturbed /\ LoopOnly

(* Nobody can tell the UNHEALTHY an offline entry has in between.          *)
LoopMark ==
  /\ loop = "mark"
  /\ status' = [e \in Entries |-> IF e \in cur.entry
                                  THEN IF cur.offline THEN "OFFLINE" ELSE "UNHEALTHY"
                                  ELSE status[e]]
  /\ loop' = IF cur.offline THEN "remove" ELSE "check"
  /\ UNCHANGED <<todo, cur, passed>> /\ Undisturbed /\ LoopOnly

(* A removal moves the entries behind it up. An iteration that has passed  *)
(* the removed entry misses the one it would have come to next.            *)
Missed(S) == IF cur.entry \subseteq S THEN {} ELSE First(S)
Shifted(S) == S \ (cur.entry \cup Missed(S))
Misses(w) ==
  \/ \E h \in handlers : h.w # w /\ \E e \in Missed(h.ahead) : e.w = w
  \/ \E e \in Missed(rest[w]) : e.w = w

(* list.remove raises ValueError when the entry is gone: the thread ends.  *)
LoopRemove ==
  /\ loop = "remove"
  /\ IF cur.entry \subseteq listed
     THEN /\ loop' = "check"
          /\ listed' = listed \ cur.entry
          /\ handlers' = {[h EXCEPT !.ahead = Shifted(@)] : h \in handlers}
          /\ rest' = [w \in Workers |-> Shifted(rest[w])]
          /\ skipped' = [w \in Workers |-> skipped[w] \/ Misses(w)]
     ELSE loop' = "dead" /\ Undisturbed
  /\ UNCHANGED <<status, todo, cur, passed>> /\ LoopOnly

LoopEnd ==
  /\ loop = "check" /\ todo = {}
  /\ loop' = "sleep"
  /\ passed' = TRUE
  /\ cur' = [entry |-> {}, offline |-> FALSE]
  /\ UNCHANGED <<todo, status>> /\ Undisturbed /\ LoopOnly

-----------------------------------------------------------------------------
(* One heartbeat interval passes. Entries no longer listed are forgotten.  *)
Tick ==
  /\ loop = "dead" \/ (loop = "sleep" /\ passed)
  /\ handlers = {}
  /\ \A w \in Workers :
       /\ beat[w] \in {"due", "done"}
       /\ Alive(w) => beat[w] = "done"
  /\ age' = [e \in Entries |-> IF e \notin listed THEN 0
                               ELSE IF age[e] < OfflineAge THEN age[e] + 1 ELSE age[e]]
  /\ status' = [e \in Entries |-> IF e \notin listed THEN "ACTIVE" ELSE status[e]]
  /\ beat' = [w \in Workers |-> "due"]
  /\ passed' = FALSE
  /\ UNCHANGED <<worker, handlers, list, rest, target, loop, todo, cur, ghosts, restarts>>

(* The process is started again with an empty list; the calls it handled   *)
(* end with an error, which is a lost heartbeat for who sent one.          *)
Answered(w) == beat[w] \in {"due", "done"}
Restart ==
  /\ restarts < MaxRestarts
  /\ restarts' = restarts + 1
  /\ listed' = {}
  /\ handlers' = {}
  /\ steady' = [w \in Workers |-> steady[w] /\ Answered(w)]
  /\ exposed' = [w \in Workers |-> TRUE]
  /\ beat' = [w \in Workers |-> IF Answered(w) THEN beat[w] ELSE "done"]
  /\ rest' = [w \in Workers |-> {}]
  /\ target' = [w \in Workers |-> {}]
  /\ loop' = "sleep"
  /\ todo' = {}
  /\ cur' = [entry |-> {}, offline |-> FALSE]
  /\ passed' = FALSE
  /\ UNCHANGED <<worker, born, births, entry, skipped>>

WorkerStep(w) ==
  /\ UNCHANGED restarts
  /\ \/ Start(w) \/ UpdateFails(w) \/ Exit(w)
     \/ Register(w) \/ UpdateStatus(w) \/ Deregister(w)

HandlerStep(w) ==
  /\ UNCHANGED restarts
  /\ \/ \E h \in handlers : h.w = w /\ (Visit(h) \/ FilterEnds(h) \/ Assign(h) \/ AppendEntry(h) \/ Reply(h))
     \/ HeartbeatVisit(w) \/ HeartbeatFinds(w) \/ HeartbeatStamp(w) \/ HeartbeatStatus(w)

BeatStep(w) ==
  /\ UNCHANGED restarts
  /\ Heartbeat(w) \/ HeartbeatLost(w)

LoopStep ==
  /\ UNCHANGED restarts
  /\ \/ LoopStart
     \/ \E e \in Entries : LoopCheck(e)
     \/ LoopMark \/ LoopRemove \/ LoopEnd

Next ==
  \/ \E w \in Workers : WorkerStep(w) \/ HandlerStep(w) \/ BeatStep(w)
  \/ LoopStep
  \/ Tick
  \/ Restart

Spec == Init /\ [][Next]_vars

(* Handlers and the loop are threads that run; heartbeats are due at every *)
(* interval, and time passes.                                              *)
Fairness ==
  /\ \A w \in Workers : WF_vars(HandlerStep(w)) /\ WF_vars(BeatStep(w))
  /\ WF_vars(LoopStep) /\ SF_vars(Tick)

FairSpec == Spec /\ Fairness

=============================================================================
