-------------------------- MODULE NameServiceProofs --------------------------
(***************************************************************************)
(* Proofs about the name service, for any sets of workers and types, any   *)
(* ages 1 < UnhealthyAge <= OfflineAge and any number of calls and         *)
(* restarts.                                                               *)
(***************************************************************************)
EXTENDS NameServiceProperties, TLAPS

-----------------------------------------------------------------------------
(* The inductive invariant.                                                *)

Filtering == {"filter", "assign"}  \* between reading the list and assigning
Silenced  == {"UNHEALTHY", "OFFLINE"}

(* What a handler holds at each of its steps.                              *)
HandlerShape ==
  \A h \in handlers :
    /\ h.k <= calls[h.w]
    /\ \A e \in h.kept : e.w # h.w
    /\ h.pc # "filter" => h.ahead = {}
    /\ h.pc \notin Filtering => h.kept = {}
    /\ h.pc \in Filtering => h.i = 1
    /\ h.pc = "append" => h.i \in 1..Len(TypesOf[h.w])
    /\ h.status \notin Silenced
    /\ \A g \in handlers : g.k = h.k => g = h

(* What a heartbeat holds; an entry between its two writes has just been   *)
(* stamped.                                                                *)
BeatShape ==
  \A w \in Workers :
    /\ beat[w] # "seeking" => rest[w] = {}
    /\ beat[w] \notin {"found", "stamped"} => target[w] = {}
    /\ beat[w] = "stamped" => \A e \in target[w] : age[e] = 0

(* The entries a handler has not appended yet, and those it has.           *)
Due(h, e) ==
  /\ e.w = h.w /\ e.k = h.k
  /\ h.pc \in Filtering \/ (h.pc = "append" /\ h.i <= e.i)
Behind(h, e) == e.w = h.w /\ e.k = h.k /\ h.pc = "append" /\ e.i < h.i
Nowhere(e) ==
  /\ e \notin listed /\ e \notin todo /\ e \notin cur.entry /\ age[e] = 0
  /\ \A h \in handlers : e \notin h.kept /\ e \notin h.ahead
  /\ \A w \in Workers : e \notin rest[w] /\ e \notin target[w]
Births ==
  \A e \in Entries :
    /\ e.k > made => born[e] = 0
    /\ \A h \in handlers : (Due(h, e) => born[e] = 0) /\ (Behind(h, e) => born[e] # 0)
    /\ born[e] = 0 => Nowhere(e)

(* The order of the list: no two entries are appended at once, and those   *)
(* of one call in the order of the types.                                  *)
BornOrder ==
  \A d, e \in Entries :
    /\ born[e] <= births
    /\ born[d] = born[e] /\ d # e => born[e] = 0
    /\ d.w = e.w /\ d.k = e.k /\ d.i < e.i /\ born[e] # 0 => born[d] # 0 /\ born[d] < born[e]

(* A handler that runs began after the last tick, so the entries that have *)
(* aged are of earlier calls.                                              *)
Recent == \A e \in Entries : \A h \in handlers : age[e] # 0 /\ h.w = e.w => e.k < h.k

(* A silent entry of a worker's latest call that some handler may still    *)
(* bring into the list is marked, or no handler is about to drop it.       *)
Silent(e) ==
  age[e] >= UnhealthyAge /\ e.k = calls[e.w] /\ status[e] \notin Silenced /\ ~skipped[e.w]
Reachable(e) == e \in listed \/ \E h \in handlers : e \in Result(h)
Carried ==
  \A e \in Entries : Silent(e) /\ Reachable(e) =>
    /\ e \in listed
    /\ \A h \in handlers : h.w # e.w /\ h.pc \in Filtering => e \in Result(h)

(* The pass the loop makes in each tick marks every silent entry.          *)
PassMarks ==
  /\ passed => \A e \in listed : ~Silent(e)
  /\ loop \in {"check", "mark", "remove"} =>
       \A e \in listed : Silent(e) => e \in todo \/ (loop = "mark" /\ e \in cur.entry)
  /\ loop = "remove" => \A e \in cur.entry : ~Silent(e)

(* A call nothing cut across is alone among the calls of its worker.       *)
Solo ==
  \A w \in Workers : ~exposed[w] =>
    \A h \in handlers : h.w = w => h.k = calls[w] /\ (h.op = "deregister" => ~steady[w])

(* The first entry of a worker whose call nothing overlapped: heartbeats   *)
(* find and stamp it, so the loop does not see it and every filter keeps   *)
(* it.                                                                     *)
FirstOf(w) == [w |-> w, k |-> calls[w], i |-> 1]
Writing(w) == \E h \in handlers : h.w = w /\ h.pc \in {"append", "reply"}
Safe(w) == ~exposed[w] /\ ~skipped[w] /\ (Writing(w) \/ Settled(w))
Appended(w) == \A h \in handlers : h.w = w /\ h.pc = "append" => h.i > 1
Latest(w, S) == \A e \in S : e.w = w => e.k = calls[w]
FirstHeld(w) ==
  /\ FirstOf(w) \in listed
  /\ \A h \in handlers : h.w # w /\ h.pc \in Filtering => FirstOf(w) \in Result(h)
  /\ FirstOf(w) \notin todo /\ FirstOf(w) \notin cur.entry
  /\ status[FirstOf(w)] \notin Silenced
  /\ age[FirstOf(w)] <= 1
  /\ beat[w] \in {"stamped", "done"} => age[FirstOf(w)] = 0
  /\ beat[w] = "seeking" /\ age[FirstOf(w)] # 0 => FirstOf(w) \in rest[w]
  /\ beat[w] = "found" /\ age[FirstOf(w)] # 0 => FirstOf(w) \in target[w]
Kept(w) ==
  /\ Latest(w, listed) /\ Latest(w, rest[w])
  /\ \A h \in handlers : Latest(w, Result(h))
  /\ Appended(w) => FirstHeld(w)
FirstKept == \A w \in Workers : Safe(w) => Kept(w)

(* Heartbeats are steady only between a registration and the exit.         *)
SteadyAlive == \A w \in Workers : steady[w] => Alive(w)

IInv ==
  /\ TypeOK /\ HandlerShape /\ BeatShape /\ Births /\ BornOrder /\ Recent
  /\ Carried /\ PassMarks /\ StaleNotOffered
  /\ Solo /\ FirstKept /\ SteadyAlive

-----------------------------------------------------------------------------
(* Entries and handlers.                                                   *)

(* An entry is its worker, call and type index.                            *)
LEMMA EntryFacts ==
  /\ \A e \in Entries : /\ e.w \in Workers /\ e.k \in Calls /\ e.k \in Nat
                        /\ e.i \in 1..Len(TypesOf[e.w]) /\ e.i \in Nat /\ 1 <= e.i
                        /\ e = [w |-> e.w, k |-> e.k, i |-> e.i]
  /\ \A w \in Workers, k \in Calls : \A i \in 1..Len(TypesOf[w]) :
       [w |-> w, k |-> k, i |-> i] \in Entries
<1>1. \A w \in Workers, k \in Calls : \A i \in 1..Len(TypesOf[w]) :
        [w |-> w, k |-> k, i |-> i] \in Entries
  BY DEF Entries
<1>2. ASSUME NEW e \in Entries
      PROVE  /\ e.w \in Workers /\ e.k \in Calls /\ e.i \in 1..Len(TypesOf[e.w])
             /\ e = [w |-> e.w, k |-> e.k, i |-> e.i]
  BY DEF Entries
<1>3. ASSUME NEW e \in Entries PROVE e.k \in Nat /\ e.i \in Nat /\ 1 <= e.i
  BY <1>2, TypesAssumption, CallsAssumption DEF Calls
<1> QED BY <1>1, <1>2, <1>3

(* The first entry of the latest call of a worker.                         *)
LEMMA FirstOfFacts ==
  ASSUME NEW w \in Workers
  PROVE  /\ FirstOf(w).w = w /\ FirstOf(w).k = calls[w] /\ FirstOf(w).i = 1
         /\ calls[w] \in Calls => FirstOf(w) \in Entries
         /\ \A e \in Entries : e.w = w /\ e.k = calls[w] /\ e.i = 1 => e = FirstOf(w)
<1>1. FirstOf(w).w = w /\ FirstOf(w).k = calls[w] /\ FirstOf(w).i = 1
  BY DEF FirstOf
<1>2. 1 \in 1..Len(TypesOf[w])
  BY TypesAssumption
<1>3. calls[w] \in Calls => FirstOf(w) \in Entries
  BY <1>2, EntryFacts DEF FirstOf
<1>4. ASSUME NEW e \in Entries, e.w = w, e.k = calls[w], e.i = 1 PROVE e = FirstOf(w)
  BY <1>4, EntryFacts, Zenon DEF FirstOf
<1> QED BY <1>1, <1>3, <1>4

(* The fields of a handler.                                                *)
LEMMA HandlerFacts ==
  ASSUME NEW h \in Handler
  PROVE  /\ h.w \in Workers /\ h.k \in Calls /\ h.k \in Nat /\ h.i \in Nat
         /\ h.op \in {"register", "deregister"}
         /\ h.pc \in {"filter", "assign", "append", "reply"}
         /\ h.kept \subseteq Entries /\ h.ahead \subseteq Entries /\ h.status \in EntryState
         /\ Result(h) \subseteq Entries /\ h.kept \subseteq Result(h)
         /\ \A e \in Result(h) : e \in h.kept \/ e \in h.ahead
         /\ \A e \in h.ahead : e.w # h.w => e \in Result(h)
         /\ h.ahead = {} => Result(h) = h.kept
<1>1. /\ h.w \in Workers /\ h.k \in Calls /\ h.i \in Nat
      /\ h.op \in {"register", "deregister"}
      /\ h.pc \in {"filter", "assign", "append", "reply"}
      /\ h.kept \subseteq Entries /\ h.ahead \subseteq Entries /\ h.status \in EntryState
  BY DEF Handler
<1>2. h.k \in Nat
  BY <1>1, CallsAssumption DEF Calls
<1> QED BY <1>1, <1>2 DEF Result, Others

(* A filter that ends yields what it was going to yield.                   *)
LEMMA FilteredFacts ==
  ASSUME NEW h \in Handler
  PROVE  /\ Filtered(h) \in Handler
         /\ Filtered(h).w = h.w /\ Filtered(h).k = h.k /\ Filtered(h).op = h.op
         /\ Filtered(h).i = h.i /\ Filtered(h).status = h.status
         /\ h.pc # "filter" => Filtered(h) = h
         /\ h.pc = "filter" => /\ Filtered(h).pc = "assign" /\ Filtered(h).kept = Result(h)
                               /\ Filtered(h).ahead = {}
         /\ Result(Filtered(h)) = Result(h)
<1>1. CASE h.pc # "filter"
  BY <1>1 DEF Filtered
<1>2. CASE h.pc = "filter"
  <2> DEFINE r == [h EXCEPT !.pc = "assign", !.kept = Result(h), !.ahead = {}]
  <2>1. Result(h) \subseteq Entries
    BY HandlerFacts
  <2>2. /\ r \in Handler /\ r.w = h.w /\ r.k = h.k /\ r.op = h.op /\ r.i = h.i
        /\ r.status = h.status /\ r.pc = "assign" /\ r.kept = Result(h) /\ r.ahead = {}
    BY <2>1 DEF Handler
  <2>3. Filtered(h) = r
    BY <1>2 DEF Filtered
  <2> HIDE DEF r
  <2>4. Result(r) = Result(h)
    BY <2>2, HandlerFacts
  <2> QED BY <1>2, <2>2, <2>3, <2>4
<1> QED BY <1>1, <1>2

(* What the type invariant says of the parts of the state.                 *)
LEMMA Types ==
  ASSUME IInv
  PROVE  /\ made \in Nat /\ made <= MaxCalls /\ calls \in [Workers -> 0..made]
         /\ \A w \in Workers : calls[w] \in Nat /\ calls[w] <= made
         /\ handlers \subseteq Handler /\ listed \subseteq Entries
         /\ todo \subseteq Entries /\ cur.entry \subseteq Entries
         /\ born \in [Entries -> Nat] /\ births \in Nat
         /\ age \in [Entries -> 0..OfflineAge] /\ \A e \in Entries : age[e] \in Nat
         /\ status \in [Entries -> EntryState]
         /\ \A w \in Workers : rest[w] \subseteq Entries /\ target[w] \subseteq Entries
<1>1. made \in 0..MaxCalls /\ calls \in [Workers -> 0..made]
  BY DEF IInv, TypeOK
<1>2. made \in Nat /\ made <= MaxCalls /\ \A w \in Workers : calls[w] \in Nat /\ calls[w] <= made
  BY <1>1, CallsAssumption
<1>3. age \in [Entries -> 0..OfflineAge] /\ \A e \in Entries : age[e] \in Nat
  BY AgesAssumption DEF IInv, TypeOK
<1> QED BY <1>1, <1>2, <1>3 DEF IInv, TypeOK

(* A worker whose handler runs has an entry of its latest call that is     *)
(* fresh.                                                                  *)
LEMMA WritingFresh ==
  ASSUME IInv, NEW w \in Workers, ~exposed[w], Writing(w), FirstOf(w) \in Entries
  PROVE  age[FirstOf(w)] = 0
<1>1. PICK h \in handlers : h.w = w
  BY DEF Writing
<1>2. h.k = calls[w] /\ h.k \in Nat
  BY <1>1, Types, HandlerFacts DEF IInv, Solo
<1>3. age[FirstOf(w)] # 0 => FirstOf(w).k < h.k
  BY <1>1, FirstOfFacts DEF IInv, Recent
<1> QED BY <1>2, <1>3, FirstOfFacts

-----------------------------------------------------------------------------
(* The empty list of a new process.                                        *)
LEMMA InitIInv == Init => IInv
<1> SUFFICES ASSUME Init PROVE IInv
  OBVIOUS
<1> USE AgesAssumption, CallsAssumption
<1>1. TypeOK
  <2>1. PICK b \in BOOLEAN : b = FALSE
    OBVIOUS
  <2>2. cur = [entry |-> {}, offline |-> b]
    BY <2>1, Zenon DEF Init
  <2>3. cur \in [entry : SUBSET Entries, offline : BOOLEAN]
    BY <2>2
  <2>4. /\ steady \in [Workers -> BOOLEAN] /\ exposed \in [Workers -> BOOLEAN]
        /\ skipped \in [Workers -> BOOLEAN] /\ passed \in BOOLEAN
    BY DEF Init
  <2> QED BY <2>3, <2>4 DEF Init, TypeOK, EntryState
<1>2. HandlerShape /\ BeatShape
  BY DEF Init, HandlerShape, BeatShape
<1>3. Births /\ BornOrder /\ Recent
  BY DEF Init, Births, BornOrder, Recent, Nowhere
<1>4. Carried /\ PassMarks /\ StaleNotOffered
  BY DEF Init, Carried, PassMarks, StaleNotOffered, Silent, Reachable
<1>5. Solo /\ FirstKept /\ SteadyAlive
  BY DEF Init, Solo, FirstKept, SteadyAlive, Safe, Writing, Settled
<1> QED BY <1>1, <1>2, <1>3, <1>4, <1>5 DEF IInv

-----------------------------------------------------------------------------
(* Two kinds of steps.                                                     *)

(* Steps that leave the list and the handlers alone: an age is only set to *)
(* 0, no mark of a silent entry is lifted, and a heartbeat follows the     *)
(* list until it stamps the first entry.                                   *)
LEMMA EntriesIInv ==
  ASSUME IInv, TypeOK', SteadyAlive', BeatShape', PassMarks',
         UNCHANGED <<made, calls, handlers, list, exposed, skipped>>,
         \A w \in Workers : steady'[w] => steady[w],
         loop # "dead" \/ loop' = "dead",
         \A e \in todo' : e \in todo \/ (e \in listed /\ age[e] >= UnhealthyAge),
         \A e \in cur'.entry : e \in cur.entry \/ e \in todo,
         \A e \in Entries : age'[e] \in {age[e], 0},
         \A e \in Entries : age'[e] # 0 /\ status'[e] \notin Silenced => status[e] \notin Silenced,
         \A e \in Entries : status'[e] \in Silenced => status[e] \in Silenced \/ e \in cur.entry,
         \A w \in Workers : rest'[w] \subseteq rest[w] \cup listed,
         \A w \in Workers : target'[w] \subseteq target[w] \cup rest[w],
         \A w \in Workers :
           FirstOf(w) \in Entries /\ FirstHeld(w) /\ Latest(w, rest[w]) /\ age'[FirstOf(w)] # 0
           /\ steady'[w] =>
             /\ beat'[w] \notin {"stamped", "done"}
             /\ beat'[w] = "seeking" => FirstOf(w) \in rest'[w]
             /\ beat'[w] = "found" => FirstOf(w) \in target'[w]
  PROVE  IInv'
<1> USE Types DEF list
<1>1. HandlerShape'
  BY DEF IInv, HandlerShape
<1>2. Births'
  BY DEF IInv, Births, Due, Behind, Nowhere
<1>3. BornOrder'
  BY DEF IInv, BornOrder
<1>4. Recent'
  BY DEF IInv, Recent
<1>a. ASSUME NEW e \in Entries, Silent(e)' PROVE Silent(e)
  BY <1>a, AgesAssumption DEF Silent
<1>5. Carried'
  <2> SUFFICES ASSUME NEW e \in Entries, Silent(e)', Reachable(e)'
               PROVE  /\ e \in listed
                      /\ \A h \in handlers : h.w # e.w /\ h.pc \in Filtering => e \in Result(h)
    BY DEF Carried, Result, Others
  <2>1. Silent(e) /\ Reachable(e)
    BY <1>a DEF Reachable, Result, Others
  <2> QED BY <2>1 DEF IInv, Carried
<1>6. StaleNotOffered'
  <2> SUFFICES ASSUME loop' # "dead", NEW e \in listed, age'[e] > UnhealthyAge, e.k = calls[e.w],
                      ~skipped[e.w], status'[e] \notin Silenced
               PROVE  FALSE
    BY DEF StaleNotOffered, LookupWorker, Silenced
  <2>1. age'[e] = age[e] /\ age[e] # 0 /\ status[e] \notin Silenced
    BY AgesAssumption
  <2> QED BY <2>1 DEF IInv, StaleNotOffered, LookupWorker, Silenced
<1>7. Solo'
  BY HandlerFacts DEF IInv, Solo
<1>8. FirstKept'
  <2> SUFFICES ASSUME NEW w \in Workers, Safe(w)' PROVE Kept(w)'
    BY DEF FirstKept
  <2>1. Safe(w) /\ FirstOf(w)' = FirstOf(w) /\ (Appended(w)' <=> Appended(w))
    BY DEF Safe, FirstOf, Appended, Writing, Settled
  <2>2. Kept(w)
    BY <2>1 DEF IInv, FirstKept
  <2>3. /\ Latest(w, listed)' /\ Latest(w, rest[w])'
        /\ \A h \in handlers' : Latest(w, Result(h))'
    BY <2>2 DEF Kept, Latest, Result, Others
  <2>4. ASSUME Appended(w) PROVE FirstHeld(w)'
    <3>1. FirstHeld(w) /\ FirstOf(w) \in Entries
      BY <2>2, <2>4 DEF Kept, FirstHeld
    <3>2. ~(age[FirstOf(w)] >= UnhealthyAge)
      BY <3>1, AgesAssumption DEF FirstHeld
    <3>3. FirstOf(w) \notin todo' /\ FirstOf(w) \notin cur'.entry
      BY <3>1, <3>2 DEF FirstHeld
    <3>4. age'[FirstOf(w)] <= 1 /\ status'[FirstOf(w)] \notin Silenced
      BY <3>1 DEF FirstHeld
    <3>5. FirstOf(w) \in listed
          /\ \A h \in handlers : h.w # w /\ h.pc \in Filtering => FirstOf(w) \in Result(h)
      BY <3>1 DEF FirstHeld
    <3>6. ASSUME age'[FirstOf(w)] # 0 PROVE steady'[w]
      <4>1. age[FirstOf(w)] # 0
        BY <3>1, <3>6
      <4>2. ~Writing(w)
        BY <2>1, <3>1, <4>1, WritingFresh DEF Safe
      <4> QED BY <2>1, <4>2 DEF Safe, Writing, Settled
    <3>7. age'[FirstOf(w)] # 0 =>
             /\ beat'[w] \notin {"stamped", "done"}
             /\ beat'[w] = "seeking" => FirstOf(w) \in rest'[w]
             /\ beat'[w] = "found" => FirstOf(w) \in target'[w]
      BY <2>2, <3>1, <3>6 DEF Kept
    <3> QED BY <2>1, <3>3, <3>4, <3>5, <3>7 DEF FirstHeld, Result, Others
  <2> QED BY <2>1, <2>3, <2>4 DEF Kept
<1> QED BY <1>1, <1>2, <1>3, <1>4, <1>5, <1>6, <1>7, <1>8 DEF IInv

(* Steps of handlers that leave the list, its entries and the worker's     *)
(* numbers alone: a handler goes on with the same result, or it ends.      *)
LEMMA HandlersIInv ==
  ASSUME IInv, TypeOK', HandlerShape', SteadyAlive',
         UNCHANGED <<made, calls, list, entry, beats, thread, exposed, skipped>>,
         \A g \in handlers' : \E h \in handlers :
           /\ g.w = h.w /\ g.k = h.k /\ g.op = h.op /\ g.i = h.i
           /\ Result(g) = Result(h) /\ g.kept \subseteq h.kept \cup h.ahead /\ g.ahead \subseteq h.ahead
           /\ g.pc = h.pc \/ (h.pc \in Filtering /\ g.pc \in Filtering),
         \A h \in handlers : h.pc = "append" => h \in handlers',
         \A w \in Workers : Settled(w)' => Settled(w) \/ Writing(w),
         \A g \in handlers' : g.op = "deregister" /\ steady'[g.w] => steady[g.w] \/ exposed[g.w]
  PROVE  IInv'
<1> USE Types DEF list, entry, beats, thread
<1> DEFINE Goes(g, h) == /\ g.w = h.w /\ g.k = h.k /\ g.op = h.op /\ g.i = h.i
                         /\ Result(g) = Result(h)
                         /\ g.kept \subseteq h.kept \cup h.ahead /\ g.ahead \subseteq h.ahead
                         /\ g.pc = h.pc \/ (h.pc \in Filtering /\ g.pc \in Filtering)
<1>0. \A g \in handlers' : \E h \in handlers : Goes(g, h)
  OBVIOUS
<1>1. BeatShape' /\ BornOrder'
  BY DEF IInv, BeatShape, BornOrder
<1>2. Births'
  <2>1. ASSUME NEW e \in Entries, NEW g \in handlers', Due(g, e) PROVE born[e] = 0
    <3>1. PICK h \in handlers : Goes(g, h)
      BY <1>0
    <3>2. Due(h, e)
      BY <2>1, <3>1 DEF Due, Filtering
    <3> QED BY <3>2 DEF IInv, Births
  <2>a. ASSUME NEW e \in Entries, NEW g \in handlers', Behind(g, e) PROVE born[e] # 0
    <3>1. PICK h \in handlers : Goes(g, h)
      BY <1>0
    <3>2. Behind(h, e)
      BY <2>a, <3>1 DEF Behind, Filtering
    <3> QED BY <3>2 DEF IInv, Births
  <2>2. ASSUME NEW e \in Entries, born[e] = 0, NEW g \in handlers' PROVE e \notin g.kept /\ e \notin g.ahead
    <3>1. PICK h \in handlers : Goes(g, h)
      BY <1>0
    <3> QED BY <2>2, <3>1 DEF IInv, Births, Nowhere
  <2> QED BY <2>1, <2>a, <2>2 DEF IInv, Births, Nowhere, Due, Behind
<1>3. Recent'
  BY <1>0 DEF IInv, Recent
<1>a. \A e \in Entries : Silent(e)' <=> Silent(e)
  BY DEF Silent
<1>b. \A g \in handlers' : Result(g)' = Result(g)
  BY DEF Result, Others
<1>4. Carried'
  <2> SUFFICES ASSUME NEW e \in Entries, Silent(e), Reachable(e)'
               PROVE  /\ e \in listed
                      /\ \A g \in handlers' : g.w # e.w /\ g.pc \in Filtering => e \in Result(g)
    BY <1>a, <1>b DEF Carried
  <2>1. Reachable(e)
    BY <1>0, <1>b DEF Reachable
  <2>2. e \in listed /\ \A h \in handlers : h.w # e.w /\ h.pc \in Filtering => e \in Result(h)
    BY <2>1 DEF IInv, Carried
  <2> QED BY <1>0, <2>2
<1>5. PassMarks' /\ StaleNotOffered'
  BY <1>a DEF IInv, PassMarks, StaleNotOffered, LookupWorker
<1>6. Solo'
  <2> SUFFICES ASSUME NEW w \in Workers, ~exposed[w], NEW g \in handlers', g.w = w
               PROVE  g.k = calls[w] /\ (g.op = "deregister" => ~steady'[w])
    BY DEF Solo
  <2>1. PICK h \in handlers : Goes(g, h)
    BY <1>0
  <2> QED BY <2>1 DEF IInv, Solo
<1>7. FirstKept'
  <2> SUFFICES ASSUME NEW w \in Workers, Safe(w)' PROVE Kept(w)'
    BY DEF FirstKept
  <2>1. /\ FirstOf(w)' = FirstOf(w) /\ (Appended(w)' => Appended(w))
        /\ Writing(w)' => Writing(w)
    BY <1>0 DEF FirstOf, Appended, Writing, Filtering
  <2>2. Safe(w)
    BY <2>1 DEF Safe
  <2>3. Kept(w)
    BY <2>2 DEF IInv, FirstKept
  <2>4. \A g \in handlers' : Latest(w, Result(g))
    BY <1>0, <2>3 DEF Kept
  <2>5. ASSUME Appended(w)'
        PROVE  /\ FirstHeld(w)
               /\ \A g \in handlers' : g.w # w /\ g.pc \in Filtering => FirstOf(w) \in Result(g)
    BY <1>0, <2>1, <2>3, <2>5 DEF Kept, FirstHeld, Filtering
  <2>6. FirstHeld(w) /\ (\A g \in handlers' : g.w # w /\ g.pc \in Filtering => FirstOf(w) \in Result(g))
          => FirstHeld(w)'
    BY <1>b, <2>1 DEF FirstHeld
  <2> QED BY <1>b, <2>3, <2>4, <2>5, <2>6 DEF Kept, Latest
<1> QED BY <1>1, <1>2, <1>3, <1>4, <1>5, <1>6, <1>7 DEF IInv

-----------------------------------------------------------------------------
(* The worker process.                                                     *)

(* Steps of the worker process that leave the name service alone.          *)
LEMMA WorkerOnlyIInv ==
  ASSUME IInv, NEW w \in Workers, UNCHANGED restarts, Start(w) \/ UpdateFails(w) \/ Exit(w)
  PROVE  IInv'
<1> USE DEF NameServiceIdle, list, entry, beats, thread
<1>1. /\ phase' \in [Workers -> {"off", "registering", "up", "leaving", "quitting"}]
      /\ steady' \in [Workers -> BOOLEAN] /\ attempt' \in [Workers -> 0..made]
      /\ \A v \in Workers : steady'[v] => steady[v]
      /\ UNCHANGED <<made, calls, handlers, list, entry, beats, thread, exposed, skipped>>
  <2>1. attempt' \in [Workers -> 0..made]
    <3>1. 0 \in 0..made /\ attempt \in [Workers -> 0..made]
      BY Types DEF IInv, TypeOK
    <3>2. attempt' = attempt \/ attempt' = [attempt EXCEPT ![w] = 0]
      BY DEF Start, UpdateFails, Exit
    <3> QED BY <3>1, <3>2
  <2>2. /\ phase' \in [Workers -> {"off", "registering", "up", "leaving", "quitting"}]
        /\ steady' \in [Workers -> BOOLEAN] /\ \A v \in Workers : steady'[v] => steady[v]
    BY DEF IInv, TypeOK, Start, UpdateFails, Exit, Move
  <2>3. UNCHANGED <<made, calls, handlers, list, entry, beats, thread, exposed, skipped>>
    BY DEF Start, UpdateFails, Exit
  <2> QED BY <2>1, <2>2, <2>3
<1>2. TypeOK'
  BY <1>1 DEF IInv, TypeOK
<1>3. SteadyAlive'
  BY DEF IInv, TypeOK, SteadyAlive, Alive, Start, UpdateFails, Exit, Move
<1>4. BeatShape' /\ PassMarks'
  BY <1>1 DEF IInv, BeatShape, PassMarks, Silent
<1> QED BY <1>1, <1>2, <1>3, <1>4, EntriesIInv DEF FirstHeld

-----------------------------------------------------------------------------
(* The handlers.                                                           *)

(* A handler n starts to filter the list.                                  *)
Begun(n, w, op, sent) ==
  /\ made' = made + 1 /\ made' \in Calls /\ made < made'
  /\ calls' \in [Workers -> 0..made'] /\ calls'[w] = made'
  /\ \A v \in Workers \ {w} : calls'[v] = calls[v]
  /\ handlers' = handlers \cup {n}
  /\ n.w = w /\ n.k = made' /\ n.op = op /\ n.pc = "filter" /\ n.kept = {}
  /\ n.ahead = listed /\ n.i = 1 /\ n.status = sent
  /\ \A e \in Entries : e \in Result(n) <=> e \in listed /\ e.w # w
  /\ exposed' \in [Workers -> BOOLEAN] /\ skipped' \in [Workers -> BOOLEAN]
  /\ \A v \in Workers \ {w} : exposed'[v] = exposed[v] /\ skipped'[v] = skipped[v]
  /\ ~exposed'[w] => \A h \in handlers : h.w # w
  /\ UNCHANGED <<list, entry, beats, thread>>

LEMMA CallFacts ==
  ASSUME IInv, NEW w \in Workers, NEW op \in {"register", "deregister"},
         NEW sent \in {"ACTIVE", "DRAINING"}, Call(w, op, sent)
  PROVE  \E n \in Handler : Begun(n, w, op, sent)
<1> USE CallsAssumption, Types
<1>1. made' = made + 1 /\ made' \in Calls /\ made < made'
  BY DEF Call, Calls
<1>2. PICK n : n = [w |-> w, k |-> made', op |-> op, pc |-> "filter",
                    kept |-> {}, ahead |-> listed, i |-> 1, status |-> sent]
  OBVIOUS
<1>3. /\ n \in Handler /\ n.w = w /\ n.k = made' /\ n.op = op /\ n.pc = "filter" /\ n.kept = {}
      /\ n.ahead = listed /\ n.i = 1 /\ n.status = sent
  BY <1>1, <1>2 DEF Handler, EntryState
<1>4. handlers' = handlers \cup {n}
  BY <1>2 DEF Call
<1>5. \A e \in Entries : e \in Result(n) <=> e \in listed /\ e.w # w
  BY <1>3 DEF Result, Others
<1>6. calls' \in [Workers -> 0..made'] /\ calls'[w] = made'
      /\ \A v \in Workers \ {w} : calls'[v] = calls[v]
  <2>1. calls \in [Workers -> 0..made'] /\ made' \in 0..made' /\ calls' = [calls EXCEPT ![w] = made']
    BY <1>1 DEF Call
  <2> QED BY <2>1
<1>7. PICK b \in BOOLEAN : exposed' = [exposed EXCEPT ![w] = b] /\ (~b => \A h \in handlers : h.w # w)
  BY DEF Call
<1>8. skipped' = [skipped EXCEPT ![w] = FALSE] /\ UNCHANGED <<list, entry, beats, thread>>
      /\ exposed \in [Workers -> BOOLEAN] /\ skipped \in [Workers -> BOOLEAN]
  BY DEF Call, IInv, TypeOK
<1>9. /\ exposed' \in [Workers -> BOOLEAN] /\ skipped' \in [Workers -> BOOLEAN]
      /\ \A v \in Workers \ {w} : exposed'[v] = exposed[v] /\ skipped'[v] = skipped[v]
      /\ exposed'[w] = b
  BY <1>7, <1>8
<1> QED BY <1>1, <1>3, <1>4, <1>5, <1>6, <1>7, <1>8, <1>9 DEF Begun

(* RegisterWorker and DeregisterWorker start to filter the list.           *)
LEMMA CallIInv ==
  ASSUME IInv, NEW w \in Workers, NEW op \in {"register", "deregister"},
         NEW sent \in {"ACTIVE", "DRAINING"}, Call(w, op, sent), UNCHANGED restarts,
         phase' \in [Workers -> {"off", "registering", "up", "leaving", "quitting"}],
         attempt' = attempt \/ attempt' = [attempt EXCEPT ![w] = made'],
         steady' \in [Workers -> BOOLEAN], \A v \in Workers : steady'[v] => steady[v],
         op = "deregister" => ~steady'[w],
         SteadyAlive'
  PROVE  IInv'
<1>p. PICK n \in Handler : Begun(n, w, op, sent)
  BY CallFacts, Zenon
<1>0. /\ made' = made + 1 /\ made' \in Calls /\ made < made'
      /\ calls' \in [Workers -> 0..made'] /\ calls'[w] = made'
      /\ \A v \in Workers \ {w} : calls'[v] = calls[v]
      /\ handlers' = handlers \cup {n}
      /\ n.w = w /\ n.k = made' /\ n.op = op /\ n.pc = "filter" /\ n.kept = {}
      /\ n.ahead = listed /\ n.i = 1 /\ n.status = sent
      /\ \A e \in Entries : e \in Result(n) <=> e \in listed /\ e.w # w
      /\ exposed' \in [Workers -> BOOLEAN] /\ skipped' \in [Workers -> BOOLEAN]
      /\ \A v \in Workers \ {w} : exposed'[v] = exposed[v] /\ skipped'[v] = skipped[v]
      /\ ~exposed'[w] => \A h \in handlers : h.w # w
      /\ UNCHANGED <<list, entry, beats, thread>>
  BY <1>p DEF Begun
<1> USE Types DEF list, entry, beats, thread
<1>a. ASSUME NEW h \in handlers PROVE h.k <= made /\ h.k # made' /\ h.k <= calls'[h.w]
  <2>1. h.k <= calls[h.w] /\ h.w \in Workers /\ h.k \in Nat
    BY HandlerFacts DEF IInv, HandlerShape
  <2>2. calls[h.w] \in Nat /\ calls[h.w] <= made /\ made' = made + 1 /\ made \in Nat
    BY <1>0, <2>1
  <2>3. h.k <= made /\ h.k # made' /\ h.k <= made'
    BY <2>1, <2>2
  <2>4. calls'[h.w] = made' \/ calls'[h.w] = calls[h.w]
    BY <1>0, <2>1
  <2> QED BY <2>1, <2>3, <2>4
<1>b. \A h : Result(h)' = Result(h)
  BY DEF Result, Others
<1>1. TypeOK'
  <2>1. made' \in 0..MaxCalls /\ attempt' \in [Workers -> 0..made']
    <3>1. attempt \in [Workers -> 0..made] /\ made' \in 0..made' /\ made' \in 0..MaxCalls
      BY <1>0, CallsAssumption DEF IInv, TypeOK, Calls
    <3>2. attempt \in [Workers -> 0..made']
      BY <1>0, <3>1
    <3> QED BY <3>1, <3>2
  <2> QED BY <1>0, <2>1 DEF IInv, TypeOK
<1>2. HandlerShape'
  <2>1. n.k <= calls'[n.w]
    BY <1>0, CallsAssumption DEF Calls
  <2> QED BY <1>0, <1>a, <2>1 DEF IInv, HandlerShape, Filtering, Silenced
<1>3. BeatShape' /\ BornOrder'
  BY <1>0 DEF IInv, BeatShape, BornOrder
<1>4. Births'
  <2> SUFFICES ASSUME NEW e \in Entries
               PROVE  /\ e.k > made' => born[e] = 0
                      /\ \A h \in handlers' : (Due(h, e) => born[e] = 0) /\ (Behind(h, e) => born[e] # 0)
                      /\ born[e] = 0 => /\ e \notin listed /\ e \notin todo /\ e \notin cur.entry
                                        /\ age[e] = 0
                                        /\ \A h \in handlers' : e \notin h.kept /\ e \notin h.ahead
                                        /\ \A v \in Workers : e \notin rest[v] /\ e \notin target[v]
    BY <1>0 DEF Births, Nowhere, Due, Behind
  <2>1. e.k > made => born[e] = 0
    BY DEF IInv, Births
  <2>2. e.k \in Nat /\ (e.k > made' => e.k > made) /\ (e.k = made' => e.k > made)
    BY <1>0, EntryFacts
  <2>3. (Due(n, e) => e.k > made) /\ ~Behind(n, e)
    BY <1>0, <2>2 DEF Due, Behind
  <2>4. born[e] = 0 => e \notin n.kept /\ e \notin n.ahead
    BY <1>0 DEF IInv, Births, Nowhere
  <2> QED BY <1>0, <2>1, <2>2, <2>3, <2>4 DEF IInv, Births, Nowhere
<1>5. Recent'
  <2>1. ASSUME NEW e \in Entries, age[e] # 0 PROVE e.k < made'
    BY <1>0, <2>1, EntryFacts DEF IInv, Births, Nowhere
  <2> QED BY <1>0, <2>1 DEF IInv, Recent
<1>c. ASSUME NEW e \in Entries, Silent(e)' PROVE Silent(e) /\ e.w # w
  <2>1. e.w \in Workers /\ age[e] # 0 /\ e.k \in Nat
    BY <1>0, <1>c, EntryFacts, AgesAssumption DEF Silent
  <2>2. e.k <= made
    BY <2>1 DEF IInv, Births, Nowhere
  <2>3. e.w # w
    BY <1>0, <1>c, <2>1, <2>2 DEF Silent
  <2> QED BY <1>0, <1>c, <2>1, <2>3 DEF Silent
<1>6. Carried'
  <2> SUFFICES ASSUME NEW e \in Entries, Silent(e)', Reachable(e)'
               PROVE  /\ e \in listed
                      /\ \A h \in handlers' : h.w # e.w /\ h.pc \in Filtering => e \in Result(h)
    BY <1>0, <1>b DEF Carried
  <2>1. Silent(e) /\ e.w # w
    BY <1>c
  <2>2. Reachable(e)
    BY <1>0, <1>b DEF Reachable
  <2> QED BY <1>0, <2>1, <2>2 DEF IInv, Carried
<1>7. PassMarks'
  BY <1>0, <1>c DEF IInv, PassMarks
<1>8. StaleNotOffered'
  <2> SUFFICES ASSUME loop # "dead", NEW e \in listed, age[e] > UnhealthyAge, e.k = calls'[e.w],
                      ~skipped'[e.w], status[e] \notin Silenced
               PROVE  FALSE
    BY <1>0 DEF StaleNotOffered, LookupWorker, Silenced
  <2>1. Silent(e)'
    BY <1>0, AgesAssumption DEF Silent
  <2>2. Silent(e)
    BY <1>c, <2>1
  <2> QED BY <2>2 DEF IInv, StaleNotOffered, Silent, LookupWorker, Silenced
<1>9. Solo'
  <2> SUFFICES ASSUME NEW v \in Workers, ~exposed'[v], NEW h \in handlers', h.w = v
               PROVE  h.k = calls'[v] /\ (h.op = "deregister" => ~steady'[v])
    BY DEF Solo
  <2>1. CASE v = w
    BY <1>0, <2>1
  <2>2. CASE v # w
    BY <1>0, <2>2 DEF IInv, Solo
  <2> QED BY <2>1, <2>2
<1>10. FirstKept'
  <2> SUFFICES ASSUME NEW v \in Workers, Safe(v)' PROVE Kept(v)'
    BY DEF FirstKept
  <2>1. v # w
    <3> SUFFICES ASSUME v = w PROVE FALSE
      OBVIOUS
    <3>1. \A h \in handlers' : h.w = w => h = n
      BY <1>0 DEF Safe
    <3> QED BY <1>0, <3>1 DEF Safe, Writing, Settled
  <2>2. Safe(v) /\ FirstOf(v)' = FirstOf(v) /\ (Appended(v)' <=> Appended(v)) /\ calls'[v] = calls[v]
    BY <1>0, <2>1 DEF Safe, Writing, Settled, FirstOf, Appended
  <2>3. Kept(v)
    BY <2>2 DEF IInv, FirstKept
  <2>4. /\ Latest(v, listed)' /\ Latest(v, rest[v])'
        /\ \A h \in handlers' : Latest(v, Result(h))'
    BY <1>0, <1>b, <2>2, <2>3, HandlerFacts DEF Kept, Latest
  <2>5. ASSUME Appended(v) PROVE FirstHeld(v)'
    <3>1. FirstHeld(v)
      BY <2>3, <2>5 DEF Kept
    <3>2. \A h \in handlers' : h.w # v /\ h.pc \in Filtering => FirstOf(v) \in Result(h)
      BY <1>0, <2>1, <3>1, FirstOfFacts DEF FirstHeld
    <3> QED BY <1>0, <1>b, <2>2, <3>1, <3>2 DEF FirstHeld
  <2> QED BY <2>2, <2>4, <2>5 DEF Kept
<1> QED BY <1>1, <1>2, <1>3, <1>4, <1>5, <1>6, <1>7, <1>8, <1>9, <1>10 DEF IInv

(* The three callers.                                                      *)
LEMMA CallersIInv ==
  ASSUME IInv, NEW w \in Workers, UNCHANGED restarts, Register(w) \/ UpdateStatus(w) \/ Deregister(w)
  PROVE  IInv'
<1>1. PICK op \in {"register", "deregister"}, sent \in {"ACTIVE", "DRAINING"} :
        Call(w, op, sent) /\ (op = "deregister" => Deregister(w))
  BY DEF Register, UpdateStatus, Deregister
<1>2. /\ phase' \in [Workers -> {"off", "registering", "up", "leaving", "quitting"}]
      /\ steady' \in [Workers -> BOOLEAN] /\ \A v \in Workers : steady'[v] => steady[v]
      /\ attempt' = attempt \/ attempt' = [attempt EXCEPT ![w] = made']
      /\ op = "deregister" => ~steady'[w]
  BY <1>1 DEF IInv, TypeOK, Register, UpdateStatus, Deregister, Leave, Move
<1>3. SteadyAlive'
  BY DEF IInv, TypeOK, SteadyAlive, Alive, Register, UpdateStatus, Deregister, Leave, Move
<1> QED BY <1>1, <1>2, <1>3, CallIInv

(* A search that still has a worker's first entry before it finds it.      *)
LEMMA FirstSought ==
  ASSUME IInv, NEW w \in Workers, FirstOf(w) \in rest[w], Latest(w, rest[w])
  PROVE  Sought(w) = "found" /\ FirstOf(w) \in First(Own(w))
<1>1. FirstOf(w) \in Own(w) /\ Own(w) \subseteq rest[w] /\ rest[w] \subseteq Entries
  BY FirstOfFacts, Types DEF Own
<1>2. ASSUME NEW d \in Own(w) PROVE born[FirstOf(w)] <= born[d]
  <2>1. /\ d \in Entries /\ FirstOf(w) \in Entries /\ d.w = w /\ d.k = calls[w]
        /\ born[d] # 0 /\ born[d] \in Nat /\ born[FirstOf(w)] \in Nat
    BY <1>1, Types DEF Own, Latest, IInv, Births, Nowhere
  <2>2. CASE d.i = 1
    <3>1. d = FirstOf(w)
      BY <2>1, <2>2, FirstOfFacts
    <3> QED BY <2>1, <3>1
  <2>3. CASE d.i # 1
    <3>1. FirstOf(w).i < d.i /\ FirstOf(w).w = d.w /\ FirstOf(w).k = d.k
      BY <2>1, <2>3, EntryFacts, FirstOfFacts
    <3>2. born[FirstOf(w)] < born[d]
      BY <2>1, <3>1 DEF IInv, BornOrder
    <3> QED BY <2>1, <3>2
  <2> QED BY <2>2, <2>3
<1> QED BY <1>1, <1>2 DEF First, Sought

(* An assignment ends the filters that still run; the handler goes on to   *)
(* append as n.                                                            *)
Assigned(h, n) ==
  /\ n.w = h.w /\ n.k = h.k /\ n.op = h.op /\ n.pc = "append" /\ n.kept = {}
  /\ n.ahead = {} /\ n.i = 1 /\ n.status = h.status
  /\ Result(n) = {} /\ Result(h) = h.kept
  /\ \A g \in handlers' : \/ g = n /\ h.op = "register"
                          \/ \E f \in handlers \ {h} : g = Filtered(f)
  /\ \A f \in handlers \ {h} : Filtered(f) \in handlers'
  /\ h.op = "register" => n \in handlers'

LEMMA AssignFacts ==
  ASSUME IInv, NEW h \in handlers, Assign(h)
  PROVE  \E n \in Handler : Assigned(h, n)
<1>1. h \in Handler /\ h.pc = "assign" /\ h.ahead = {} /\ h.i = 1 /\ Result(h) = h.kept
  BY Types, HandlerFacts DEF Assign, IInv, HandlerShape, Filtering
<1>2. PICK n : n = [h EXCEPT !.pc = "append", !.kept = {}]
  OBVIOUS
<1>3. /\ n \in Handler /\ n.w = h.w /\ n.k = h.k /\ n.op = h.op /\ n.pc = "append" /\ n.kept = {}
      /\ n.ahead = {} /\ n.i = 1 /\ n.status = h.status
  BY <1>1, <1>2 DEF Handler
<1>4. Result(n) = {}
  BY <1>3 DEF Result, Others
<1>5. handlers' = {Filtered(g) : g \in handlers \ {h}} \cup {g \in {n} : h.op = "register"}
  BY <1>2 DEF Assign
<1> QED BY <1>1, <1>3, <1>4, <1>5 DEF Assigned

LEMMA AssignIInv ==
  ASSUME IInv, NEW h \in handlers, Assign(h), UNCHANGED restarts
  PROVE  IInv'
<1>p. PICK n \in Handler : Assigned(h, n)
  BY AssignFacts, Zenon
<1>0. /\ n.w = h.w /\ n.k = h.k /\ n.op = h.op /\ n.pc = "append" /\ n.kept = {}
      /\ n.ahead = {} /\ n.i = 1 /\ n.status = h.status
      /\ Result(n) = {} /\ Result(h) = h.kept
      /\ h.op = "register" => n \in handlers'
  BY <1>p DEF Assigned
<1>a. h \in Handler /\ h.pc = "assign" /\ h.pc \in Filtering /\ listed' = Result(h)
      /\ Result(h) \subseteq Entries /\ \A e \in Result(h) : e.w # h.w
  BY <1>0, Types, HandlerFacts DEF Assign, IInv, HandlerShape, Filtering
<1>b. \A g : Result(g)' = Result(g)
  BY DEF Result, Others
<1>c. ASSUME NEW g \in handlers', g # n
      PROVE  \E f \in handlers \ {h} :
               /\ g = Filtered(f) /\ f \in Handler /\ g \in Handler
               /\ g.w = f.w /\ g.k = f.k /\ g.op = f.op /\ g.i = f.i /\ g.status = f.status
               /\ f.pc # "filter" => g = f
               /\ f.pc = "filter" => g.pc = "assign" /\ g.kept = Result(f) /\ g.ahead = {}
               /\ Result(g) = Result(f) /\ (f.pc \in Filtering <=> g.pc \in Filtering)
  <2>1. PICK f \in handlers \ {h} : g = Filtered(f)
    BY <1>c, <1>p DEF Assigned
  <2>2. f \in Handler
    BY Types
  <2> QED BY <2>1, <2>2, FilteredFacts DEF Filtering
<1>d. ASSUME NEW f \in handlers, f # h
      PROVE  /\ Filtered(f) \in handlers' /\ Filtered(f).w = f.w
             /\ f.pc # "filter" => f \in handlers'
  <2>1. f \in Handler /\ Filtered(f) \in handlers'
    BY <1>d, <1>p, Types DEF Assigned
  <2> QED BY <2>1, FilteredFacts
<1>e. UNCHANGED <<phase, made, calls, attempt, born, births, status, age, thread, steady, skipped>>
      /\ rest' = [w \in Workers |-> {}]
      /\ beat' = [w \in Workers |-> IF beat[w] = "seeking" THEN Sought(w) ELSE beat[w]]
      /\ target' = [w \in Workers |-> IF beat[w] = "seeking" THEN First(Own(w)) ELSE target[w]]
  BY DEF Assign, worker, entry
<1>f. PICK b \in BOOLEAN : exposed' = [exposed EXCEPT ![h.w] = b]
        /\ (~b => ~exposed[h.w] /\ \A g \in handlers \ {h} : g.pc \notin Filtering)
  <2>1. PICK c \in BOOLEAN : c = (exposed[h.w] \/ \E g \in handlers \ {h} : g.pc \in {"filter", "assign"})
    OBVIOUS
  <2>2. exposed' = [exposed EXCEPT ![h.w] = c]
    BY <2>1, Zenon DEF Assign
  <2> QED BY <2>1, <2>2 DEF Filtering
<1>g. exposed' \in [Workers -> BOOLEAN] /\ exposed'[h.w] = b
      /\ \A v \in Workers \ {h.w} : exposed'[v] = exposed[v]
  BY <1>a, <1>f, HandlerFacts DEF IInv, TypeOK
<1> USE Types DEF list, thread
<1>h. \A w \in Workers : First(Own(w)) \subseteq rest[w] /\ rest[w] \subseteq Entries
  BY DEF First, Own
<1>1. TypeOK'
  <2>1. handlers' \subseteq Handler /\ listed' \subseteq Entries
    BY <1>a, <1>c
  <2>2. /\ beat' \in [Workers -> {"due", "seeking", "found", "stamped", "done"}]
        /\ rest' \in [Workers -> SUBSET Entries]
    BY <1>e DEF Sought, IInv, TypeOK
  <2>3. target' \in [Workers -> SUBSET Entries]
    BY <1>e, <1>h DEF IInv, TypeOK
  <2> QED BY <1>e, <1>g, <2>1, <2>2, <2>3 DEF IInv, TypeOK
<1>2. HandlerShape'
  <2>1. ASSUME NEW g \in handlers'
        PROVE  /\ g.k <= calls[g.w] /\ \A e \in g.kept : e.w # g.w
               /\ g.pc # "filter" => g.ahead = {}
               /\ g.pc \notin Filtering => g.kept = {}
               /\ g.pc \in Filtering => g.i = 1
               /\ g.pc = "append" => g.i \in 1..Len(TypesOf[g.w])
               /\ g.status \notin Silenced
    <3>1. CASE g = n
      <4>1. 1 \in 1..Len(TypesOf[h.w])
        BY <1>a, HandlerFacts, TypesAssumption
      <4> QED BY <1>0, <3>1, <4>1 DEF Filtering, IInv, HandlerShape
    <3>2. CASE g # n
      <4>1. PICK f \in handlers \ {h} :
               /\ g = Filtered(f) /\ f \in Handler /\ g \in Handler
               /\ g.w = f.w /\ g.k = f.k /\ g.op = f.op /\ g.i = f.i /\ g.status = f.status
               /\ f.pc # "filter" => g = f
               /\ f.pc = "filter" => g.pc = "assign" /\ g.kept = Result(f) /\ g.ahead = {}
        BY <1>c, <3>2
      <4>2. \A e \in Result(f) : e.w # f.w
        BY DEF Result, Others, IInv, HandlerShape
      <4>3. CASE f.pc = "filter"
        BY <4>1, <4>2, <4>3 DEF IInv, HandlerShape, Filtering
      <4>4. CASE f.pc # "filter"
        BY <4>1, <4>4 DEF IInv, HandlerShape
      <4> QED BY <4>3, <4>4
    <3> QED BY <3>1, <3>2
  <2>2. ASSUME NEW g \in handlers', NEW d \in handlers', g.k = d.k PROVE d = g
    <3>1. ASSUME NEW f \in handlers, NEW f2 \in handlers, f.k = f2.k PROVE f = f2
      BY <3>1 DEF IInv, HandlerShape
    <3> QED BY <1>0, <1>c, <2>2, <3>1
  <2> QED BY <1>e, <2>1, <2>2 DEF HandlerShape
<1>3. BeatShape'
  <2> SUFFICES ASSUME NEW w \in Workers
               PROVE  /\ beat'[w] # "seeking" => rest'[w] = {}
                      /\ beat'[w] \notin {"found", "stamped"} => target'[w] = {}
                      /\ beat'[w] = "stamped" => \A e \in target'[w] : age[e] = 0
    BY <1>e DEF BeatShape
  <2>1. CASE beat[w] = "seeking"
    BY <1>e, <2>1 DEF Sought, First
  <2>2. CASE beat[w] # "seeking"
    BY <1>e, <2>2 DEF IInv, BeatShape
  <2> QED BY <2>1, <2>2
<1>4. Births'
  <2> SUFFICES ASSUME NEW e \in Entries
               PROVE  /\ \A g \in handlers' : (Due(g, e) => born[e] = 0) /\ (Behind(g, e) => born[e] # 0)
                      /\ born[e] = 0 => /\ e \notin listed'
                                        /\ \A g \in handlers' : e \notin g.kept /\ e \notin g.ahead
                                        /\ \A w \in Workers : e \notin rest'[w] /\ e \notin target'[w]
    BY <1>e DEF IInv, Births, Nowhere, Due, Behind
  <2>1. ASSUME NEW g \in handlers', Due(g, e) PROVE born[e] = 0
    <3>1. CASE g = n
      <4>1. Due(h, e)
        BY <1>0, <1>a, <2>1, <3>1 DEF Due
      <4> QED BY <4>1 DEF IInv, Births
    <3>2. CASE g # n
      <4>1. PICK f \in handlers : Due(f, e)
        BY <1>c, <2>1, <3>2 DEF Due
      <4> QED BY <4>1 DEF IInv, Births
    <3> QED BY <3>1, <3>2
  <2>a. ASSUME NEW g \in handlers', Behind(g, e) PROVE born[e] # 0
    <3>1. g # n
      BY <1>0, <2>a, EntryFacts DEF Behind
    <3>2. PICK f \in handlers : Behind(f, e)
      BY <1>c, <2>a, <3>1 DEF Behind
    <3> QED BY <3>2 DEF IInv, Births
  <2>2. ASSUME born[e] = 0
        PROVE  /\ e \notin listed'
               /\ \A g \in handlers' : e \notin g.kept /\ e \notin g.ahead
               /\ \A w \in Workers : e \notin rest'[w] /\ e \notin target'[w]
    <3>1. /\ \A f \in handlers : e \notin f.kept /\ e \notin f.ahead /\ e \notin Result(f)
          /\ \A w \in Workers : e \notin rest[w] /\ e \notin target[w]
      BY <2>2 DEF IInv, Births, Nowhere, Result, Others
    <3>2. ASSUME NEW g \in handlers' PROVE e \notin g.kept /\ e \notin g.ahead
      BY <1>0, <1>c, <3>1
    <3>3. \A w \in Workers : e \notin rest'[w] /\ e \notin target'[w]
      BY <1>e, <1>h, <3>1
    <3> QED BY <1>a, <3>1, <3>2, <3>3
  <2> QED BY <2>1, <2>a, <2>2
<1>5. BornOrder'
  BY <1>e DEF IInv, BornOrder
<1>6. Recent'
  <2>1. ASSUME NEW e \in Entries, NEW g \in handlers', age[e] # 0, g.w = e.w PROVE e.k < g.k
    BY <1>0, <1>c, <2>1 DEF IInv, Recent
  <2> QED BY <1>e, <2>1 DEF Recent
<1>i. ASSUME NEW e \in Entries, Silent(e)', e \in listed' \/ \E g \in handlers' : e \in Result(g)
      PROVE  /\ Silent(e) /\ e \in listed /\ e \in listed'
             /\ \A f \in handlers : f.w # e.w /\ f.pc \in Filtering => e \in Result(f)
  <2>1. Silent(e)
    BY <1>e, <1>i DEF Silent
  <2>2. Reachable(e)
    BY <1>0, <1>a, <1>c, <1>i DEF Reachable
  <2>3. e \in listed /\ \A f \in handlers : f.w # e.w /\ f.pc \in Filtering => e \in Result(f)
    BY <2>1, <2>2 DEF IInv, Carried
  <2>4. h.w # e.w
    <3> SUFFICES ASSUME h.w = e.w PROVE FALSE
      OBVIOUS
    <3>1. age[e] # 0 /\ e.k = calls[e.w]
      BY <2>1, AgesAssumption DEF Silent
    <3>2. e.k < h.k /\ h.k <= calls[h.w] /\ e.k \in Nat /\ h.k \in Nat
      BY <1>a, <3>1, EntryFacts, HandlerFacts DEF IInv, Recent, HandlerShape
    <3> QED BY <3>1, <3>2
  <2> QED BY <1>a, <2>1, <2>3, <2>4
<1>7. Carried'
  <2> SUFFICES ASSUME NEW e \in Entries, Silent(e)', e \in listed' \/ \E g \in handlers' : e \in Result(g)
               PROVE  /\ e \in listed'
                      /\ \A g \in handlers' : g.w # e.w /\ g.pc \in Filtering => e \in Result(g)
    BY <1>b DEF Carried, Reachable
  <2>1. ASSUME NEW g \in handlers', g.w # e.w, g.pc \in Filtering PROVE e \in Result(g)
    <3>1. g # n
      BY <1>0, <2>1 DEF Filtering
    <3> QED BY <1>c, <1>i, <2>1, <3>1
  <2> QED BY <1>i, <2>1
<1>8. PassMarks'
  BY <1>a, <1>e, <1>i DEF IInv, PassMarks, Silent
<1>9. StaleNotOffered'
  <2> SUFFICES ASSUME loop # "dead", NEW e \in listed', age[e] > UnhealthyAge, e.k = calls[e.w],
                      ~skipped[e.w], status[e] \notin Silenced
               PROVE  FALSE
    BY <1>e DEF StaleNotOffered, LookupWorker, Silenced
  <2>1. Silent(e)' /\ e \in Entries
    BY <1>a, <1>e, AgesAssumption DEF Silent
  <2>2. e \in listed
    BY <1>i, <2>1
  <2> QED BY <2>2 DEF IInv, StaleNotOffered, LookupWorker, Silenced
<1>10. Solo'
  <2> SUFFICES ASSUME NEW w \in Workers, ~exposed'[w], NEW g \in handlers', g.w = w
               PROVE  g.k = calls[w] /\ (g.op = "deregister" => ~steady[w])
    BY <1>e DEF Solo
  <2>1. ~exposed[w]
    BY <1>f, <1>g
  <2> QED BY <1>0, <1>c, <1>p, <2>1 DEF IInv, Solo, Assigned
<1>11. FirstKept'
  <2> SUFFICES ASSUME NEW w \in Workers, Safe(w)' PROVE Kept(w)'
    BY DEF FirstKept
  <2>1. CASE w = h.w
    <3>1. ~exposed[w] /\ \A f \in handlers \ {h} : f.pc \notin Filtering
      BY <1>f, <1>g, <2>1 DEF Safe
    <3>2. \A f \in handlers : f.w = w => f = h
      BY <2>1, <3>1 DEF IInv, Solo, HandlerShape
    <3>3. h.op = "register"
      <4> SUFFICES ASSUME h.op # "register" PROVE FALSE
        OBVIOUS
      <4>1. ASSUME NEW g \in handlers' PROVE g.w # w
        <5>1. PICK f \in handlers \ {h} : g = Filtered(f)
          BY <1>p DEF Assigned
        <5>2. f \in Handler /\ f.w # w
          BY <3>2, <5>1
        <5> QED BY <5>1, <5>2, FilteredFacts
      <4>2. steady[w]
        BY <1>e, <4>1 DEF Safe, Writing, Settled
      <4>3. h.op = "deregister"
        BY <1>a, HandlerFacts
      <4> QED BY <2>1, <3>1, <4>2, <4>3 DEF IInv, Solo
    <3>4. ~Appended(w)'
      BY <1>0, <2>1, <3>3 DEF Appended
    <3>5. ASSUME NEW g \in handlers' PROVE Result(g) = {}
      <4>1. CASE g = n
        BY <1>0, <4>1
      <4>2. CASE g # n
        <5>1. PICK f \in handlers \ {h} : Result(g) = Result(f)
          BY <1>c, <4>2
        <5>2. f.kept = {} /\ f.ahead = {}
          BY <3>1, <5>1 DEF IInv, HandlerShape, Filtering
        <5> QED BY <5>1, <5>2 DEF Result, Others
      <4> QED BY <4>1, <4>2
    <3>6. rest'[w] = {} /\ \A e \in listed' : e.w # w
      BY <1>a, <1>e, <2>1
    <3> QED BY <1>b, <3>4, <3>5, <3>6 DEF Kept, Latest
  <2>2. CASE w # h.w
    <3>1. /\ Safe(w) /\ FirstOf(w)' = FirstOf(w)
          /\ Appended(w)' => Appended(w)
      <4>1. Writing(w)' => Writing(w)
        BY <1>0, <1>c, <2>2 DEF Writing, Filtering
      <4>2. Settled(w)' => Settled(w)
        BY <1>d, <1>e, <2>2 DEF Settled
      <4>3. Appended(w)' => Appended(w)
        BY <1>d, <2>2 DEF Appended
      <4> QED BY <1>e, <1>g, <2>2, <4>1, <4>2, <4>3 DEF Safe, FirstOf
    <3>2. Kept(w)
      BY <3>1 DEF IInv, FirstKept
    <3>3. /\ Latest(w, listed)' /\ Latest(w, rest[w])'
          /\ \A g \in handlers' : Latest(w, Result(g))'
      <4>1. Latest(w, Result(h)) /\ \A f \in handlers : Latest(w, Result(f))
        BY <3>2 DEF Kept
      <4>2. ASSUME NEW g \in handlers' PROVE Latest(w, Result(g))
        <5>1. CASE g = n
          BY <1>0, <5>1 DEF Latest
        <5>2. CASE g # n
          BY <1>c, <4>1, <5>2
        <5> QED BY <5>1, <5>2
      <4> QED BY <1>a, <1>b, <1>e, <4>1, <4>2 DEF Latest
    <3>4. ASSUME Appended(w)' PROVE FirstHeld(w)'
      <4>1. FirstHeld(w)
        BY <3>1, <3>2, <3>4 DEF Kept
      <4>2. FirstOf(w) \in listed'
        BY <1>a, <2>2, <4>1 DEF FirstHeld
      <4>3. ASSUME NEW g \in handlers', g.w # w, g.pc \in Filtering PROVE FirstOf(w) \in Result(g)
        <5>1. g # n
          BY <1>0, <4>3 DEF Filtering
        <5> QED BY <1>c, <4>1, <4>3, <5>1 DEF FirstHeld
      <4>4. /\ beat'[w] \in {"stamped", "done"} => age[FirstOf(w)] = 0
            /\ beat'[w] # "seeking"
            /\ beat'[w] = "found" /\ age[FirstOf(w)] # 0 => FirstOf(w) \in target'[w]
        <5>1. CASE beat[w] = "seeking"
          <6>1. age[FirstOf(w)] # 0 => FirstOf(w) \in rest[w] /\ Latest(w, rest[w])
            BY <3>2, <4>1, <5>1 DEF FirstHeld, Kept
          <6>2. age[FirstOf(w)] # 0 => beat'[w] = "found" /\ FirstOf(w) \in target'[w]
            BY <1>e, <5>1, <6>1, FirstSought
          <6>3. beat'[w] \in {"found", "done"}
            BY <1>e, <5>1 DEF Sought
          <6> QED BY <6>2, <6>3
        <5>2. CASE beat[w] # "seeking"
          BY <1>e, <4>1, <5>2 DEF FirstHeld
        <5> QED BY <5>1, <5>2
      <4> QED BY <1>b, <1>e, <3>1, <4>1, <4>2, <4>3, <4>4 DEF FirstHeld
    <3> QED BY <3>3, <3>4 DEF Kept
  <2> QED BY <2>1, <2>2
<1>12. SteadyAlive'
  BY <1>e DEF IInv, SteadyAlive, Alive
<1> QED BY <1>1, <1>2, <1>3, <1>4, <1>5, <1>6, <1>7, <1>8, <1>9, <1>10, <1>11, <1>12 DEF IInv

(* A handler h that appends entry e goes on as n; filters that still run   *)
(* come to the entry too.                                                  *)
Extended(g, e) == IF g.pc = "filter" THEN [g EXCEPT !.ahead = @ \cup {e}] ELSE g
Written(h, n, e) ==
  /\ e = [w |-> h.w, k |-> h.k, i |-> h.i] /\ e.w = h.w /\ e.k = h.k /\ e.i = h.i
  /\ n.w = h.w /\ n.k = h.k /\ n.op = h.op /\ n.kept = {} /\ n.ahead = {} /\ n.i = h.i + 1
  /\ n.status = h.status
  /\ (n.pc = "append" /\ n.i \in 1..Len(TypesOf[h.w])) \/ n.pc = "reply"
  /\ handlers' = {Extended(g, e) : g \in handlers \ {h}} \cup {n}

LEMMA AppendFacts ==
  ASSUME IInv, NEW h \in handlers, AppendEntry(h)
  PROVE  \E n \in Handler, e \in Entries : Written(h, n, e)
<1>1. /\ h \in Handler /\ h.pc = "append" /\ h.ahead = {} /\ h.kept = {}
      /\ h.i \in 1..Len(TypesOf[h.w])
  BY Types DEF AppendEntry, IInv, HandlerShape, Filtering
<1>2. PICK e : e = [w |-> h.w, k |-> h.k, i |-> h.i]
  OBVIOUS
<1>3. e \in Entries /\ e.w = h.w /\ e.k = h.k /\ e.i = h.i
  BY <1>1, <1>2, HandlerFacts, EntryFacts
<1>4. PICK p \in {"append", "reply"} : p = IF h.i = Len(TypesOf[h.w]) THEN "reply" ELSE "append"
  OBVIOUS
<1>5. Len(TypesOf[h.w]) \in Nat /\ h.i \in Nat
  BY <1>1, HandlerFacts, TypesAssumption
<1>6. PICK j \in Nat : j = h.i + 1
  BY <1>5
<1>7. PICK n : n = [h EXCEPT !.i = j, !.pc = p]
  OBVIOUS
<1>8. /\ n \in Handler
      /\ n.w = h.w /\ n.k = h.k /\ n.op = h.op /\ n.kept = {} /\ n.ahead = {} /\ n.i = j
      /\ n.status = h.status
      /\ n.pc = p
  BY <1>1, <1>7 DEF Handler
<1>9. (n.pc = "append" /\ n.i \in 1..Len(TypesOf[h.w])) \/ n.pc = "reply"
  BY <1>1, <1>5, <1>8, <1>4, <1>6
<1>10. handlers' = {Extended(g, e) : g \in handlers \ {h}} \cup {n}
  BY <1>2, <1>7, <1>4, <1>6 DEF AppendEntry, Extended
<1>11. Written(h, n, e)
  BY <1>2, <1>3, <1>8, <1>9, <1>10, <1>6 DEF Written
<1> QED BY <1>3, <1>8, <1>11

(* A filter that comes to one more entry.                                  *)
LEMMA ExtendedFacts ==
  ASSUME NEW f \in Handler, NEW e \in Entries
  PROVE  /\ Extended(f, e) \in Handler
         /\ Extended(f, e).w = f.w /\ Extended(f, e).k = f.k /\ Extended(f, e).op = f.op
         /\ Extended(f, e).i = f.i /\ Extended(f, e).status = f.status
         /\ Extended(f, e).pc = f.pc /\ Extended(f, e).kept = f.kept
         /\ f.pc # "filter" => Extended(f, e) = f
         /\ Result(f) \subseteq Result(Extended(f, e))
         /\ \A d \in Result(Extended(f, e)) : d \in Result(f) \/ d = e
         /\ \A d \in Extended(f, e).ahead : d \in f.ahead \/ d = e
         /\ f.pc = "filter" /\ f.w # e.w => e \in Result(Extended(f, e))
<1>1. CASE f.pc # "filter"
  BY <1>1 DEF Extended
<1>2. CASE f.pc = "filter"
  <2> DEFINE r == [f EXCEPT !.ahead = @ \cup {e}]
  <2>1. /\ r \in Handler /\ r.w = f.w /\ r.k = f.k /\ r.op = f.op /\ r.i = f.i
        /\ r.status = f.status /\ r.pc = f.pc /\ r.kept = f.kept /\ r.ahead = f.ahead \cup {e}
    BY DEF Handler
  <2>2. Extended(f, e) = r
    BY <1>2 DEF Extended
  <2> HIDE DEF r
  <2>3. /\ Result(f) \subseteq Result(r) /\ \A d \in Result(r) : d \in Result(f) \/ d = e
        /\ f.w # e.w => e \in Result(r)
    BY <2>1 DEF Result, Others
  <2> QED BY <1>2, <2>1, <2>2, <2>3
<1> QED BY <1>1, <1>2

LEMMA AppendEntryIInv ==
  ASSUME IInv, NEW h \in handlers, AppendEntry(h), UNCHANGED restarts
  PROVE  IInv'
<1>p. PICK n \in Handler, e0 \in Entries : Written(h, n, e0)
  BY AppendFacts, Zenon
<1>0. /\ e0 = [w |-> h.w, k |-> h.k, i |-> h.i] /\ e0.w = h.w /\ e0.k = h.k /\ e0.i = h.i
      /\ n.w = h.w /\ n.k = h.k /\ n.op = h.op /\ n.kept = {} /\ n.ahead = {} /\ n.i = h.i + 1
      /\ n.status = h.status /\ n.pc \notin Filtering /\ n.pc \in {"append", "reply"}
      /\ (n.pc = "append" => n.i \in 1..Len(TypesOf[h.w]))
      /\ n \in handlers' /\ Result(n) = {}
  BY <1>p DEF Written, Filtering, Result, Others
<1>a. /\ h \in Handler /\ h.pc = "append" /\ h.pc \notin Filtering /\ h.i \in 1..Len(TypesOf[h.w])
      /\ h.i \in Nat /\ Len(TypesOf[h.w]) \in Nat /\ h.w \in Workers
  BY Types, HandlerFacts, TypesAssumption DEF AppendEntry, IInv, HandlerShape, Filtering
<1>b. \A g : Result(g)' = Result(g)
  BY DEF Result, Others
<1>c. ASSUME NEW g \in handlers', g # n
      PROVE  \E f \in handlers \ {h} :
               /\ g = Extended(f, e0) /\ g \in Handler /\ f \in Handler
               /\ g.w = f.w /\ g.k = f.k /\ g.op = f.op /\ g.i = f.i /\ g.status = f.status
               /\ g.pc = f.pc /\ g.kept = f.kept
               /\ f.pc # "filter" => g = f
               /\ Result(f) \subseteq Result(g) /\ \A d \in Result(g) : d \in Result(f) \/ d = e0
               /\ \A d \in g.ahead : d \in f.ahead \/ d = e0
               /\ f.pc = "filter" /\ f.w # e0.w => e0 \in Result(g)
  <2>1. PICK f \in handlers \ {h} : g = Extended(f, e0)
    BY <1>c, <1>p DEF Written
  <2>2. f \in Handler
    BY Types
  <2> QED BY <2>1, <2>2, ExtendedFacts
<1>d. ASSUME NEW f \in handlers, f # h
      PROVE  /\ Extended(f, e0) \in handlers' /\ Extended(f, e0).w = f.w
             /\ f.pc # "filter" => f \in handlers'
  <2>1. f \in Handler /\ Extended(f, e0) \in handlers'
    BY <1>d, <1>p, Types DEF Written
  <2> QED BY <2>1, ExtendedFacts
<1>e. /\ UNCHANGED <<phase, made, calls, attempt, beat, target, thread, steady, skipped>>
      /\ listed' = listed \cup {e0}
      /\ births' = births + 1 /\ born' = [born EXCEPT ![e0] = births']
      /\ status' = [status EXCEPT ![e0] = h.status] /\ age' = [age EXCEPT ![e0] = 0]
      /\ rest' = [w \in Workers |-> IF beat[w] = "seeking" THEN rest[w] \cup {e0} ELSE rest[w]]
  BY <1>0 DEF AppendEntry, worker
<1>f. PICK b \in BOOLEAN : exposed' = [exposed EXCEPT ![h.w] = b]
        /\ (~b => ~exposed[h.w] /\ \A g \in handlers \ {h} : g.pc # "assign")
  <2>1. PICK c \in BOOLEAN : c = (exposed[h.w] \/ \E g \in handlers \ {h} : g.pc = "assign")
    OBVIOUS
  <2>2. exposed' = [exposed EXCEPT ![h.w] = c]
    BY <2>1, Zenon DEF AppendEntry
  <2> QED BY <2>1, <2>2
<1>g. exposed' \in [Workers -> BOOLEAN] /\ exposed'[h.w] = b
      /\ \A v \in Workers \ {h.w} : exposed'[v] = exposed[v]
  BY <1>a, <1>f DEF IInv, TypeOK
<1> USE Types DEF list, thread
<1>h. /\ births' \in Nat /\ born' \in [Entries -> Nat] /\ born'[e0] = births + 1
      /\ status' \in [Entries -> EntryState] /\ status'[e0] = h.status /\ h.status \notin Silenced
      /\ age' \in [Entries -> 0..OfflineAge] /\ age'[e0] = 0
      /\ \A e \in Entries \ {e0} : born'[e] = born[e] /\ status'[e] = status[e] /\ age'[e] = age[e]
  <2>1. births' \in Nat /\ births' = births + 1 /\ h.status \in EntryState /\ h.status \notin Silenced
        /\ 0 \in 0..OfflineAge
    BY <1>a, <1>e, HandlerFacts, AgesAssumption DEF IInv, HandlerShape
  <2> QED BY <1>e, <2>1
<1>i. Due(h, e0) /\ born[e0] = 0 /\ Nowhere(e0)
  <2>1. Due(h, e0)
    BY <1>0, <1>a DEF Due
  <2> QED BY <2>1 DEF IInv, Births
<1>j. \A f \in handlers : f # h => f.k # h.k
  BY DEF IInv, HandlerShape
<1>1. TypeOK'
  <2>1. handlers' \subseteq Handler /\ listed' \subseteq Entries
    BY <1>c, <1>e
  <2>2. rest' \in [Workers -> SUBSET Entries]
    BY <1>e
  <2> QED BY <1>e, <1>g, <1>h, <2>1, <2>2 DEF IInv, TypeOK
<1>2. HandlerShape'
  <2>1. ASSUME NEW g \in handlers'
        PROVE  /\ g.k <= calls[g.w] /\ \A e \in g.kept : e.w # g.w
               /\ g.pc # "filter" => g.ahead = {}
               /\ g.pc \notin Filtering => g.kept = {}
               /\ g.pc \in Filtering => g.i = 1
               /\ g.pc = "append" => g.i \in 1..Len(TypesOf[g.w])
               /\ g.status \notin Silenced
    <3>1. CASE g = n
      BY <1>0, <1>h, <3>1 DEF IInv, HandlerShape
    <3>2. CASE g # n
      BY <1>c, <3>2 DEF IInv, HandlerShape
    <3> QED BY <3>1, <3>2
  <2>2. ASSUME NEW g \in handlers', NEW d \in handlers', g.k = d.k PROVE d = g
    <3>1. ASSUME NEW f \in handlers, NEW f2 \in handlers, f.k = f2.k PROVE f = f2
      BY <3>1 DEF IInv, HandlerShape
    <3> QED BY <1>0, <1>c, <2>2, <3>1
  <2> QED BY <1>e, <2>1, <2>2 DEF HandlerShape
<1>3. BeatShape'
  BY <1>e, <1>h DEF IInv, BeatShape
<1>4. Births'
  <2> SUFFICES ASSUME NEW e \in Entries
               PROVE  /\ e.k > made => born'[e] = 0
                      /\ \A g \in handlers' : (Due(g, e) => born'[e] = 0) /\ (Behind(g, e) => born'[e] # 0)
                      /\ born'[e] = 0 => /\ e \notin listed' /\ e \notin todo /\ e \notin cur.entry
                                         /\ age'[e] = 0
                                         /\ \A g \in handlers' : e \notin g.kept /\ e \notin g.ahead
                                         /\ \A w \in Workers : e \notin rest'[w] /\ e \notin target[w]
    BY <1>e DEF Births, Nowhere, Due, Behind
  <2>1. e.k > made => born'[e] = 0
    <3>1. h.k <= calls[h.w] /\ h.k \in Nat
      BY <1>a, HandlerFacts DEF IInv, HandlerShape
    <3>2. e.k > made => e # e0
      BY <1>0, <1>a, <3>1
    <3> QED BY <1>h, <3>2 DEF IInv, Births
  <2>2. ASSUME NEW g \in handlers', Due(g, e) PROVE born'[e] = 0
    <3>1. CASE g = n
      <4>1. e # e0 /\ Due(h, e)
        BY <1>0, <1>a, <2>2, <3>1, EntryFacts DEF Due
      <4> QED BY <1>h, <4>1 DEF IInv, Births
    <3>2. CASE g # n
      <4>1. PICK f \in handlers : f # h /\ Due(f, e)
        BY <1>c, <2>2, <3>2 DEF Due
      <4>2. e # e0
        BY <1>0, <1>j, <4>1 DEF Due
      <4> QED BY <1>h, <4>1, <4>2 DEF IInv, Births
    <3> QED BY <3>1, <3>2
  <2>3. ASSUME NEW g \in handlers', Behind(g, e) PROVE born'[e] # 0
    <3>1. CASE e = e0
      BY <1>h, <3>1
    <3>2. CASE e # e0
      <4>1. PICK f \in handlers : Behind(f, e)
        <5>1. CASE g = n
          <6>1. e.w = h.w /\ e.k = h.k /\ e.i < h.i + 1 /\ e.i \in Nat
            BY <1>0, <2>3, <5>1, EntryFacts DEF Behind
          <6>2. e.i # h.i
            BY <1>0, <3>2, <6>1, EntryFacts, Zenon
          <6>3. Behind(h, e)
            BY <1>a, <6>1, <6>2 DEF Behind
          <6> QED BY <6>3
        <5>2. CASE g # n
          BY <1>c, <2>3, <5>2 DEF Behind
        <5> QED BY <5>1, <5>2
      <4> QED BY <1>h, <3>2, <4>1 DEF IInv, Births
    <3> QED BY <3>1, <3>2
  <2>4. ASSUME born'[e] = 0
        PROVE  /\ e \notin listed' /\ e \notin todo /\ e \notin cur.entry /\ age'[e] = 0
               /\ \A g \in handlers' : e \notin g.kept /\ e \notin g.ahead
               /\ \A w \in Workers : e \notin rest'[w] /\ e \notin target[w]
    <3>1. e # e0 /\ born[e] = 0
      BY <1>h, <2>4
    <3>2. Nowhere(e)
      BY <3>1 DEF IInv, Births
    <3>3. \A g \in handlers' : e \notin g.kept /\ e \notin g.ahead
      BY <1>0, <1>c, <3>1, <3>2 DEF Nowhere
    <3> QED BY <1>e, <1>h, <3>1, <3>2, <3>3 DEF Nowhere
  <2> QED BY <2>1, <2>2, <2>3, <2>4
<1>5. BornOrder'
  <2>1. \A e \in Entries : born[e] \in Nat /\ born[e] <= births /\ births \in Nat
    BY DEF IInv, BornOrder
  <2>2. ASSUME NEW e \in Entries PROVE born'[e] <= births'
    BY <1>e, <1>h, <2>1
  <2>3. ASSUME NEW d \in Entries, NEW e \in Entries, born'[d] = born'[e], d # e PROVE born'[e] = 0
    <3>1. d # e0 /\ e # e0
      BY <1>h, <2>1, <2>3
    <3> QED BY <1>h, <2>3, <3>1 DEF IInv, BornOrder
  <2>4. ASSUME NEW d \in Entries, NEW e \in Entries, d.w = e.w, d.k = e.k, d.i < e.i, born'[e] # 0
        PROVE  born'[d] # 0 /\ born'[d] < born'[e]
    <3>1. CASE e = e0
      <4>1. d # e0 /\ Behind(h, d)
        BY <1>0, <1>a, <2>4, <3>1, EntryFacts DEF Behind
      <4>2. born[d] # 0
        BY <4>1 DEF IInv, Births
      <4> QED BY <1>h, <2>1, <3>1, <4>1, <4>2
    <3>2. CASE e # e0
      <4>1. born[e] # 0 /\ born'[e] = born[e]
        BY <1>h, <2>4, <3>2
      <4>2. born[d] # 0 /\ born[d] < born[e]
        BY <2>4, <4>1 DEF IInv, BornOrder
      <4>3. d # e0
        BY <1>i, <4>2
      <4> QED BY <1>h, <4>1, <4>2, <4>3
    <3> QED BY <3>1, <3>2
  <2> QED BY <2>2, <2>3, <2>4 DEF BornOrder
<1>6. Recent'
  <2>1. ASSUME NEW e \in Entries, NEW g \in handlers', age'[e] # 0, g.w = e.w PROVE e.k < g.k
    <3>1. age[e] # 0
      BY <1>h, <2>1
    <3> QED BY <1>0, <1>c, <2>1, <3>1 DEF IInv, Recent
  <2> QED BY <2>1 DEF Recent
<1>k. ASSUME NEW e \in Entries, Silent(e)' PROVE Silent(e) /\ e # e0
  <2>1. e # e0
    BY <1>h, <1>k, AgesAssumption DEF Silent
  <2> QED BY <1>e, <1>h, <1>k, <2>1 DEF Silent
<1>7. Carried'
  <2> SUFFICES ASSUME NEW e \in Entries, Silent(e)', e \in listed' \/ \E g \in handlers' : e \in Result(g)
               PROVE  /\ e \in listed'
                      /\ \A g \in handlers' : g.w # e.w /\ g.pc \in Filtering => e \in Result(g)
    BY <1>b DEF Carried, Reachable
  <2>1. Silent(e) /\ e # e0
    BY <1>k
  <2>2. Reachable(e)
    BY <1>0, <1>c, <1>e, <2>1 DEF Reachable
  <2>3. e \in listed /\ \A f \in handlers : f.w # e.w /\ f.pc \in Filtering => e \in Result(f)
    BY <2>1, <2>2 DEF IInv, Carried
  <2>4. ASSUME NEW g \in handlers', g.w # e.w, g.pc \in Filtering PROVE e \in Result(g)
    BY <1>0, <1>c, <2>3, <2>4
  <2> QED BY <1>e, <2>3, <2>4
<1>8. PassMarks'
  <2>1. ASSUME NEW e \in listed', Silent(e)' PROVE e \in listed /\ Silent(e)
    <3>1. e \in Entries
      BY <1>e
    <3> QED BY <1>e, <1>k, <2>1, <3>1
  <2>2. \A e \in cur.entry : Silent(e)' => Silent(e)
    BY <1>k
  <2> QED BY <1>e, <2>1, <2>2 DEF IInv, PassMarks
<1>9. StaleNotOffered'
  <2> SUFFICES ASSUME loop # "dead", NEW e \in listed', age'[e] > UnhealthyAge, e.k = calls[e.w],
                      ~skipped[e.w], status'[e] \notin Silenced
               PROVE  FALSE
    BY <1>e DEF StaleNotOffered, LookupWorker, Silenced
  <2>1. e \in Entries /\ e # e0
    BY <1>e, <1>h, AgesAssumption
  <2> QED BY <1>e, <1>h, <2>1 DEF IInv, StaleNotOffered, LookupWorker, Silenced
<1>10. Solo'
  <2> SUFFICES ASSUME NEW w \in Workers, ~exposed'[w], NEW g \in handlers', g.w = w
               PROVE  g.k = calls[w] /\ (g.op = "deregister" => ~steady[w])
    BY <1>e DEF Solo
  <2>1. ~exposed[w]
    BY <1>f, <1>g
  <2> QED BY <1>0, <1>c, <2>1 DEF IInv, Solo
<1>11. FirstKept'
  <2> SUFFICES ASSUME NEW w \in Workers, Safe(w)' PROVE Kept(w)'
    BY DEF FirstKept
  <2>0. FirstOf(w)' = FirstOf(w)
    BY <1>e DEF FirstOf
  <2>1. CASE w = h.w
    <3>1. ~exposed[w] /\ \A f \in handlers \ {h} : f.pc # "assign"
      BY <1>f, <1>g, <2>1 DEF Safe
    <3>2. h.k = calls[w] /\ \A f \in handlers : f.w = w => f = h
      BY <2>1, <3>1 DEF IInv, Solo, HandlerShape
    <3>3. Safe(w)
      BY <1>a, <1>e, <2>1, <3>1 DEF Safe, Writing
    <3>4. Kept(w) /\ e0.k = calls[w]
      BY <1>0, <3>2, <3>3 DEF IInv, FirstKept
    <3>5. /\ Latest(w, listed)' /\ Latest(w, rest[w])'
          /\ \A g \in handlers' : Latest(w, Result(g))'
      <4>1. ASSUME NEW g \in handlers' PROVE \A e \in Result(g) : e.w = w => e.k = calls[w]
        BY <1>0, <1>c, <3>4 DEF Kept, Latest
      <4> QED BY <1>b, <1>e, <3>4, <4>1 DEF Kept, Latest
    <3>6. CASE h.i = 1
      <4>1. e0 = FirstOf(w)
        BY <1>0, <2>1, <3>4, <3>6, FirstOfFacts
      <4>2. ASSUME NEW g \in handlers', g.w # w, g.pc \in Filtering PROVE e0 \in Result(g)
        <5>1. g # n
          BY <1>0, <4>2
        <5>2. PICK f \in handlers \ {h} :
                 /\ g.w = f.w /\ g.pc = f.pc /\ (f.pc = "filter" /\ f.w # e0.w => e0 \in Result(g))
          BY <1>c, <5>1
        <5>3. f.pc = "filter"
          BY <3>1, <4>2, <5>2 DEF Filtering
        <5> QED BY <1>0, <2>1, <4>2, <5>2, <5>3
      <4>3. /\ e0 \in listed' /\ e0 \notin todo' /\ e0 \notin cur'.entry
            /\ status'[e0] \notin Silenced /\ age'[e0] = 0
        BY <1>e, <1>h, <1>i DEF Nowhere
      <4>4. FirstHeld(w)'
        BY <1>b, <2>0, <4>1, <4>2, <4>3 DEF FirstHeld
      <4> QED BY <3>5, <4>4 DEF Kept
    <3>7. CASE h.i # 1
      <4>1. Appended(w) /\ e0 # FirstOf(w)
        BY <1>0, <1>a, <3>2, <3>7, FirstOfFacts DEF Appended
      <4>2. FirstHeld(w) /\ FirstOf(w) \in Entries
        BY <3>4, <4>1 DEF Kept, FirstHeld
      <4>3. ASSUME NEW g \in handlers', g.w # w, g.pc \in Filtering PROVE FirstOf(w) \in Result(g)
        BY <1>0, <1>c, <4>2, <4>3 DEF FirstHeld
      <4>4. FirstHeld(w)'
        BY <1>b, <1>e, <1>h, <2>0, <4>1, <4>2, <4>3 DEF FirstHeld
      <4> QED BY <3>5, <4>4 DEF Kept
    <3> QED BY <3>6, <3>7
  <2>2. CASE w # h.w
    <3>1. Writing(w)' => Writing(w)
      BY <1>0, <1>c, <2>2 DEF Writing
    <3>2. Settled(w)' => Settled(w)
      BY <1>d, <1>e, <2>2 DEF Settled
    <3>3. Appended(w)' => Appended(w)
      BY <1>d, <2>2 DEF Appended
    <3>4. Kept(w)
      BY <1>e, <1>g, <2>2, <3>1, <3>2 DEF Safe, IInv, FirstKept
    <3>5. /\ Latest(w, listed)' /\ Latest(w, rest[w])'
          /\ \A g \in handlers' : Latest(w, Result(g))'
      <4>1. ASSUME NEW g \in handlers' PROVE \A e \in Result(g) : e.w = w => e.k = calls[w]
        BY <1>0, <1>c, <2>2, <3>4 DEF Kept, Latest
      <4> QED BY <1>0, <1>b, <1>e, <2>2, <3>4, <4>1 DEF Kept, Latest
    <3>6. ASSUME Appended(w)' PROVE FirstHeld(w)'
      <4>1. FirstHeld(w) /\ FirstOf(w) \in Entries /\ e0 # FirstOf(w)
        BY <1>0, <2>2, <3>3, <3>4, <3>6, FirstOfFacts DEF Kept, FirstHeld
      <4>2. ASSUME NEW g \in handlers', g.w # w, g.pc \in Filtering PROVE FirstOf(w) \in Result(g)
        BY <1>0, <1>c, <4>1, <4>2 DEF FirstHeld
      <4> QED BY <1>b, <1>e, <1>h, <2>0, <4>1, <4>2 DEF FirstHeld
    <3> QED BY <3>5, <3>6 DEF Kept
  <2> QED BY <2>1, <2>2
<1>12. SteadyAlive'
  BY <1>e DEF IInv, SteadyAlive, Alive
<1> QED BY <1>1, <1>2, <1>3, <1>4, <1>5, <1>6, <1>7, <1>8, <1>9, <1>10, <1>11, <1>12 DEF IInv

(* A filter goes on as n.                                                  *)
LEMMA FilterIInv ==
  ASSUME IInv, NEW h \in handlers, NEW n \in Handler,
         h.pc = "filter", n.pc \in Filtering, n.pc # "filter" => n.ahead = {},
         n.w = h.w, n.k = h.k, n.op = h.op, n.i = h.i, n.status = h.status,
         Result(n) = Result(h), n.ahead \subseteq h.ahead,
         handlers' = (handlers \ {h}) \cup {n},
         UNCHANGED <<worker, list, entry, beats, thread, ghosts, restarts>>
  PROVE  IInv'
<1> USE Types DEF worker, list, entry, beats, thread, ghosts
<1>1. TypeOK'
  BY DEF IInv, TypeOK
<1>2. SteadyAlive'
  BY DEF IInv, SteadyAlive, Alive
<1>3. n.kept \subseteq Result(n) /\ \A e \in Result(h) : e \in h.kept \/ e \in h.ahead
  BY HandlerFacts
<1>4. HandlerShape'
  <2>1. \A e \in Result(h) : e.w # h.w
    BY DEF Result, Others, IInv, HandlerShape
  <2>2. /\ n.k <= calls[n.w] /\ \A e \in n.kept : e.w # n.w
        /\ n.i = 1 /\ n.status \notin Silenced
    BY <1>3, <2>1 DEF IInv, HandlerShape, Filtering
  <2>3. \A g \in handlers : g # h => g.k # n.k
    BY DEF IInv, HandlerShape
  <2> QED BY <2>2, <2>3 DEF IInv, HandlerShape, Filtering
<1>5. ASSUME NEW g \in handlers'
      PROVE  \E f \in handlers :
               /\ g.w = f.w /\ g.k = f.k /\ g.op = f.op /\ g.i = f.i
               /\ Result(g) = Result(f) /\ g.kept \subseteq f.kept \cup f.ahead /\ g.ahead \subseteq f.ahead
               /\ g.pc = f.pc \/ (f.pc \in Filtering /\ g.pc \in Filtering)
  BY <1>3 DEF Filtering
<1>6. \A w \in Workers : Settled(w)' => Settled(w)
  BY DEF Settled
<1>7. \A f \in handlers : f.pc = "append" => f \in handlers'
  OBVIOUS
<1> QED BY <1>1, <1>2, <1>4, <1>5, <1>6, <1>7, HandlersIInv

LEMMA VisitIInv ==
  ASSUME IInv, NEW h \in handlers, Visit(h) \/ FilterEnds(h), UNCHANGED restarts
  PROVE  IInv'
<1>1. h \in Handler /\ h.pc = "filter"
  BY Types DEF Visit, FilterEnds
<1>2. CASE Visit(h)
  <2>1. PICK x, y : x = h.kept \cup Others(h.w, First(h.ahead)) /\ y = h.ahead \ First(h.ahead)
    OBVIOUS
  <2>2. First(h.ahead) \subseteq h.ahead /\ h.ahead \subseteq Entries /\ h.kept \subseteq Entries
    BY <1>1, HandlerFacts DEF First
  <2>3. x \subseteq Entries /\ y \subseteq Entries /\ y \subseteq h.ahead
    BY <2>1, <2>2 DEF Others
  <2>4. x \cup Others(h.w, y) = Result(h)
    BY <2>1, <2>2 DEF Others, Result
  <2>5. PICK n : n = [h EXCEPT !.kept = x, !.ahead = y]
    OBVIOUS
  <2>6. /\ n \in Handler /\ n.w = h.w /\ n.k = h.k /\ n.op = h.op /\ n.i = h.i
        /\ n.status = h.status /\ n.pc = "filter" /\ n.kept = x /\ n.ahead = y
    BY <1>1, <2>3, <2>5 DEF Handler
  <2>7. Result(n) = Result(h)
    BY <2>4, <2>6 DEF Result
  <2>8. handlers' = (handlers \ {h}) \cup {n}
        /\ UNCHANGED <<worker, list, entry, beats, thread, ghosts>>
    BY <1>2, <2>1, <2>5 DEF Visit
  <2>9. n.pc \in Filtering
    BY <2>6 DEF Filtering
  <2> QED BY <1>1, <2>3, <2>6, <2>7, <2>8, <2>9, FilterIInv
<1>3. CASE FilterEnds(h)
  <2>1. PICK n : n = Filtered(h)
    OBVIOUS
  <2>2. /\ n \in Handler /\ n.w = h.w /\ n.k = h.k /\ n.op = h.op /\ n.i = h.i
        /\ n.status = h.status /\ n.pc = "assign" /\ n.ahead = {} /\ Result(n) = Result(h)
    BY <1>1, <2>1, FilteredFacts
  <2>3. handlers' = (handlers \ {h}) \cup {n}
        /\ UNCHANGED <<worker, list, entry, beats, thread, ghosts>>
    BY <1>3, <2>1 DEF FilterEnds
  <2>4. n.pc \in Filtering /\ n.ahead \subseteq h.ahead
    BY <2>2 DEF Filtering
  <2> QED BY <1>1, <2>2, <2>3, <2>4, FilterIInv
<1> QED BY <1>2, <1>3

(* An answer: the handler ends, and the worker that waited for it is up.   *)
LEMMA ReplyIInv ==
  ASSUME IInv, NEW h \in handlers, Reply(h), UNCHANGED restarts
  PROVE  IInv'
<1> USE Types DEF worker, list, entry, beats, thread, ghosts
<1>1. h \in Handler /\ h.pc = "reply" /\ h.w \in Workers /\ handlers' = handlers \ {h}
      /\ UNCHANGED <<made, calls, attempt, list, entry, beats, thread, exposed, skipped>>
  BY HandlerFacts DEF Reply
<1>2. \/ UNCHANGED <<phase, steady>>
      \/ phase' = [phase EXCEPT ![h.w] = "up"] /\ steady' = [steady EXCEPT ![h.w] = TRUE]
  BY DEF Reply
<1>3. /\ phase' \in [Workers -> {"off", "registering", "up", "leaving", "quitting"}]
      /\ steady' \in [Workers -> BOOLEAN]
      /\ \A w \in Workers \ {h.w} : steady'[w] = steady[w] /\ phase'[w] = phase[w]
      /\ steady'[h.w] => steady[h.w] \/ phase'[h.w] = "up"
      /\ phase'[h.w] = phase[h.w] \/ phase'[h.w] = "up"
  BY <1>1, <1>2 DEF IInv, TypeOK
<1>4. TypeOK'
  BY <1>1, <1>3 DEF IInv, TypeOK
<1>5. HandlerShape'
  BY <1>1 DEF IInv, HandlerShape
<1>6. SteadyAlive'
  BY <1>1, <1>3 DEF IInv, SteadyAlive, Alive
<1>7. ASSUME NEW w \in Workers, Settled(w)' PROVE Settled(w) \/ Writing(w)
  BY <1>1, <1>3, <1>7 DEF Settled, Writing
<1>8. ASSUME NEW g \in handlers', g.op = "deregister", steady'[g.w] PROVE steady[g.w] \/ exposed[g.w]
  <2>1. g \in handlers /\ g # h /\ g.w \in Workers /\ g.k # h.k
    BY <1>1, HandlerFacts DEF IInv, HandlerShape
  <2>2. g.w = h.w => exposed[g.w]
    BY <2>1 DEF IInv, Solo
  <2> QED BY <1>3, <1>8, <2>1, <2>2
<1>9. \A f \in handlers : f.pc = "append" => f \in handlers'
  BY <1>1
<1>10. ASSUME NEW g \in handlers'
       PROVE  \E f \in handlers :
                /\ g.w = f.w /\ g.k = f.k /\ g.op = f.op /\ g.i = f.i
                /\ Result(g) = Result(f) /\ g.kept \subseteq f.kept \cup f.ahead /\ g.ahead \subseteq f.ahead
                /\ g.pc = f.pc \/ (f.pc \in Filtering /\ g.pc \in Filtering)
  BY <1>1
<1> QED BY <1>1, <1>4, <1>5, <1>6, <1>7, <1>8, <1>9, <1>10, HandlersIInv

-----------------------------------------------------------------------------
(* Heartbeats.                                                             *)

LEMMA HeartbeatIInv ==
  ASSUME IInv, NEW w \in Workers, UNCHANGED restarts,
         \/ Heartbeat(w) \/ HeartbeatVisit(w) \/ HeartbeatFinds(w)
         \/ HeartbeatStamp(w) \/ HeartbeatStatus(w) \/ HeartbeatLost(w)
  PROVE  IInv'
<1> USE Types DEF worker, list, entry, thread
<1>0. HeartbeatOnly
  BY DEF Heartbeat, HeartbeatVisit, HeartbeatFinds, HeartbeatStamp, HeartbeatStatus, HeartbeatLost
<1>a. /\ UNCHANGED <<phase, made, calls, attempt, handlers, list, loop, todo, cur, passed, exposed, skipped>>
      /\ beat \in [Workers -> {"due", "seeking", "found", "stamped", "done"}]
      /\ rest \in [Workers -> SUBSET Entries] /\ target \in [Workers -> SUBSET Entries]
      /\ 0 \in 0..OfflineAge /\ First(rest[w]) \subseteq rest[w] /\ First(Own(w)) \subseteq rest[w]
  BY <1>0, AgesAssumption DEF HeartbeatOnly, IInv, TypeOK, First, Own
<1>b. /\ \A v \in Workers \ {w} : beat'[v] = beat[v] /\ rest'[v] = rest[v] /\ target'[v] = target[v]
      /\ beat' \in [Workers -> {"due", "seeking", "found", "stamped", "done"}]
      /\ rest' \in [Workers -> SUBSET Entries] /\ target' \in [Workers -> SUBSET Entries]
  BY <1>a DEF Heartbeat, HeartbeatVisit, HeartbeatFinds, HeartbeatStamp, HeartbeatStatus,
              HeartbeatLost, Sought
<1>c. /\ steady' \in [Workers -> BOOLEAN] /\ \A v \in Workers : steady'[v] => steady[v]
      /\ HeartbeatLost(w) => ~steady'[w]
  BY DEF IInv, TypeOK, Heartbeat, HeartbeatVisit, HeartbeatFinds, HeartbeatStamp, HeartbeatStatus,
         HeartbeatLost
<1>d. /\ age' \in [Entries -> 0..OfflineAge] /\ \A e \in Entries : age'[e] \in {age[e], 0}
      /\ ~HeartbeatStamp(w) => age' = age
      /\ HeartbeatStamp(w) => \A e \in Entries : age'[e] = IF e \in target[w] THEN 0 ELSE age[e]
  BY <1>a DEF Heartbeat, HeartbeatVisit, HeartbeatFinds, HeartbeatStamp, HeartbeatStatus, HeartbeatLost
<1>e. status' \in [Entries -> EntryState]
      /\ \A e \in Entries : \/ status'[e] = status[e]
                            \/ status'[e] = "ACTIVE" /\ age[e] = 0 /\ age'[e] = 0
  <2>1. CASE HeartbeatStatus(w)
    <3>1. \A e \in target[w] : age[e] = 0
      BY <2>1 DEF HeartbeatStatus, IInv, BeatShape
    <3> QED BY <2>1, <3>1 DEF HeartbeatStatus, EntryState
  <2>2. CASE ~HeartbeatStatus(w)
    BY <2>2 DEF Heartbeat, HeartbeatVisit, HeartbeatFinds, HeartbeatStamp, HeartbeatLost
  <2> QED BY <2>1, <2>2
<1>f. /\ beat[w] # "seeking" => rest[w] = {}
      /\ beat[w] \notin {"found", "stamped"} => target[w] = {}
  BY DEF IInv, BeatShape
<1>g. /\ rest'[w] \subseteq rest[w] \cup listed
      /\ target'[w] \subseteq target[w] \cup rest[w]
      /\ beat'[w] # "seeking" => rest'[w] = {}
      /\ beat'[w] \notin {"found", "stamped"} => target'[w] = {}
      /\ beat'[w] = "stamped" => HeartbeatStamp(w) /\ target'[w] = target[w]
  <2>1. CASE Heartbeat(w)
    BY <1>a, <1>f, <2>1 DEF Heartbeat
  <2>2. CASE HeartbeatVisit(w)
    BY <1>a, <1>f, <2>2 DEF HeartbeatVisit
  <2>3. CASE HeartbeatFinds(w)
    <3>1. Sought(w) = "done" => First(Own(w)) = {}
      BY DEF Sought, First
    <3>2. Sought(w) \in {"done", "found"}
      BY DEF Sought
    <3> QED BY <1>a, <1>f, <2>3, <3>1, <3>2 DEF HeartbeatFinds
  <2>4. CASE HeartbeatStamp(w)
    BY <1>a, <1>f, <2>4 DEF HeartbeatStamp
  <2>5. CASE HeartbeatStatus(w)
    BY <1>a, <1>f, <2>5 DEF HeartbeatStatus
  <2>6. CASE HeartbeatLost(w)
    BY <1>a, <1>f, <2>6 DEF HeartbeatLost
  <2> QED BY <2>1, <2>2, <2>3, <2>4, <2>5, <2>6
<1>1. TypeOK'
  BY <1>a, <1>b, <1>c, <1>d, <1>e DEF IInv, TypeOK
<1>2. SteadyAlive'
  BY <1>a, <1>c DEF IInv, SteadyAlive, Alive
<1>3. BeatShape'
  <2> SUFFICES ASSUME NEW v \in Workers
               PROVE  /\ beat'[v] # "seeking" => rest'[v] = {}
                      /\ beat'[v] \notin {"found", "stamped"} => target'[v] = {}
                      /\ beat'[v] = "stamped" => \A e \in target'[v] : age'[e] = 0
    BY DEF BeatShape
  <2>1. CASE v = w
    BY <1>d, <1>g, <2>1
  <2>2. CASE v # w
    BY <1>b, <1>d, <2>2 DEF IInv, BeatShape
  <2> QED BY <2>1, <2>2
<1>4. PassMarks'
  <2>1. ASSUME NEW e \in Entries, Silent(e)' PROVE Silent(e)
    BY <1>a, <1>d, <1>e, <2>1, AgesAssumption DEF Silent
  <2> QED BY <1>a, <2>1 DEF IInv, PassMarks
<1>5. ASSUME NEW v \in Workers, FirstOf(v) \in Entries, FirstHeld(v), Latest(v, rest[v]),
             age'[FirstOf(v)] # 0, steady'[v]
      PROVE  /\ beat'[v] \notin {"stamped", "done"}
             /\ beat'[v] = "seeking" => FirstOf(v) \in rest'[v]
             /\ beat'[v] = "found" => FirstOf(v) \in target'[v]
  <2>1. age[FirstOf(v)] # 0
    BY <1>5, <1>d
  <2>2. CASE v # w
    BY <1>5, <1>b, <2>1, <2>2 DEF FirstHeld
  <2>3. CASE v = w
    <3>1. CASE Heartbeat(w)
      BY <1>5, <1>a, <2>3, <3>1 DEF Heartbeat, FirstHeld
    <3>2. CASE HeartbeatVisit(w)
      <4>1. FirstOf(w) \notin First(rest[w])
        BY <3>2, FirstOfFacts DEF HeartbeatVisit
      <4> QED BY <1>5, <1>a, <2>1, <2>3, <3>2, <4>1 DEF HeartbeatVisit, FirstHeld
    <3>3. CASE HeartbeatFinds(w)
      <4>1. FirstOf(w) \in rest[w]
        BY <1>5, <2>1, <2>3, <3>3 DEF HeartbeatFinds, FirstHeld
      <4>2. Sought(w) = "found" /\ FirstOf(w) \in First(Own(w))
        BY <1>5, <2>3, <4>1, FirstSought
      <4> QED BY <1>a, <2>3, <3>3, <4>2 DEF HeartbeatFinds
    <3>4. CASE HeartbeatStamp(w)
      <4>1. FirstOf(w) \in target[w]
        BY <1>5, <2>1, <2>3, <3>4 DEF HeartbeatStamp, FirstHeld
      <4> QED BY <1>5, <1>d, <2>3, <3>4, <4>1
    <3>5. CASE HeartbeatStatus(w)
      BY <1>5, <2>1, <2>3, <3>5 DEF HeartbeatStatus, FirstHeld
    <3>6. CASE HeartbeatLost(w)
      BY <1>5, <1>c, <2>3, <3>6
    <3> QED BY <3>1, <3>2, <3>3, <3>4, <3>5, <3>6
  <2> QED BY <2>2, <2>3
<1>6. \A v \in Workers : rest'[v] \subseteq rest[v] \cup listed /\ target'[v] \subseteq target[v] \cup rest[v]
  BY <1>b, <1>g
<1>7. UNCHANGED <<made, calls, handlers, list, exposed, skipped>> /\ loop' = loop /\ todo' = todo /\ cur' = cur
  BY <1>a
<1>8. /\ \A e \in Entries : age'[e] # 0 /\ status'[e] \notin Silenced => status[e] \notin Silenced
      /\ \A e \in Entries : status'[e] \in Silenced => status[e] \in Silenced \/ e \in cur.entry
  BY <1>e DEF Silenced
<1> HIDE Types DEF worker, list, entry, thread
<1> QED BY <1>1, <1>2, <1>3, <1>4, <1>5, <1>6, <1>7, <1>8, <1>c, <1>d, EntriesIInv

-----------------------------------------------------------------------------
(* The expiry loop.                                                        *)

LEMMA LoopIInv ==
  ASSUME IInv, UNCHANGED restarts,
         \/ LoopStart \/ (\E e \in Entries : LoopCheck(e)) \/ LoopMark \/ LoopEnd
         \/ (LoopRemove /\ ~(cur.entry \subseteq listed))
  PROVE  IInv'
<1> USE Types, AgesAssumption DEF worker, list
<1>0. LoopOnly /\ Undisturbed
  BY DEF LoopStart, LoopCheck, LoopMark, LoopEnd, LoopRemove
<1>a. UNCHANGED <<phase, made, calls, attempt, handlers, listed, born, births, age, beat, rest,
                  target, steady, exposed, skipped>>
  BY <1>0 DEF LoopOnly, Undisturbed
<1>b. /\ \A e \in todo' : e \in todo \/ (e \in listed /\ age[e] >= UnhealthyAge)
      /\ \A e \in cur'.entry : e \in cur.entry \/ e \in todo
      /\ todo' \subseteq Entries
      /\ loop # "dead" \/ loop' = "dead"
      /\ loop' \in {"sleep", "check", "mark", "remove", "dead"} /\ passed' \in BOOLEAN
      /\ cur' \in [entry : SUBSET Entries, offline : BOOLEAN]
  <2>1. CASE LoopStart
    BY <2>1 DEF LoopStart, IInv, TypeOK
  <2>2. ASSUME NEW e \in Entries, LoopCheck(e)
        PROVE  /\ \A d \in todo' : d \in todo
               /\ \A d \in cur'.entry : d \in cur.entry \/ d \in todo
               /\ loop # "dead" /\ loop' \in {"check", "mark"} /\ passed' \in BOOLEAN
               /\ cur' \in [entry : SUBSET Entries, offline : BOOLEAN]
    <3>1. PICK b \in BOOLEAN : b = (age[e] >= OfflineAge)
      <4>1. (age[e] >= OfflineAge) \in BOOLEAN
        OBVIOUS
      <4> QED BY <4>1, Zenon
    <3>2. \/ cur' = [entry |-> {e}, offline |-> b] /\ loop' = "mark"
          \/ cur' = cur /\ loop' = loop
      BY <2>2, <3>1, Zenon DEF LoopCheck
    <3>3. e \in todo /\ loop = "check" /\ todo' = todo \ {e} /\ passed' = passed
      BY <2>2 DEF LoopCheck, First
    <3>4. cur' \in [entry : SUBSET Entries, offline : BOOLEAN]
          /\ \A d \in cur'.entry : d \in cur.entry \/ d \in todo
      BY <3>2, <3>3 DEF IInv, TypeOK
    <3> QED BY <3>2, <3>3, <3>4 DEF IInv, TypeOK
  <2>3. CASE LoopMark
    BY <2>3 DEF LoopMark, IInv, TypeOK
  <2>4. CASE LoopEnd
    <3>1. PICK b \in BOOLEAN : b = FALSE
      OBVIOUS
    <3>2. cur' = [entry |-> {}, offline |-> b]
      BY <2>4, <3>1, Zenon DEF LoopEnd
    <3> QED BY <2>4, <3>2 DEF LoopEnd, IInv, TypeOK
  <2>5. CASE LoopRemove /\ ~(cur.entry \subseteq listed)
    BY <2>5 DEF LoopRemove, IInv, TypeOK
  <2> QED BY <2>1, <2>2, <2>3, <2>4, <2>5
<1>c. /\ status' \in [Entries -> EntryState]
      /\ \A e \in Entries : \/ status'[e] = status[e]
                            \/ status'[e] \in Silenced /\ e \in cur.entry
      /\ LoopMark => \A e \in cur.entry : status'[e] \in Silenced
  BY DEF LoopStart, LoopCheck, LoopMark, LoopEnd, LoopRemove, EntryState, Silenced
<1>d. ASSUME NEW e \in Entries, Silent(e)' PROVE Silent(e) /\ (LoopMark => e \notin cur.entry)
  BY <1>a, <1>c, <1>d DEF Silent
<1>1. TypeOK'
  BY <1>a, <1>b, <1>c DEF IInv, TypeOK
<1>2. SteadyAlive' /\ BeatShape'
  BY <1>a DEF IInv, SteadyAlive, Alive, BeatShape
<1>3. PassMarks'
  <2>1. CASE LoopStart
    BY <1>a, <1>d, <2>1 DEF LoopStart, IInv, PassMarks, Silent
  <2>2. ASSUME NEW e \in Entries, LoopCheck(e) PROVE PassMarks'
    <3>1. loop = "check" /\ e \in todo /\ todo' = todo \ {e} /\ passed' = passed
      BY <2>2 DEF LoopCheck, First
    <3>2. \/ loop' = "mark" /\ e \in cur'.entry
          \/ loop' = "check" /\ ~Silent(e)
      BY <2>2 DEF LoopCheck, Silent
    <3> QED BY <1>a, <1>d, <3>1, <3>2 DEF IInv, PassMarks
  <2>3. CASE LoopMark
    <3>1. todo' = todo /\ cur' = cur /\ passed' = passed /\ loop = "mark" /\ loop' \in {"check", "remove"}
      BY <2>3 DEF LoopMark
    <3> QED BY <1>a, <1>d, <2>3, <3>1 DEF IInv, PassMarks
  <2>4. CASE LoopEnd
    <3>1. \A e \in listed : ~Silent(e)
      BY <2>4 DEF LoopEnd, IInv, PassMarks
    <3> QED BY <1>a, <1>d, <2>4, <3>1 DEF LoopEnd, PassMarks
  <2>5. CASE LoopRemove /\ ~(cur.entry \subseteq listed)
    <3>1. loop' = "dead" /\ passed' = passed
      BY <2>5 DEF LoopRemove
    <3> QED BY <1>a, <1>d, <3>1 DEF IInv, PassMarks
  <2> QED BY <2>1, <2>2, <2>3, <2>4, <2>5
<1>4. /\ \A e \in Entries : age'[e] \in {age[e], 0}
      /\ \A e \in Entries : age'[e] # 0 /\ status'[e] \notin Silenced => status[e] \notin Silenced
      /\ \A e \in Entries : status'[e] \in Silenced => status[e] \in Silenced \/ e \in cur.entry
      /\ \A w \in Workers : rest'[w] \subseteq rest[w] \cup listed
      /\ \A w \in Workers : target'[w] \subseteq target[w] \cup rest[w]
      /\ \A w \in Workers : steady'[w] => steady[w]
      /\ UNCHANGED <<made, calls, handlers, list, exposed, skipped>>
  BY <1>a, <1>c
<1>5. ASSUME NEW w \in Workers, FirstHeld(w), age'[FirstOf(w)] # 0
      PROVE  /\ beat'[w] \notin {"stamped", "done"}
             /\ beat'[w] = "seeking" => FirstOf(w) \in rest'[w]
             /\ beat'[w] = "found" => FirstOf(w) \in target'[w]
  BY <1>5, <1>a DEF FirstHeld
<1> HIDE Types, AgesAssumption DEF worker, list
<1> QED BY <1>1, <1>2, <1>3, <1>4, <1>5, <1>b, EntriesIInv

(* A removal shifts the lists that are being iterated.                     *)
Moved(h) == [h EXCEPT !.ahead = Shifted(@)]
LEMMA MovedFacts ==
  ASSUME NEW h \in Handler
  PROVE  /\ Moved(h) \in Handler
         /\ Moved(h).w = h.w /\ Moved(h).k = h.k /\ Moved(h).op = h.op /\ Moved(h).i = h.i
         /\ Moved(h).status = h.status /\ Moved(h).pc = h.pc /\ Moved(h).kept = h.kept
         /\ Moved(h).ahead \subseteq h.ahead
         /\ Result(Moved(h)) \subseteq Result(h)
         /\ \A e \in Result(h) : e \in cur.entry \/ e \in Missed(h.ahead) \/ e \in Result(Moved(h))
<1>1. PICK s : s = Shifted(h.ahead)
  OBVIOUS
<1>2. s \subseteq h.ahead /\ h.ahead \subseteq Entries
      /\ \A e \in h.ahead : e \in cur.entry \/ e \in Missed(h.ahead) \/ e \in s
  BY <1>1, HandlerFacts DEF Shifted
<1>3. PICK r : r = [h EXCEPT !.ahead = s]
  OBVIOUS
<1>4. /\ r \in Handler /\ r.w = h.w /\ r.k = h.k /\ r.op = h.op /\ r.i = h.i
      /\ r.status = h.status /\ r.pc = h.pc /\ r.kept = h.kept /\ r.ahead = s
  BY <1>2, <1>3 DEF Handler
<1>5. Moved(h) = r
  BY <1>1, <1>3 DEF Moved
<1>6. /\ Result(r) \subseteq Result(h)
      /\ \A e \in Result(h) : e \in cur.entry \/ e \in Missed(h.ahead) \/ e \in Result(r)
  BY <1>2, <1>4 DEF Result, Others
<1> QED BY <1>2, <1>4, <1>5, <1>6

LEMMA LoopRemoveIInv ==
  ASSUME IInv, LoopRemove, cur.entry \subseteq listed, UNCHANGED restarts
  PROVE  IInv'
<1> USE Types DEF list
<1>a. /\ UNCHANGED <<phase, made, calls, attempt, born, births, status, age, beat, target, todo,
                     cur, passed, steady, exposed>>
      /\ loop = "remove" /\ loop' = "check" /\ listed' = listed \ cur.entry
      /\ handlers' = {Moved(h) : h \in handlers}
      /\ rest' = [w \in Workers |-> Shifted(rest[w])]
  BY DEF LoopRemove, LoopOnly, worker, Moved
<1>b. \A g : Result(g)' = Result(g)
  BY DEF Result, Others
<1>c. ASSUME NEW g \in handlers'
      PROVE  \E f \in handlers :
               /\ g = Moved(f) /\ f \in Handler /\ g \in Handler
               /\ g.w = f.w /\ g.k = f.k /\ g.op = f.op /\ g.i = f.i
               /\ g.status = f.status /\ g.pc = f.pc /\ g.kept = f.kept
               /\ g.ahead \subseteq f.ahead /\ Result(g) \subseteq Result(f)
               /\ \A e \in Result(f) : e \in cur.entry \/ e \in Missed(f.ahead) \/ e \in Result(g)
  <2>1. PICK f \in handlers : g = Moved(f)
    BY <1>a
  <2>2. f \in Handler
    OBVIOUS
  <2> QED BY <2>1, <2>2, MovedFacts
<1>d. ASSUME NEW f \in handlers
      PROVE  \E g \in handlers' : g.w = f.w /\ g.pc = f.pc /\ g.i = f.i
  <2>1. f \in Handler /\ Moved(f) \in handlers'
    BY <1>a
  <2> QED BY <2>1, MovedFacts
<1>e. \A S : Shifted(S) \subseteq S /\ \A e \in S : e \in cur.entry \/ e \in Missed(S) \/ e \in Shifted(S)
  BY DEF Shifted
<1>f. /\ skipped' \in [Workers -> BOOLEAN]
      /\ \A w \in Workers : ~skipped'[w] => ~skipped[w] /\ ~Misses(w)
  <2>1. skipped' = [w \in Workers |-> skipped[w] \/ Misses(w)]
    BY DEF LoopRemove
  <2> QED BY <2>1, Zenon
<1>1. TypeOK'
  <2>1. rest' \in [Workers -> SUBSET Entries] /\ handlers' \subseteq Handler /\ listed' \subseteq Entries
    BY <1>a, <1>c, <1>e
  <2> QED BY <1>a, <1>f, <2>1 DEF IInv, TypeOK
<1>2. HandlerShape'
  <2>1. ASSUME NEW g \in handlers'
        PROVE  /\ g.k <= calls[g.w] /\ \A e \in g.kept : e.w # g.w
               /\ g.pc # "filter" => g.ahead = {}
               /\ g.pc \notin Filtering => g.kept = {}
               /\ g.pc \in Filtering => g.i = 1
               /\ g.pc = "append" => g.i \in 1..Len(TypesOf[g.w])
               /\ g.status \notin Silenced
    <3>1. PICK f \in handlers :
               /\ g.w = f.w /\ g.k = f.k /\ g.i = f.i
               /\ g.status = f.status /\ g.pc = f.pc /\ g.kept = f.kept /\ g.ahead \subseteq f.ahead
      BY <1>c
    <3> QED BY <3>1 DEF IInv, HandlerShape
  <2>2. ASSUME NEW g \in handlers', NEW d \in handlers', g.k = d.k PROVE d = g
    <3>1. PICK f \in handlers : g = Moved(f) /\ g.k = f.k
      BY <1>c
    <3>2. PICK f2 \in handlers : d = Moved(f2) /\ d.k = f2.k
      BY <1>c
    <3>3. f = f2
      BY <2>2, <3>1, <3>2 DEF IInv, HandlerShape
    <3> QED BY <3>1, <3>2, <3>3
  <2> QED BY <1>a, <2>1, <2>2 DEF HandlerShape
<1>3. BeatShape'
  BY <1>a, <1>e DEF IInv, BeatShape
<1>4. Births'
  <2> SUFFICES ASSUME NEW e \in Entries
               PROVE  /\ \A g \in handlers' : (Due(g, e) => born[e] = 0) /\ (Behind(g, e) => born[e] # 0)
                      /\ born[e] = 0 => /\ e \notin listed'
                                        /\ \A g \in handlers' : e \notin g.kept /\ e \notin g.ahead
                                        /\ \A w \in Workers : e \notin rest'[w]
    BY <1>a DEF IInv, Births, Nowhere, Due, Behind
  <2>1. ASSUME NEW g \in handlers'
        PROVE  /\ (Due(g, e) => born[e] = 0) /\ (Behind(g, e) => born[e] # 0)
               /\ born[e] = 0 => e \notin g.kept /\ e \notin g.ahead
    <3>1. PICK f \in handlers :
               /\ g.w = f.w /\ g.k = f.k /\ g.i = f.i
               /\ g.pc = f.pc /\ g.kept = f.kept /\ g.ahead \subseteq f.ahead
      BY <1>c
    <3>2. (Due(g, e) => Due(f, e)) /\ (Behind(g, e) => Behind(f, e))
      BY <3>1 DEF Due, Behind
    <3> QED BY <3>1, <3>2 DEF IInv, Births, Nowhere
  <2>2. born[e] = 0 => e \notin listed' /\ \A w \in Workers : e \notin rest'[w]
    BY <1>a, <1>e DEF IInv, Births, Nowhere
  <2> QED BY <2>1, <2>2
<1>5. BornOrder'
  BY <1>a DEF IInv, BornOrder
<1>6. Recent'
  <2>1. ASSUME NEW e \in Entries, NEW g \in handlers', age[e] # 0, g.w = e.w PROVE e.k < g.k
    BY <1>c, <2>1 DEF IInv, Recent
  <2> QED BY <1>a, <2>1 DEF Recent
<1>g. ASSUME NEW e \in Entries, Silent(e)' PROVE Silent(e) /\ ~Misses(e.w) /\ e \notin cur.entry
  <2>1. Silent(e) /\ ~Misses(e.w)
    BY <1>a, <1>f, <1>g, EntryFacts DEF Silent
  <2>2. e \notin cur.entry
    BY <1>a, <2>1 DEF IInv, PassMarks
  <2> QED BY <2>1, <2>2
<1>7. Carried'
  <2> SUFFICES ASSUME NEW e \in Entries, Silent(e)', e \in listed' \/ \E g \in handlers' : e \in Result(g)
               PROVE  /\ e \in listed'
                      /\ \A g \in handlers' : g.w # e.w /\ g.pc \in Filtering => e \in Result(g)
    BY <1>b DEF Carried, Reachable
  <2>1. Silent(e) /\ ~Misses(e.w) /\ e \notin cur.entry
    BY <1>g
  <2>2. Reachable(e)
    BY <1>a, <1>c DEF Reachable
  <2>3. e \in listed /\ \A f \in handlers : f.w # e.w /\ f.pc \in Filtering => e \in Result(f)
    BY <2>1, <2>2 DEF IInv, Carried
  <2>4. ASSUME NEW g \in handlers', g.w # e.w, g.pc \in Filtering PROVE e \in Result(g)
    <3>1. PICK f \in handlers :
            /\ g.w = f.w /\ g.pc = f.pc
            /\ \A d \in Result(f) : d \in cur.entry \/ d \in Missed(f.ahead) \/ d \in Result(g)
      BY <1>c
    <3>2. e \in Result(f)
      BY <2>3, <2>4, <3>1
    <3>3. e \notin Missed(f.ahead)
      BY <2>1, <2>4, <3>1 DEF Misses
    <3> QED BY <2>1, <3>1, <3>2, <3>3
  <2> QED BY <1>a, <2>1, <2>3, <2>4
<1>8. PassMarks'
  <2>1. \A e \in listed' : Silent(e)' => e \in listed /\ Silent(e)
    BY <1>a, <1>g
  <2> QED BY <1>a, <2>1 DEF IInv, PassMarks
<1>9. StaleNotOffered'
  <2> SUFFICES ASSUME NEW e \in listed', age[e] > UnhealthyAge, e.k = calls[e.w],
                      ~skipped'[e.w], status[e] \notin Silenced
               PROVE  FALSE
    BY <1>a DEF StaleNotOffered, LookupWorker, Silenced
  <2>1. e \in listed /\ e \in Entries /\ ~skipped[e.w]
    BY <1>a, <1>f, EntryFacts
  <2> QED BY <1>a, <2>1 DEF IInv, StaleNotOffered, LookupWorker, Silenced
<1>10. Solo'
  <2> SUFFICES ASSUME NEW w \in Workers, ~exposed[w], NEW g \in handlers', g.w = w
               PROVE  g.k = calls[w] /\ (g.op = "deregister" => ~steady[w])
    BY <1>a DEF Solo
  <2> QED BY <1>c DEF IInv, Solo
<1>11. FirstKept'
  <2> SUFFICES ASSUME NEW w \in Workers, Safe(w)' PROVE Kept(w)'
    BY DEF FirstKept
  <2>0. FirstOf(w)' = FirstOf(w) /\ ~Misses(w) /\ ~skipped[w]
    BY <1>a, <1>f DEF FirstOf, Safe
  <2>1. Writing(w)' => Writing(w)
    BY <1>c DEF Writing
  <2>2. Settled(w)' => Settled(w)
    BY <1>a, <1>d DEF Settled
  <2>3. Appended(w)' => Appended(w)
    BY <1>d DEF Appended
  <2>4. Kept(w)
    BY <1>a, <2>0, <2>1, <2>2 DEF Safe, IInv, FirstKept
  <2>5. /\ Latest(w, listed)' /\ Latest(w, rest[w])'
        /\ \A g \in handlers' : Latest(w, Result(g))'
    <3>1. ASSUME NEW g \in handlers' PROVE \A e \in Result(g) : e.w = w => e.k = calls[w]
      BY <1>c, <2>4 DEF Kept, Latest
    <3> QED BY <1>a, <1>b, <1>e, <2>4, <3>1 DEF Kept, Latest
  <2>6. ASSUME Appended(w)' PROVE FirstHeld(w)'
    <3>1. FirstHeld(w) /\ FirstOf(w).w = w
      BY <2>3, <2>4, <2>6, FirstOfFacts DEF Kept
    <3>2. ASSUME NEW g \in handlers', g.w # w, g.pc \in Filtering PROVE FirstOf(w) \in Result(g)
      <4>1. PICK f \in handlers :
              /\ g.w = f.w /\ g.pc = f.pc
              /\ \A d \in Result(f) : d \in cur.entry \/ d \in Missed(f.ahead) \/ d \in Result(g)
        BY <1>c
      <4>2. FirstOf(w) \in Result(f) /\ FirstOf(w) \notin cur.entry
        BY <3>1, <3>2, <4>1 DEF FirstHeld
      <4>3. FirstOf(w) \notin Missed(f.ahead)
        BY <2>0, <3>1, <3>2, <4>1 DEF Misses
      <4> QED BY <4>1, <4>2, <4>3
    <3>3. FirstOf(w) \in rest[w] => FirstOf(w) \in rest'[w]
      <4>1. FirstOf(w) \notin Missed(rest[w])
        BY <2>0, <3>1 DEF Misses
      <4> QED BY <1>a, <1>e, <3>1, <4>1 DEF FirstHeld
    <3> QED BY <1>a, <1>b, <2>0, <3>1, <3>2, <3>3 DEF FirstHeld
  <2> QED BY <2>5, <2>6 DEF Kept
<1>12. SteadyAlive'
  BY <1>a DEF IInv, SteadyAlive, Alive
<1> QED BY <1>1, <1>2, <1>3, <1>4, <1>5, <1>6, <1>7, <1>8, <1>9, <1>10, <1>11, <1>12 DEF IInv

-----------------------------------------------------------------------------
(* Time, restarts, and every step.                                         *)

LEMMA TickIInv == ASSUME IInv, Tick PROVE IInv'
<1> USE Types, AgesAssumption DEF worker, list, ghosts
<1>a. /\ UNCHANGED <<phase, made, calls, attempt, handlers, listed, born, births, rest, target, loop,
                     todo, cur, steady, exposed, skipped, restarts>>
      /\ handlers = {} /\ ~passed' /\ passed' \in BOOLEAN
      /\ loop = "dead" \/ (loop = "sleep" /\ passed)
      /\ beat' = [w \in Workers |-> "due"]
      /\ \A w \in Workers : beat[w] \in {"due", "done"} /\ (Alive(w) => beat[w] = "done")
  BY DEF Tick
<1>b. /\ age' \in [Entries -> 0..OfflineAge] /\ status' \in [Entries -> EntryState]
      /\ \A e \in Entries : e \notin listed => age'[e] = 0
      /\ \A e \in listed : status'[e] = status[e] /\ age'[e] <= age[e] + 1
  <2>1. \A e \in Entries : age[e] \in 0..OfflineAge
    BY DEF IInv, TypeOK
  <2> QED BY <2>1 DEF Tick, EntryState
<1>1. TypeOK'
  BY <1>a, <1>b DEF IInv, TypeOK
<1>2. HandlerShape' /\ Recent' /\ Solo'
  BY <1>a DEF HandlerShape, Recent, Solo
<1>3. BeatShape' /\ BornOrder' /\ SteadyAlive'
  BY <1>a DEF IInv, BeatShape, BornOrder, SteadyAlive, Alive
<1>4. Births'
  BY <1>a, <1>b DEF IInv, Births, Nowhere
<1>5. Carried'
  BY <1>a, <1>b DEF Carried, Silent
<1>6. PassMarks'
  BY <1>a DEF PassMarks
<1>7. StaleNotOffered'
  <2> SUFFICES ASSUME loop # "dead", NEW e \in listed, age'[e] > UnhealthyAge, e.k = calls[e.w],
                      ~skipped[e.w], status'[e] \notin Silenced
               PROVE  FALSE
    BY <1>a DEF StaleNotOffered, LookupWorker, Silenced
  <2>1. Silent(e)
    BY <1>b DEF Silent
  <2> QED BY <1>a, <2>1 DEF IInv, PassMarks
<1>8. FirstKept'
  <2> SUFFICES ASSUME NEW w \in Workers, Safe(w)' PROVE Kept(w)'
    BY DEF FirstKept
  <2>1. FirstOf(w)' = FirstOf(w) /\ Settled(w) /\ Safe(w) /\ Appended(w)
    BY <1>a DEF Safe, Writing, Settled, FirstOf, Appended
  <2>2. Kept(w) /\ FirstHeld(w)
    BY <2>1 DEF IInv, FirstKept, Kept
  <2>3. beat[w] = "done" /\ age[FirstOf(w)] = 0
    BY <1>a, <2>1, <2>2 DEF IInv, SteadyAlive, Settled, FirstHeld
  <2>4. FirstHeld(w)'
    <3>1. FirstOf(w) \in listed /\ age'[FirstOf(w)] <= 1
          /\ status'[FirstOf(w)] = status[FirstOf(w)]
      BY <1>b, <2>2, <2>3 DEF FirstHeld
    <3> QED BY <1>a, <2>1, <2>2, <3>1 DEF FirstHeld
  <2> QED BY <1>a, <2>2, <2>4 DEF Kept, Latest
<1> QED BY <1>1, <1>2, <1>3, <1>4, <1>5, <1>6, <1>7, <1>8 DEF IInv

LEMMA RestartIInv == ASSUME IInv, Restart PROVE IInv'
<1> USE Types, CallsAssumption DEF worker, list, entry
<1>a. /\ UNCHANGED <<phase, made, calls, attempt, born, births, status, age, skipped>>
      /\ listed' = {} /\ handlers' = {} /\ todo' = {} /\ loop' = "sleep" /\ passed' = FALSE
      /\ rest' = [w \in Workers |-> {}] /\ target' = [w \in Workers |-> {}]
      /\ exposed' = [w \in Workers |-> TRUE]
      /\ cur' = [entry |-> {}, offline |-> FALSE]
      /\ beat' = [w \in Workers |-> IF Answered(w) THEN beat[w] ELSE "done"]
      /\ restarts' \in 0..MaxRestarts
  BY DEF Restart, IInv, TypeOK
<1>b. beat' \in [Workers -> {"due", "done"}]
  BY <1>a DEF Answered
<1>c. steady' \in [Workers -> BOOLEAN] /\ \A w \in Workers : steady'[w] => steady[w]
  <2>1. steady' = [w \in Workers |-> steady[w] /\ Answered(w)]
    BY DEF Restart
  <2> QED BY <2>1, Zenon
<1>1. TypeOK'
  <2>1. PICK b \in BOOLEAN : b = FALSE
    OBVIOUS
  <2>2. cur' = [entry |-> {}, offline |-> b]
    BY <1>a, <2>1, Zenon
  <2>3. cur' \in [entry : SUBSET Entries, offline : BOOLEAN]
    BY <2>2
  <2> QED BY <1>a, <1>b, <1>c, <2>3 DEF IInv, TypeOK
<1>2. HandlerShape' /\ Recent' /\ Solo' /\ FirstKept'
  BY <1>a DEF HandlerShape, Recent, Solo, FirstKept, Safe
<1>3. BeatShape' /\ BornOrder' /\ SteadyAlive'
  BY <1>a, <1>b, <1>c DEF IInv, BeatShape, BornOrder, SteadyAlive, Alive
<1>4. Births'
  BY <1>a DEF IInv, Births, Nowhere
<1>5. Carried' /\ PassMarks' /\ StaleNotOffered'
  BY <1>a DEF Carried, Reachable, PassMarks, StaleNotOffered
<1> QED BY <1>1, <1>2, <1>3, <1>4, <1>5 DEF IInv

LEMMA NextIInv == ASSUME IInv, [Next]_vars PROVE IInv'
<1>1. ASSUME NEW w \in Workers, WorkerStep(w) PROVE IInv'
  BY <1>1, WorkerOnlyIInv, CallersIInv DEF WorkerStep
<1>2. ASSUME NEW w \in Workers, HandlerStep(w) PROVE IInv'
  BY <1>2, VisitIInv, AssignIInv, AppendEntryIInv, ReplyIInv, HeartbeatIInv DEF HandlerStep
<1>3. ASSUME NEW w \in Workers, BeatStep(w) PROVE IInv'
  BY <1>3, HeartbeatIInv DEF BeatStep
<1>4. CASE LoopStep
  BY <1>4, LoopIInv, LoopRemoveIInv DEF LoopStep
<1>5. CASE UNCHANGED vars
  <2> USE <1>5 DEF vars, worker, list, entry, beats, thread, ghosts
  <2>1. TypeOK' /\ HandlerShape' /\ BeatShape' /\ BornOrder' /\ Recent' /\ SteadyAlive' /\ Solo'
    BY DEF IInv, TypeOK, HandlerShape, BeatShape, BornOrder, Recent, SteadyAlive, Alive, Solo
  <2>2. (\A h : Result(h)' = Result(h)) /\ (\A e : Silent(e)' <=> Silent(e))
    BY DEF Result, Others, Silent
  <2>3. Births' /\ Carried' /\ PassMarks' /\ StaleNotOffered'
    BY <2>2 DEF IInv, Births, Nowhere, Due, Behind, Carried, Reachable, PassMarks, StaleNotOffered,
                LookupWorker
  <2>4. FirstKept'
    BY <2>2 DEF IInv, FirstKept, Safe, Kept, FirstHeld, FirstOf, Latest, Appended, Writing, Settled
  <2> QED BY <2>1, <2>3, <2>4 DEF IInv
<1> QED BY <1>1, <1>2, <1>3, <1>4, <1>5, TickIInv, RestartIInv DEF Next

(* The invariant holds in every reachable state.                           *)
THEOREM Invariance == Spec => []IInv
<1>1. IInv /\ [Next]_vars => IInv'
  BY NextIInv
<1> QED BY <1>1, InitIInv, PTL DEF Spec

(* The entries, the handlers, the heartbeats and the loop keep to the      *)
(* values the code gives them (nameservice.py:24-131).                     *)
THEOREM TypeCorrect == Spec => []TypeOK
<1>1. IInv => TypeOK
  BY DEF IInv
<1> QED BY <1>1, Invariance, PTL

(* LookupWorker never offers an entry of a worker's latest call that was   *)
(* silent for longer than UnhealthyAge, whatever races with the loop, as   *)
(* long as no removal made an iteration skip an entry of that worker and   *)
(* the loop lives (nameservice.py:31-34,60,103-105,118-126).               *)
THEOREM SilentNeverOffered == Spec => []StaleNotOffered
<1>1. IInv => StaleNotOffered
  BY DEF IInv
<1> QED BY <1>1, Invariance, PTL

(* A registered worker whose heartbeats arrive is offered for its first    *)
(* type, unless another call's handler cut across its last call, the name  *)
(* service was restarted, or a removal by the loop made an iteration skip  *)
(* its entry (nameservice.py:24-54,86-128).                                *)
THEOREM RegisteredIsOffered == Spec => []LostOnlyByRace
<1>1. IInv => LostOnlyByRace
  <2> SUFFICES ASSUME IInv, NEW w \in Workers, Settled(w), ~exposed[w], ~skipped[w]
               PROVE  Offered(w, 1)
    BY DEF LostOnlyByRace
  <2>1. FirstHeld(w)
    BY DEF IInv, FirstKept, Safe, Kept, Appended, Settled
  <2>2. /\ FirstOf(w) \in listed /\ status[FirstOf(w)] \notin Silenced
        /\ FirstOf(w).w = w /\ FirstOf(w).i = 1
    BY <2>1, FirstOfFacts DEF FirstHeld
  <2> QED BY <2>2 DEF Offered, LookupWorker, Silenced
<1> QED BY <1>1, Invariance, PTL

=============================================================================
