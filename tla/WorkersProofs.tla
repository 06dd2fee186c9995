---------------------------- MODULE WorkersProofs ----------------------------
(***************************************************************************)
(* Proofs about the workers, for any finite sets of workers and of calls,  *)
(* any task types and any number of slots.                                 *)
(***************************************************************************)
EXTENDS WorkersProperties, FiniteSetTheorems, TLAPS

-----------------------------------------------------------------------------
(* The inductive invariant, by the variables its parts are about.          *)

MainType ==
  /\ phase \in [Workers -> {"off", "starting", "serving", "updating", "waiting",
                            "joining", "quitting", "hurrying", "stuck", "jammed", "gone"}]
  /\ is_draining \in [Workers -> BOOLEAN]
  /\ timedOut \in [Workers -> BOOLEAN]
  /\ current_load \in [Workers -> Nat]

CallType ==
  /\ thread \in [Calls -> {"idle", "select", "wait", "over"}]
  /\ target \in [Calls -> Workers \cup {NoOne}]
  /\ handler \in [Calls -> [pc : HandlerPC, answer : Answers, early : BOOLEAN]]
  /\ handled \in [Calls -> BOOLEAN]
  /\ got \in [Calls -> {"none", "accepted", "refused"}]

(* How far a call is, at the worker and for who waits for it.              *)
CallStages ==
  \A c \in Calls :
    /\ target[c] = NoOne <=> handler[c].pc \in {"none", "ended"}
    /\ thread[c] \in {"idle", "select"} => handler[c].pc = "none"
    /\ handler[c].pc # "ended" => got[c] = "none"
    /\ handler[c].pc \in {"none", "ended"} => ~handled[c]
    /\ handler[c].pc \notin {"finally", "return"} <=> handler[c].answer = "none"
    /\ handler[c].pc = "finally" => handler[c].answer # "rejected"
    /\ handler[c].answer \in {"accepted", "failed"} => handled[c]

(* A lookup that selects has found a worker.                               *)
ListsHeld ==
  /\ list \in [Calls -> Seq(Workers)]
  /\ \A c \in Calls : thread[c] = "select" => list[c] # <<>>

(* A shutdown under way has set the flag.                                  *)
Flags ==
  \A w \in Workers :
    phase[w] \in {"updating", "waiting", "joining", "hurrying"} => is_draining[w]

(* The selections of a type, and where its last ones stand in their list.  *)
Selected(y) == {c \in Calls : TypeOf[c] = y /\ thread[c] \notin {"idle", "select"}}

Turn(n, i) == (i % n) + 1

(* P are the last places selected from a list of n when k were selected.   *)
Window(n, P, k) ==
  /\ P \in Seq(Nat) /\ Len(P) <= n /\ Len(P) <= k
  /\ \A j \in 1..Len(P) : P[j] = Turn(n, k - Len(P) + j - 1)

RecentPlaces(y) == Window(Len(recent[y].list), recent[y].places, counters[y])

Selection ==
  /\ counters \in [Types -> Nat]
  /\ recent \in [Types -> [list : Seq(Workers), places : Seq(Nat)]]
  /\ \A y \in Types : counters[y] = Cardinality(Selected(y))
  /\ \A y \in Types : RecentPlaces(y)

IInv ==
  /\ MainType /\ CallType /\ CallStages /\ ListsHeld /\ Flags /\ Selection
  /\ LoadCountsTasks /\ DrainWaitsForRunning

-----------------------------------------------------------------------------
(* Two numbers less than n apart have different remainders: consecutive    *)
(* values of a counter select different places (worker_selector.py:36).    *)
LEMMA Remainders ==
  ASSUME NEW n \in Nat \ {0}, NEW a \in Nat, NEW b \in Nat, a < b, b < a + n
  PROVE  a % n # b % n
<1> DEFINE qa == a \div n  qb == b \div n  ra == a % n  rb == b % n
<1>1. /\ a = n * qa + ra /\ qa \in Int /\ ra \in Int
      /\ b = n * qb + rb /\ qb \in Int /\ rb \in Int
  OBVIOUS
<1> SUFFICES ASSUME ra = rb PROVE FALSE
  OBVIOUS
<1> HIDE DEF qa, qb, ra, rb
<1>2. n * (qb - qa) = b - a
  BY <1>1
<1>3. qb - qa \in Int
  BY <1>1
<1>4. CASE qb - qa >= 1
  <2>1. n * (qb - qa) >= n BY <1>3, <1>4
  <2> QED BY <1>2, <2>1
<1>5. CASE qb - qa <= 0
  <2>1. n * (qb - qa) <= 0 BY <1>3, <1>5
  <2> QED BY <1>2, <2>1
<1> QED BY <1>3, <1>4, <1>5

(* The remainders that select a place of the list.                         *)
LEMMA RemainderRange ==
  ASSUME NEW n \in Nat \ {0}, NEW a \in Nat PROVE a % n \in 0..(n - 1)
OBVIOUS

-----------------------------------------------------------------------------
(* Only the Ready workers serve, and no call has been sent.                *)
LEMMA InitIInv == Init => IInv
<1> USE WorkersAssumption, CallsAssumption
<1> SUFFICES ASSUME Init PROVE IInv
  OBVIOUS
<1>1. MainType
  BY DEF Init, MainType
<1>2. CallType
  BY DEF Init, CallType, NoHandler, HandlerPC, Answers
<1>3. CallStages
  BY DEF Init, CallStages, NoHandler
<1>4. ListsHeld
  BY DEF Init, ListsHeld
<1>5. Flags
  BY DEF Init, Flags
<1>6. Selection
  <2>1. \A y \in Types : Selected(y) = {}
    BY DEF Init, Selected
  <2>2. <<>> \in Seq(Workers) /\ <<>> \in Seq(Nat) /\ Len(<<>>) = 0
    OBVIOUS
  <2>3. \A y \in Types : recent[y].list = <<>> /\ recent[y].places = <<>> /\ counters[y] = 0
    BY DEF Init
  <2>4. ASSUME NEW y \in Types PROVE RecentPlaces(y)
    <3> DEFINE L == recent[y].list  P == recent[y].places
    <3>1. P \in Seq(Nat) /\ Len(P) = 0 /\ Len(L) = 0 /\ counters[y] = 0
      BY <2>2, <2>3
    <3>2. 1..Len(P) = {}
      BY <3>1
    <3> QED BY <3>1, <3>2 DEF RecentPlaces, Window
  <2>5. /\ counters \in [Types -> Nat]
        /\ recent \in [Types -> [list : Seq(Workers), places : Seq(Nat)]]
    BY <2>2 DEF Init
  <2> QED BY <2>1, <2>3, <2>4, <2>5, FS_EmptySet DEF Selection
<1>7. LoadCountsTasks /\ DrainWaitsForRunning
  <2>1. \A w \in Workers : At(w, Counted) = {}
    BY DEF Init, At
  <2> QED BY <2>1, FS_EmptySet DEF Init, LoadCountsTasks, DrainWaitsForRunning
<1> QED BY <1>1, <1>2, <1>3, <1>4, <1>5, <1>6, <1>7 DEF IInv

-----------------------------------------------------------------------------
(* What a step leaves alone keeps the parts of the invariant about it.     *)

(* The selector knows a call only by whether it has selected a worker.     *)
LEMMA SelectionKept ==
  ASSUME Selection, UNCHANGED <<counters, recent>>,
         \A d \in Calls : thread'[d] \in {"idle", "select"} <=> thread[d] \in {"idle", "select"}
  PROVE  Selection'
<1>1. \A y \in Types : Selected(y)' = Selected(y)
  BY DEF Selected
<1>2. \A y \in Types : RecentPlaces(y)' <=> RecentPlaces(y)
  BY DEF RecentPlaces
<1> QED BY <1>1, <1>2 DEF Selection

(* The load of a worker knows a call only by whether it is counted there.  *)
LEMMA LoadKept ==
  ASSUME LoadCountsTasks, DrainWaitsForRunning, Flags,
         UNCHANGED <<main, current_load>>,
         \A d \in Calls, w \in Workers :
           target'[d] = w /\ handler'[d].pc \in Counted <=>
             target[d] = w /\ handler[d].pc \in Counted,
         \A d \in Calls : handler'[d].pc \in Counted => handler'[d].early = handler[d].early
  PROVE  LoadCountsTasks' /\ DrainWaitsForRunning' /\ Flags'
<1>1. \A w \in Workers : At(w, Counted)' = At(w, Counted)
  BY DEF At
<1>2. \A w \in Workers : \A d \in At(w, Counted) : handler'[d].early = handler[d].early
  BY DEF At
<1> QED BY <1>1, <1>2 DEF LoadCountsTasks, DrainWaitsForRunning, Flags, main

(* A call that moves on at its worker, its load counted before and after   *)
(* or neither.                                                             *)
LEMMA HandlerMoves ==
  ASSUME IInv, NEW c \in Calls, NEW from, NEW to \in HandlerPC \ {"none", "ended"},
         NEW answer \in Answers,
         HandlerAnswers(c, from, to, answer),
         from \notin {"none", "ended"},
         from \in Counted <=> to \in Counted,
         to \notin {"finally", "return"} <=> answer = "none",
         to = "finally" => answer # "rejected",
         UNCHANGED <<thread, current_load, got>>,
         handled' \in [Calls -> BOOLEAN],
         \A d \in Calls \ {c} : handled'[d] = handled[d],
         answer \in {"accepted", "failed"} => handled'[c]
  PROVE  IInv'
<1> USE DEF IInv
<1>0. /\ handler' \in [Calls -> [pc : HandlerPC, answer : Answers, early : BOOLEAN]]
      /\ handler[c].pc = from
      /\ handler'[c].pc = to /\ handler'[c].answer = answer
      /\ handler'[c].early = handler[c].early
      /\ \A d \in Calls \ {c} : handler'[d] = handler[d]
      /\ UNCHANGED <<main, list, target, counters, recent>>
  BY DEF HandlerAnswers, CallType
<1>1. MainType'
  BY <1>0 DEF MainType, main
<1>2. CallType'
  BY <1>0 DEF CallType
<1>3. CallStages'
  BY <1>0 DEF CallStages
<1>4. ListsHeld'
  BY <1>0 DEF ListsHeld
<1>5. Selection'
  BY <1>0, SelectionKept
<1>6. LoadCountsTasks' /\ DrainWaitsForRunning' /\ Flags'
  BY <1>0, LoadKept
<1> QED BY <1>1, <1>2, <1>3, <1>4, <1>5, <1>6

(* The state check, process_task, the two ways to send and the fallback    *)
(* (worker.py:329-344,349-404).                                            *)
LEMMA CheckDrainingIInv ==
  ASSUME IInv, NEW c \in Calls, CheckDraining(c) PROVE IInv'
<1> USE DEF IInv, CheckDraining, Quiet, Handler, HandlerPC, Answers, Counted
<1>1. handler[c].answer = "none" /\ handled \in [Calls -> BOOLEAN]
  BY DEF CallStages, CallType
<1>2. CASE HandlerAnswers(c, "queued", "return", "rejected")
  BY <1>1, <1>2, HandlerMoves
<1>3. CASE HandlerAnswers(c, "queued", "begin", handler[c].answer)
  BY <1>1, <1>3, HandlerMoves
<1> QED BY <1>2, <1>3

(* The handler returns or raises; the call stays counted.                  *)
LEMMA ProcessTaskIInv ==
  ASSUME IInv, NEW c \in Calls, ProcessTask(c) PROVE IInv'
<1> USE DEF IInv, ProcessTask, Quiet, Handler, HandlerPC, Answers, Counted
<1>1. handler[c].answer = "none" /\ handled \in [Calls -> BOOLEAN]
  BY DEF CallStages, CallType, HandlerAnswers
<1>2. CASE HandlerAnswers(c, "working", "sendingCOMPLETED", handler[c].answer)
  BY <1>1, <1>2, HandlerMoves
<1>3. CASE HandlerAnswers(c, "working", "sendingFAILED", handler[c].answer)
  BY <1>1, <1>3, HandlerMoves
<1> QED BY <1>2, <1>3

(* The report was handled; the call stays counted until finally.           *)
LEMMA SendReturnsIInv ==
  ASSUME IInv, NEW c \in Calls, SendReturns(c) PROVE IInv'
<1> USE DEF IInv, SendReturns, Quiet, HandlerPC, Answers, Counted
<1>1. handled \in [Calls -> BOOLEAN]
  BY DEF CallType
<1>2. CASE HandlerAnswers(c, "sendingCOMPLETED", "finally", "accepted")
  BY <1>1, <1>2, HandlerMoves
<1>3. CASE HandlerAnswers(c, "sendingFAILED", "finally", "failed")
  BY <1>1, <1>3, HandlerMoves
<1> QED BY <1>2, <1>3

(* FAILED is sent after all; the call stays counted.                       *)
LEMMA SendRaisesIInv ==
  ASSUME IInv, NEW c \in Calls, SendRaises(c) PROVE IInv'
<1>1. handler[c].answer = "none"
  BY DEF IInv, CallStages, SendRaises, Handler, HandlerAnswers
<1>2. handled' \in [Calls -> BOOLEAN] /\ \A d \in Calls \ {c} : handled'[d] = handled[d]
  BY DEF IInv, CallType, SendRaises
<1>3. HandlerAnswers(c, "sendingCOMPLETED", "sendingFAILED", "none")
  BY <1>1 DEF SendRaises, Handler
<1>4. UNCHANGED <<thread, current_load, got>>
  BY DEF SendRaises
<1> QED BY <1>2, <1>3, <1>4, HandlerMoves DEF HandlerPC, Answers, Counted

(* Even the second exception leads to finally.                             *)
LEMMA FallbackRaisesIInv ==
  ASSUME IInv, NEW c \in Calls, FallbackRaises(c) PROVE IInv'
<1> USE DEF IInv, FallbackRaises, Quiet, HandlerPC, Answers, Counted
<1>1. handled \in [Calls -> BOOLEAN]
  BY DEF CallType
<1> QED BY <1>1, HandlerMoves

(* ReturnResult only concerns a call whose report is under way.            *)
LEMMA ReturnResultIInv ==
  ASSUME IInv, NEW c \in Calls, ReturnResult(c) PROVE IInv'
<1> USE DEF IInv, ReturnResult, caller
<1>0. /\ handled' \in [Calls -> BOOLEAN]
      /\ \A d \in Calls : handled'[d] = (d = c \/ handled[d])
  BY DEF CallType
<1>1. MainType' /\ CallType'
  BY <1>0 DEF MainType, CallType, main
<1>2. CallStages'
  BY <1>0 DEF CallStages
<1>3. ListsHeld'
  BY DEF ListsHeld
<1>4. Selection'
  BY SelectionKept
<1>5. LoadCountsTasks' /\ DrainWaitsForRunning' /\ Flags'
  BY LoadKept
<1> QED BY <1>1, <1>2, <1>3, <1>4, <1>5

-----------------------------------------------------------------------------
(* increase_load and decrease_load.                                        *)

(* One call more, or one less, is counted at a worker.                     *)
LEMMA CountedFacts ==
  ASSUME IInv, NEW w \in Workers
  PROVE  /\ IsFiniteSet(At(w, Counted))
         /\ Cardinality(At(w, Counted)) \in Nat
         /\ Cardinality(At(w, Counted)) <= Cardinality(Calls)
<1>1. At(w, Counted) \subseteq Calls
  BY DEF At
<1> QED BY <1>1, FS_Subset, FS_CardinalityType, CallsAssumption

(* The load grows by the call that is counted from now on.                 *)
LEMMA IncreaseLoadIInv ==
  ASSUME IInv, NEW c \in Calls, IncreaseLoad(c) PROVE IInv'
<1> USE DEF IInv, IncreaseLoad, caller
<1> PICK w \in Workers : w = target[c]
  BY DEF CallStages, CallType
<1>0. /\ handler' \in [Calls -> [pc : HandlerPC, answer : Answers, early : BOOLEAN]]
      /\ handler'[c].pc = "working" /\ handler'[c].answer = handler[c].answer
      /\ is_draining[w] => ~handler'[c].early
      /\ \A d \in Calls \ {c} : handler'[d] = handler[d]
      /\ current_load' \in [Workers -> Nat]
      /\ current_load'[w] = current_load[w] + 1
      /\ \A v \in Workers \ {w} : current_load'[v] = current_load[v]
  <2>0. PICK e \in BOOLEAN : e = ~is_draining[w]
    OBVIOUS
  <2>1. handler' = [handler EXCEPT ![c].pc = "working", ![c].early = e]
    BY <2>0
  <2>2. handler' \in [Calls -> [pc : HandlerPC, answer : Answers, early : BOOLEAN]]
    <3> DEFINE h == [handler[c] EXCEPT !.pc = "working", !.early = e]
    <3>1. h \in [pc : HandlerPC, answer : Answers, early : BOOLEAN]
      BY DEF CallType, HandlerPC
    <3>2. handler' = [handler EXCEPT ![c] = h]
      BY <2>1 DEF CallType
    <3> HIDE DEF h
    <3> QED BY <3>1, <3>2 DEF CallType
  <2>3. /\ handler'[c].pc = "working" /\ handler'[c].answer = handler[c].answer
        /\ \A d \in Calls \ {c} : handler'[d] = handler[d]
    BY DEF CallType
  <2>4. is_draining[w] => ~handler'[c].early
    BY DEF CallType
  <2>5. /\ current_load' \in [Workers -> Nat]
        /\ current_load'[w] = current_load[w] + 1
        /\ \A v \in Workers \ {w} : current_load'[v] = current_load[v]
    BY DEF MainType
  <2> QED BY <2>2, <2>3, <2>4, <2>5
<1>1. MainType' /\ CallType'
  BY <1>0 DEF MainType, CallType, main
<1>2. CallStages'
  BY <1>0 DEF CallStages
<1>3. ListsHeld' /\ Flags'
  BY DEF ListsHeld, Flags, main
<1>4. Selection'
  BY SelectionKept
<1>5. /\ \A v \in Workers \ {w} : At(v, Counted)' = At(v, Counted)
      /\ At(w, Counted)' = At(w, Counted) \cup {c}
      /\ c \notin At(w, Counted)
  BY <1>0 DEF At, Counted
<1>6. LoadCountsTasks'
  <2>1. Cardinality(At(w, Counted) \cup {c}) = Cardinality(At(w, Counted)) + 1
    BY <1>0, <1>5, CountedFacts, FS_AddElement
  <2>2. current_load'[w] = Cardinality(At(w, Counted)')
    BY <1>0, <1>5, <2>1 DEF LoadCountsTasks
  <2>3. \A v \in Workers \ {w} : current_load'[v] = Cardinality(At(v, Counted)')
    BY <1>0, <1>5 DEF LoadCountsTasks
  <2> QED BY <2>2, <2>3 DEF LoadCountsTasks
<1>7. DrainWaitsForRunning'
  <2> SUFFICES ASSUME NEW v \in Workers, phase[v] \in {"joining", "hurrying"}, ~timedOut[v],
                      NEW d \in At(v, Counted)'
               PROVE  ~handler'[d].early
    BY DEF DrainWaitsForRunning, main
  <2>1. CASE d = c
    BY <1>0, <2>1 DEF Flags, At
  <2>2. CASE d # c
    BY <1>0, <1>5, <2>2 DEF DrainWaitsForRunning, At
  <2> QED BY <2>1, <2>2
<1> QED BY <1>1, <1>2, <1>3, <1>4, <1>6, <1>7

(* The load is at least 1, for the call is counted.                        *)
LEMMA DecreaseLoadIInv ==
  ASSUME IInv, NEW c \in Calls, DecreaseLoad(c) PROVE IInv'
<1> USE DEF IInv, DecreaseLoad, Handler, HandlerAnswers
<1> PICK w \in Workers : w = target[c]
  BY DEF CallStages, CallType
<1>0. /\ handler' \in [Calls -> [pc : HandlerPC, answer : Answers, early : BOOLEAN]]
      /\ handler[c].pc = "finally"
      /\ handler'[c].pc = "return" /\ handler'[c].answer = handler[c].answer
      /\ \A d \in Calls \ {c} : handler'[d] = handler[d]
  BY DEF CallStages, CallType, HandlerPC
<1>1. /\ \A v \in Workers \ {w} : At(v, Counted)' = At(v, Counted)
      /\ At(w, Counted)' = At(w, Counted) \ {c}
      /\ c \in At(w, Counted)
  BY <1>0 DEF At, Counted
<1>2. /\ Cardinality(At(w, Counted) \ {c}) = Cardinality(At(w, Counted)) - 1
      /\ Cardinality(At(w, Counted)) \in Nat \ {0}
  BY <1>0, <1>1, CountedFacts, FS_RemoveElement, FS_EmptySet
<1>3. /\ current_load' \in [Workers -> Nat]
      /\ current_load'[w] = current_load[w] - 1
      /\ \A v \in Workers \ {w} : current_load'[v] = current_load[v]
  BY <1>0, <1>2 DEF LoadCountsTasks, MainType
<1>4. MainType' /\ CallType'
  BY <1>0, <1>3 DEF MainType, CallType, main
<1>5. CallStages'
  BY <1>0 DEF CallStages
<1>6. ListsHeld' /\ Flags'
  BY DEF ListsHeld, Flags, main
<1>7. Selection'
  BY SelectionKept
<1>8. LoadCountsTasks'
  <2>1. current_load'[w] = Cardinality(At(w, Counted)')
    BY <1>0, <1>1, <1>2, <1>3 DEF LoadCountsTasks
  <2>2. \A v \in Workers \ {w} : current_load'[v] = Cardinality(At(v, Counted)')
    BY <1>1, <1>3 DEF LoadCountsTasks
  <2> QED BY <2>1, <2>2 DEF LoadCountsTasks
<1>9. DrainWaitsForRunning'
  <2>1. \A v \in Workers : At(v, Counted)' \subseteq At(v, Counted) \ {c}
    BY <1>0, <1>1 DEF At
  <2>2. \A v \in Workers : \A d \in At(v, Counted)' : d \in Calls \ {c} /\ d \in At(v, Counted)
    BY <2>1 DEF At
  <2> QED BY <1>0, <2>2 DEF DrainWaitsForRunning, main
<1> QED BY <1>4, <1>5, <1>6, <1>7, <1>8, <1>9

-----------------------------------------------------------------------------
(* A call that is over at its worker, and whoever waited for it.           *)
LEMMA EndedIInv ==
  ASSUME IInv, NEW c \in Calls, Ended(c),
         handler[c].pc \notin Counted \cup {"none", "ended"},
         current_load' = current_load,
         thread' \in [Calls -> {"idle", "select", "wait", "over"}],
         got' \in [Calls -> {"none", "accepted", "refused"}],
         \A d \in Calls : thread'[d] # thread[d] => thread[d] = "wait" /\ thread'[d] = "over",
         \A d \in Calls \ {c} : got'[d] = got[d]
  PROVE  IInv'
<1> USE DEF IInv, Ended
<1>0. /\ handler' \in [Calls -> [pc : HandlerPC, answer : Answers, early : BOOLEAN]]
      /\ handler'[c].pc = "ended" /\ handler'[c].answer = "none"
      /\ target' \in [Calls -> Workers \cup {NoOne}] /\ target'[c] = NoOne
      /\ handled' \in [Calls -> BOOLEAN] /\ ~handled'[c]
      /\ \A d \in Calls \ {c} :
           handler'[d] = handler[d] /\ target'[d] = target[d] /\ handled'[d] = handled[d]
  BY DEF CallType, EndedHandler, NoHandler, HandlerPC, Answers
<1>1. MainType' /\ CallType'
  BY <1>0 DEF MainType, CallType, main
<1>2. CallStages'
  BY <1>0 DEF CallStages
<1>3. ListsHeld'
  BY DEF ListsHeld
<1>4. Selection'
  BY SelectionKept
<1>5. LoadCountsTasks' /\ DrainWaitsForRunning' /\ Flags'
  BY <1>0, LoadKept, WorkersAssumption DEF Counted
<1> QED BY <1>1, <1>2, <1>3, <1>4, <1>5

(* A call whose deadline passed before it got a thread was never counted.  *)
LEMMA DroppedIInv ==
  ASSUME IInv, NEW c \in Calls, Dropped(c) PROVE IInv'
BY EndedIInv DEF IInv, Dropped, Ended, CallType, Counted

(* The answer leaves the worker after its load went down.                  *)
LEMMA ReturnIInv ==
  ASSUME IInv, NEW c \in Calls, Return(c) PROVE IInv'
<1> USE DEF IInv, Return
<1>1. /\ thread' \in [Calls -> {"idle", "select", "wait", "over"}]
      /\ \A d \in Calls : thread'[d] # thread[d] => thread[d] = "wait" /\ thread'[d] = "over"
      /\ got' \in [Calls -> {"none", "accepted", "refused"}]
      /\ \A d \in Calls \ {c} : got'[d] = got[d]
  BY DEF CallType, Success
<1>2. current_load' = current_load
  BY DEF Ended
<1> QED BY <1>1, <1>2, EndedIInv DEF Counted

-----------------------------------------------------------------------------
(* The dispatcher's side: the lookup, the selection, the call that fails.  *)
LEMMA LookupIInv ==
  ASSUME IInv, NEW c \in Calls, Lookup(c) PROVE IInv'
<1> USE DEF IInv, Lookup, Goto
<1>0. /\ thread' \in [Calls -> {"idle", "select", "wait", "over"}]
      /\ thread[c] = "idle" /\ thread'[c] = "select"
      /\ list' \in [Calls -> Seq(Workers)]
      /\ list'[c] # <<>>
      /\ \A d \in Calls \ {c} : thread'[d] = thread[d] /\ list'[d] = list[d]
  BY WorkersAssumption DEF CallType, ListsHeld
<1>1. MainType' /\ CallType'
  BY <1>0 DEF MainType, CallType, main
<1>2. CallStages'
  BY <1>0 DEF CallStages
<1>3. ListsHeld'
  BY <1>0 DEF ListsHeld
<1>4. Selection'
  BY <1>0, SelectionKept
<1>5. LoadCountsTasks' /\ DrainWaitsForRunning' /\ Flags'
  BY LoadKept
<1> QED BY <1>1, <1>2, <1>3, <1>4, <1>5

(* The caller gives up; the handler goes on.                               *)
LEMMA RpcErrorIInv ==
  ASSUME IInv, NEW c \in Calls, RpcError(c) PROVE IInv'
<1> USE DEF IInv, RpcError, Goto
<1>0. /\ thread' \in [Calls -> {"idle", "select", "wait", "over"}]
      /\ thread[c] = "wait" /\ thread'[c] = "over"
      /\ \A d \in Calls \ {c} : thread'[d] = thread[d]
  BY DEF CallType
<1>1. MainType' /\ CallType'
  BY <1>0 DEF MainType, CallType, main
<1>2. CallStages'
  BY <1>0 DEF CallStages
<1>3. ListsHeld'
  BY <1>0 DEF ListsHeld
<1>4. Selection'
  BY <1>0, SelectionKept
<1>5. LoadCountsTasks' /\ DrainWaitsForRunning' /\ Flags'
  BY LoadKept
<1> QED BY <1>1, <1>2, <1>3, <1>4, <1>5

(* The last n places after one more: the oldest falls out of a full window.*)
LEMMA LastPlaces ==
  ASSUME NEW n \in Nat \ {0}, NEW k \in Nat, NEW i \in Nat, i = Turn(n, k),
         NEW P, Window(n, P, k)
  PROVE  Window(n, LastN(Append(P, i), n), k + 1)
<1> DEFINE Q == LastN(Append(P, i), n)
<1> USE DEF Window
<1>0. Len(P) \in Nat /\ Append(P, i) \in Seq(Nat)
  OBVIOUS
<1>1. PICK m \in Nat, A \in Seq(Nat) : m = Len(P) /\ A = Append(P, i)
  BY <1>0
<1>2. /\ m <= n /\ m <= k /\ Len(A) = m + 1
      /\ \A j \in 1..m : A[j] = P[j]
      /\ A[m + 1] = i
      /\ Q = LastN(A, n)
  BY <1>1
<1> SUFFICES Window(n, Q, k + 1)
  OBVIOUS
<1> HIDE DEF Q
<1>3. \A j \in 1..(m + 1) : A[j] = Turn(n, k - m + j - 1)
  <2>1. A[m + 1] = Turn(n, k - m + (m + 1) - 1)
    BY <1>2
  <2>2. \A j \in 1..(m + 1) : j \in 1..m \/ j = m + 1
    OBVIOUS
  <2> QED BY <1>1, <1>2, <2>1, <2>2
<1>4. CASE m < n
  <2>1. (IF Len(A) > n THEN Len(A) - n + 1 ELSE 1) = 1
    BY <1>2, <1>4
  <2>2. Q = SubSeq(A, 1, m + 1)
    BY <1>2, <2>1, Zenon DEF LastN
  <2>3. Q \in Seq(Nat) /\ Len(Q) = m + 1 /\ \A j \in 1..(m + 1) : Q[j] = A[j]
    BY <1>2, <2>2
  <2>4. \A j \in 1..(m + 1) : k + 1 - (m + 1) + j - 1 = k - m + j - 1
    OBVIOUS
  <2> QED BY <1>1, <1>2, <1>3, <1>4, <2>3, <2>4
<1>5. CASE m = n
  <2> HIDE DEF Window
  <2>l. PICK l \in Nat : l = Len(A) /\ l = n + 1
    BY <1>2, <1>5
  <2>i. (IF l > n THEN l - n + 1 ELSE 1) = 2
    BY <2>l
  <2>1. (IF Len(A) > n THEN Len(A) - n + 1 ELSE 1) = 2 /\ Len(A) = n + 1
    BY <2>l, <2>i
  <2> USE DEF Window
  <2>2. Q = SubSeq(A, 2, n + 1)
    BY <1>2, <2>1, Zenon DEF LastN
  <2>3. Q \in Seq(Nat) /\ Len(Q) = n /\ \A j \in 1..n : Q[j] = A[j + 1]
    <3> HIDE DEF Window
    <3>1. SubSeq(A, 2, n + 1) \in Seq(Nat)
      BY <2>1
    <3>2. Len(SubSeq(A, 2, n + 1)) = n
      BY <2>1
    <3>3. \A j \in 1..n : SubSeq(A, 2, n + 1)[j] = A[j + 1]
      BY <2>1, <3>2
    <3> QED BY <2>2, <3>1, <3>2, <3>3
  <2>4. \A j \in 1..n : j + 1 \in 1..(m + 1) /\ k + 1 - n + j - 1 = k - m + (j + 1) - 1
    BY <1>5
  <2>5. ASSUME NEW j \in 1..n PROVE Q[j] = Turn(n, k + 1 - n + j - 1)
    <3>1. Q[j] = Turn(n, k - m + (j + 1) - 1)
      BY <1>3, <2>3, <2>4
    <3> QED BY <2>4, <3>1
  <2>6. n <= k
    BY <1>2, <1>5
  <2> QED BY <1>1, <2>3, <2>5, <2>6
<1> QED BY <1>2, <1>4, <1>5

(* The selector takes the worker its counter points to: over one list it   *)
(* has taken the others since.                                             *)
LEMMA SelectIInv ==
  ASSUME IInv, NEW c \in Calls, Select(c) PROVE IInv'
<1>0. PICK y \in Types, k \in Nat, L \in Seq(Workers) :
        y = TypeOf[c] /\ k = counters[y] /\ L = list[c]
  BY CallsAssumption DEF IInv, Selection, ListsHeld
<1> DEFINE oldOf == IF recent[y].list = L THEN recent[y].places ELSE <<>>
<1>1. /\ thread[c] = "select" /\ thread' = [thread EXCEPT ![c] = "wait"]
      /\ counters' = [counters EXCEPT ![y] = @ + 1]
      /\ recent' = [recent EXCEPT ![y] =
           [list |-> L, places |-> LastN(Append(oldOf, Turn(Len(L), k)), Len(L))]]
      /\ list' = [list EXCEPT ![c] = <<>>]
      /\ \/ /\ target' = [target EXCEPT ![c] = L[Turn(Len(L), k)]]
            /\ handler' = [handler EXCEPT ![c].pc = "queued"]
         \/ UNCHANGED <<target, handler>>
      /\ UNCHANGED <<main, current_load, handled, got>>
  BY <1>0 DEF Select, Goto, CounterOf, Turn
<1>2. /\ Len(L) \in Nat \ {0}
      /\ handler[c].pc = "none" /\ target[c] = NoOne
  BY <1>0, <1>1 DEF IInv, ListsHeld, CallStages
<1>3. PICK n \in Nat \ {0}, i \in Nat : n = Len(L) /\ i = Turn(n, k) /\ L[i] \in Workers
  <2>1. k % Len(L) \in 0..(Len(L) - 1)
    BY <1>2, RemainderRange
  <2>2. (k % Len(L)) + 1 \in 1..Len(L)
    BY <1>2, <2>1
  <2> QED BY <1>2, <2>2 DEF Turn
<1>4. PICK old : old = oldOf
  OBVIOUS
<1>5. Window(n, old, k)
  <2>1. CASE recent[y].list = L
    BY <1>0, <1>3, <1>4, <2>1 DEF IInv, Selection, RecentPlaces
  <2>2. CASE recent[y].list # L
    <3>1. old = <<>> /\ <<>> \in Seq(Nat) /\ Len(<<>>) = 0 /\ 1..Len(<<>>) = {}
      BY <1>4, <2>2
    <3> QED BY <3>1 DEF Window
  <2> QED BY <2>1, <2>2
<1> HIDE DEF oldOf
<1>6. PICK places : places = LastN(Append(old, i), n)
  OBVIOUS
<1>7. Window(n, places, k + 1)
  BY <1>3, <1>5, <1>6, LastPlaces
<1>8. recent' = [recent EXCEPT ![y] = [list |-> L, places |-> places]]
  BY <1>1, <1>3, <1>4, <1>6
<1>9. Selection'
  <2>1. /\ counters' \in [Types -> Nat] /\ counters'[y] = k + 1
        /\ \A z \in Types \ {y} : counters'[z] = counters[z]
    BY <1>0, <1>1 DEF IInv, Selection
  <2>2. /\ recent' \in [Types -> [list : Seq(Workers), places : Seq(Nat)]]
        /\ recent'[y].list = L /\ recent'[y].places = places
        /\ \A z \in Types \ {y} : recent'[z] = recent[z]
    BY <1>7, <1>8 DEF IInv, Selection, Window
  <2>3. /\ \A z \in Types \ {y} : Selected(z)' = Selected(z)
        /\ Selected(y)' = Selected(y) \cup {c}
        /\ c \notin Selected(y) /\ Selected(y) \subseteq Calls
    BY <1>0, <1>1 DEF IInv, CallType, Selected
  <2>4. Cardinality(Selected(y)') = counters'[y]
    <3>1. Cardinality(Selected(y) \cup {c}) = Cardinality(Selected(y)) + 1
      BY <2>3, FS_Subset, FS_AddElement, CallsAssumption
    <3> QED BY <1>0, <2>1, <2>3, <3>1 DEF IInv, Selection
  <2>5. \A z \in Types \ {y} : Cardinality(Selected(z)') = counters'[z]
    BY <2>1, <2>3 DEF IInv, Selection
  <2>6. \A z \in Types \ {y} : RecentPlaces(z)'
    BY <2>1, <2>2 DEF IInv, Selection, RecentPlaces
  <2>7. RecentPlaces(y)'
    BY <1>3, <1>7, <2>1, <2>2 DEF RecentPlaces
  <2> QED BY <2>1, <2>2, <2>4, <2>5, <2>6, <2>7 DEF Selection
<1>10. MainType'
  BY <1>1 DEF IInv, MainType, main
<1>11. CallType' /\ CallStages'
  <2>1. /\ thread' \in [Calls -> {"idle", "select", "wait", "over"}]
        /\ thread'[c] = "wait" /\ \A d \in Calls \ {c} : thread'[d] = thread[d]
    BY <1>1 DEF IInv, CallType
  <2>2. /\ target' \in [Calls -> Workers \cup {NoOne}]
        /\ handler' \in [Calls -> [pc : HandlerPC, answer : Answers, early : BOOLEAN]]
    <3>1. target' \in [Calls -> Workers \cup {NoOne}]
      BY <1>1, <1>3 DEF IInv, CallType
    <3> DEFINE h == [handler[c] EXCEPT !.pc = "queued"]
    <3>2. h \in [pc : HandlerPC, answer : Answers, early : BOOLEAN]
      BY DEF IInv, CallType, HandlerPC
    <3>3. handler' = handler \/ handler' = [handler EXCEPT ![c] = h]
      BY <1>1 DEF IInv, CallType
    <3> HIDE DEF h
    <3> QED BY <3>1, <3>2, <3>3 DEF IInv, CallType
  <2>3. /\ \A d \in Calls \ {c} : handler'[d] = handler[d] /\ target'[d] = target[d]
        /\ handler'[c].answer = handler[c].answer
        /\ \/ target'[c] \in Workers /\ handler'[c].pc = "queued"
           \/ target'[c] = NoOne /\ handler'[c].pc = "none"
    BY <1>1, <1>2, <1>3 DEF IInv, CallType
  <2>4. CallType'
    BY <1>1, <2>1, <2>2 DEF IInv, CallType
  <2>5. CallStages'
    BY <1>1, <1>2, <2>1, <2>3, WorkersAssumption DEF IInv, CallStages
  <2> QED BY <2>4, <2>5
<1>12. ListsHeld'
  BY <1>1 DEF IInv, CallType, ListsHeld
<1>13. LoadCountsTasks' /\ DrainWaitsForRunning' /\ Flags'
  <2>1. /\ \A d \in Calls \ {c} : handler'[d] = handler[d] /\ target'[d] = target[d]
        /\ handler'[c].pc \in {"none", "queued"}
    BY <1>1, <1>2 DEF IInv, CallType
  <2> QED BY <1>1, <1>2, <2>1, LoadKept DEF IInv, Counted
<1> QED BY <1>9, <1>10, <1>11, <1>12, <1>13 DEF IInv

-----------------------------------------------------------------------------
(* The main threads.                                                       *)

(* The main thread of w moves on.                                          *)
LEMMA PhaseMoves ==
  ASSUME IInv, NEW w \in Workers, NEW from,
         NEW to \in {"starting", "serving", "updating", "waiting", "joining", "quitting",
                     "hurrying", "stuck", "jammed"},
         Phase(w, from, to),
         is_draining' \in [Workers -> BOOLEAN], timedOut' \in [Workers -> BOOLEAN],
         \A v \in Workers \ {w} : is_draining'[v] = is_draining[v] /\ timedOut'[v] = timedOut[v],
         to \in {"updating", "waiting", "joining", "hurrying"} => is_draining'[w],
         to \in {"joining", "hurrying"} /\ ~timedOut'[w] =>
           \A c \in At(w, Counted) : ~handler[c].early
  PROVE  IInv'
<1> USE DEF IInv, Phase, caller
<1>0. /\ phase' \in [Workers -> {"off", "starting", "serving", "updating", "waiting",
                                  "joining", "quitting", "hurrying", "stuck", "jammed", "gone"}]
      /\ phase'[w] = to
      /\ \A v \in Workers \ {w} : phase'[v] = phase[v]
  BY DEF MainType
<1>1. MainType' /\ CallType'
  BY <1>0 DEF MainType, CallType
<1>2. CallStages'
  BY DEF CallStages
<1>3. ListsHeld'
  BY DEF ListsHeld
<1>4. Flags'
  BY <1>0 DEF Flags
<1>5. Selection'
  BY SelectionKept
<1>6. \A v \in Workers : At(v, Counted)' = At(v, Counted)
  BY DEF At
<1>7. LoadCountsTasks' /\ DrainWaitsForRunning'
  BY <1>0, <1>6 DEF LoadCountsTasks, DrainWaitsForRunning
<1> QED BY <1>1, <1>2, <1>3, <1>4, <1>5, <1>7

(* The process of w ends, and takes its calls with it.                     *)
LEMMA EndsIInv ==
  ASSUME IInv, NEW w \in Workers, NEW from, Ends(w, from)
  PROVE  IInv'
<1> USE DEF IInv, Ends
<1>1. /\ MainType'
      /\ phase'[w] = "gone" /\ current_load'[w] = 0
      /\ \A v \in Workers \ {w} :
           /\ phase'[v] = phase[v] /\ is_draining'[v] = is_draining[v]
           /\ timedOut'[v] = timedOut[v] /\ current_load'[v] = current_load[v]
  BY DEF MainType
<1>2. /\ CallType'
      /\ \A c \in Calls : target[c] = w =>
           handler'[c] = EndedHandler /\ target'[c] = NoOne /\ ~handled'[c]
      /\ \A c \in Calls : target[c] # w =>
           handler'[c] = handler[c] /\ target'[c] = target[c] /\ handled'[c] = handled[c]
  <2>1. EndedHandler \in [pc : HandlerPC, answer : Answers, early : BOOLEAN]
    BY DEF EndedHandler, NoHandler, HandlerPC, Answers
  <2>2. handled' \in [Calls -> BOOLEAN]
    BY DEF CallType
  <2>3. target' \in [Calls -> Workers \cup {NoOne}]
    BY DEF CallType
  <2>4. handler' \in [Calls -> [pc : HandlerPC, answer : Answers, early : BOOLEAN]]
    BY <2>1 DEF CallType
  <2>5. CallType'
    BY <2>2, <2>3, <2>4 DEF CallType
  <2> QED BY <2>5 DEF CallType
<1>3. EndedHandler.pc = "ended" /\ EndedHandler.answer = "none"
  BY DEF EndedHandler, NoHandler
<1>4. CallStages'
  BY <1>2, <1>3, WorkersAssumption DEF CallStages
<1>5. ListsHeld' /\ Flags'
  BY <1>1 DEF ListsHeld, Flags
<1>6. Selection'
  BY SelectionKept
<1>7. /\ At(w, Counted)' = {}
      /\ \A v \in Workers \ {w} : At(v, Counted)' = At(v, Counted)
  BY <1>2, <1>3, WorkersAssumption DEF At, Counted
<1>8. LoadCountsTasks'
  <2> SUFFICES ASSUME NEW v \in Workers PROVE current_load'[v] = Cardinality(At(v, Counted)')
    BY DEF LoadCountsTasks
  <2> HIDE DEF Ends, IInv
  <2>1. CASE v = w
    BY <1>1, <1>7, <2>1, FS_EmptySet
  <2>2. CASE v # w
    <3>1. current_load[v] = Cardinality(At(v, Counted))
      BY DEF IInv, LoadCountsTasks
    <3> QED BY <1>1, <1>7, <2>2, <3>1
  <2> QED BY <2>1, <2>2
<1>9. DrainWaitsForRunning'
  <2> SUFFICES ASSUME NEW v \in Workers, phase'[v] \in {"joining", "hurrying"},
                      ~timedOut'[v],
                      NEW c \in At(v, Counted)'
               PROVE  ~handler'[c].early
    BY DEF DrainWaitsForRunning
  <2>1. v # w /\ c \in At(v, Counted)
    BY <1>1, <1>7
  <2>2. handler'[c] = handler[c] /\ phase[v] \in {"joining", "hurrying"} /\ ~timedOut[v]
    BY <1>1, <1>2, <2>1 DEF At
  <2> QED BY <2>1, <2>2 DEF DrainWaitsForRunning
<1> QED BY <1>1, <1>2, <1>4, <1>5, <1>6, <1>8, <1>9

(* The process registers, opens its port, or has sent its new status.      *)
LEMMA StartIInv ==
  ASSUME IInv, NEW w \in Workers, Start(w) \/ ServerStart(w) \/ UpdateStatus(w)
  PROVE  IInv'
<1>1. UNCHANGED <<is_draining, timedOut>>
  BY DEF Start, ServerStart, UpdateStatus
<1>2. CASE Phase(w, {"off"}, "starting")
  BY <1>1, <1>2, PhaseMoves DEF IInv, MainType
<1>3. CASE Phase(w, {"starting"}, "serving")
  BY <1>1, <1>3, PhaseMoves DEF IInv, MainType
<1>4. CASE Phase(w, {"updating"}, "waiting")
  <2>1. is_draining[w]
    BY <1>4 DEF IInv, Flags, Phase
  <2> QED BY <1>1, <1>4, <2>1, PhaseMoves DEF IInv, MainType
<1> QED BY <1>2, <1>3, <1>4 DEF Start, ServerStart, UpdateStatus

(* A signal sets the flag first, and what waits for the tasks already has  *)
(* waited for them.                                                        *)
LEMMA SignalIInv ==
  ASSUME IInv, NEW w \in Workers, Signal(w) \/ SignalInLock(w) PROVE IInv'
<1>1. /\ is_draining' \in [Workers -> BOOLEAN] /\ is_draining'[w]
      /\ \A v \in Workers \ {w} : is_draining'[v] = is_draining[v]
      /\ timedOut' = timedOut /\ timedOut \in [Workers -> BOOLEAN]
  BY DEF Signal, SignalInLock, IInv, MainType
<1>2. CASE Phase(w, {"serving", "updating", "waiting"}, "updating")
  BY <1>1, <1>2, PhaseMoves
<1>3. CASE Phase(w, {"starting", "quitting"}, "quitting")
  BY <1>1, <1>3, PhaseMoves
<1>4. CASE Phase(w, {"joining", "hurrying"}, "hurrying")
  <2>1. ~timedOut[w] => \A c \in At(w, Counted) : ~handler[c].early
    BY <1>4 DEF IInv, DrainWaitsForRunning, Phase
  <2> QED BY <1>1, <1>4, <2>1, PhaseMoves
<1>5. CASE Phase(w, {"updating", "waiting"}, "stuck")
  BY <1>1, <1>5, PhaseMoves
<1>6. CASE Phase(w, {"starting", "quitting", "hurrying"}, "jammed")
  BY <1>1, <1>6, PhaseMoves
<1> QED BY <1>2, <1>3, <1>4, <1>5, <1>6 DEF Signal, SignalInLock, Shutdown

(* The wait ends: without a timeout the load is 0, and no task is counted. *)
LEMMA WaitEndsIInv ==
  ASSUME IInv, NEW w \in Workers, WaitEnds(w) PROVE IInv'
<1>0. PICK b \in BOOLEAN : b = (current_load[w] > 0)
  <2>1. (current_load[w] > 0) \in BOOLEAN
    OBVIOUS
  <2> QED BY <2>1, Zenon
<1>1. /\ Phase(w, {"waiting"}, "joining")
      /\ timedOut' \in [Workers -> BOOLEAN]
      /\ timedOut'[w] <=> current_load[w] > 0
      /\ \A v \in Workers \ {w} : timedOut'[v] = timedOut[v]
      /\ is_draining' = is_draining
  <2>1. timedOut' = [timedOut EXCEPT ![w] = b]
    BY <1>0 DEF WaitEnds
  <2>2. timedOut' \in [Workers -> BOOLEAN] /\ timedOut'[w] = b
    BY <2>1 DEF IInv, MainType
  <2> QED BY <1>0, <2>1, <2>2 DEF WaitEnds, IInv, MainType
<1>2. ~timedOut'[w] => At(w, Counted) = {}
  <2>1. current_load[w] \in Nat /\ current_load[w] = Cardinality(At(w, Counted))
    BY DEF IInv, MainType, LoadCountsTasks
  <2> QED BY <1>1, <2>1, CountedFacts, FS_EmptySet
<1>3. is_draining[w]
  BY <1>1 DEF IInv, Flags, Phase
<1> QED BY <1>1, <1>2, <1>3, PhaseMoves DEF IInv, MainType

-----------------------------------------------------------------------------
(* Every step of callers, handlers and main threads preserves the          *)
(* inductive invariant.                                                    *)
LEMMA NextIInv == IInv /\ [Next]_vars => IInv'
<1> SUFFICES ASSUME IInv, [Next]_vars PROVE IInv'
  OBVIOUS
<1>1. ASSUME NEW c \in Calls, CallerStep(c) PROVE IInv'
  BY <1>1, LookupIInv, SelectIInv, RpcErrorIInv DEF CallerStep
<1>2. ASSUME NEW c \in Calls, HandlerStep(c) PROVE IInv'
  BY <1>2, CheckDrainingIInv, DroppedIInv, IncreaseLoadIInv, ProcessTaskIInv, ReturnResultIInv,
     SendReturnsIInv, SendRaisesIInv, FallbackRaisesIInv, DecreaseLoadIInv, ReturnIInv
     DEF HandlerStep
<1>3. ASSUME NEW w \in Workers, MainStep(w) PROVE IInv'
  BY <1>3, StartIInv, SignalIInv, WaitEndsIInv, EndsIInv DEF MainStep, Exit, ExitAtOnce, Kill
<1>4. CASE UNCHANGED vars
  <2> USE <1>4 DEF IInv, vars, caller
  <2>1. MainType' /\ CallType' /\ CallStages'
    BY DEF MainType, CallType, CallStages, main
  <2>2. ListsHeld'
    BY DEF ListsHeld
  <2>3. Selection'
    BY SelectionKept
  <2>4. LoadCountsTasks' /\ DrainWaitsForRunning' /\ Flags'
    BY LoadKept
  <2> QED BY <2>1, <2>2, <2>3, <2>4
<1> QED BY <1>1, <1>2, <1>3, <1>4 DEF Next, Rest

(* The inductive invariant holds for any number of workers and calls.      *)
LEMMA Invariance == Spec => []IInv
<1>1. Init => IInv
  BY InitIInv
<1>2. IInv /\ [Next]_vars => IInv'
  BY NextIInv
<1> QED BY <1>1, <1>2, PTL DEF Spec

(* Type correctness: the load and the counters never exceed the number of  *)
(* calls.                                                                  *)
THEOREM TypeCorrect == Spec => []TypeOK
<1>1. IInv => TypeOK
  <2> SUFFICES ASSUME IInv PROVE TypeOK
    OBVIOUS
  <2>1. Cardinality(Calls) \in Nat
    BY CallsAssumption, FS_CardinalityType
  <2>2. current_load \in [Workers -> 0..Cardinality(Calls)]
    BY <2>1, CountedFacts DEF IInv, MainType, LoadCountsTasks
  <2>3. \A y \in Types : counters[y] \in 0..Cardinality(Calls)
    <3> TAKE y \in Types
    <3>1. Selected(y) \subseteq Calls
      BY DEF Selected
    <3> QED BY <2>1, <3>1, CallsAssumption, FS_Subset, FS_CardinalityType DEF IInv, Selection
  <2> QED BY <2>2, <2>3 DEF IInv, MainType, CallType, ListsHeld, Selection, TypeOK
<1> QED BY Invariance, <1>1, PTL

(* No path through ExecuteTask counts a task twice or forgets to count it  *)
(* down again, also when both reports fail (worker.py:346-407).            *)
THEOREM LoadIsNumberOfTasks == Spec => []LoadCountsTasks
<1>1. IInv => LoadCountsTasks
  BY DEF IInv
<1> QED BY Invariance, <1>1, PTL

(* A shutdown that did not run into its timeout has waited for every task  *)
(* counted before the flag was set (worker.py:246-272).                    *)
THEOREM DrainIsComplete == Spec => []DrainWaitsForRunning
<1>1. IInv => DrainWaitsForRunning
  BY DEF IInv
<1> QED BY Invariance, <1>1, PTL

(* For lists of any length and any number of selections, the last n over   *)
(* the same list of n entries are of n places (worker_selector.py:35-39).  *)
THEOREM SelectionIsFair == Spec => []RoundRobinFair
<1>1. ASSUME NEW n \in Nat, NEW P, NEW k \in Nat, Window(n, P, k)
      PROVE  Distinct(P)
  <2>1. /\ P \in Seq(Nat) /\ Len(P) \in Nat
        /\ Len(P) <= n /\ Len(P) <= k /\ DOMAIN P = 1..Len(P)
    BY <1>1 DEF Window
  <2>2. ASSUME NEW i \in 1..Len(P), NEW j \in 1..Len(P), i < j, P[i] = P[j] PROVE FALSE
    <3> DEFINE a == k - Len(P) + i - 1
               b == k - Len(P) + j - 1
    <3>1. a \in Nat /\ b \in Nat /\ a < b /\ b < a + n /\ n \in Nat \ {0}
      BY <2>1, <2>2
    <3>2. Turn(n, a) = Turn(n, b)
      BY <1>1, <2>2 DEF Window
    <3> HIDE DEF a, b
    <3>3. a % n # b % n
      BY <3>1, Remainders
    <3>4. a % n \in 0..(n - 1) /\ b % n \in 0..(n - 1)
      BY <3>1, RemainderRange
    <3> QED BY <3>2, <3>3, <3>4 DEF Turn
  <2> SUFFICES ASSUME NEW i \in DOMAIN P, NEW j \in DOMAIN P, P[i] = P[j] PROVE i = j
    BY DEF Distinct
  <2>3. i \in 1..Len(P) /\ j \in 1..Len(P)
    BY <2>1
  <2>4. ~(i < j) /\ ~(j < i)
    BY <2>2, <2>3
  <2> QED BY <2>1, <2>3, <2>4
<1>2. IInv => RoundRobinFair
  BY <1>1 DEF IInv, Selection, RecentPlaces, RoundRobinFair
<1> QED BY Invariance, <1>2, PTL
=============================================================================
