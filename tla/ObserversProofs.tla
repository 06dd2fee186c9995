--------------------------- MODULE ObserversProofs ---------------------------
(***************************************************************************)
(* Proofs about the client's request and the monitoring call, whatever the *)
(* dispatcher does meanwhile. What a call has read stays true of the task  *)
(* only in part; the invariants say which part.                            *)
(***************************************************************************)
EXTENDS Observers, DispatcherProofs

(* What GetResult may read of a task.                                      *)
Values == TaskState \cup Outcome \cup {NoResult}

(* The call is a record; what it has read so far goes with its kind.       *)
CallShape ==
  /\ obs \in [call : {"none", "GetResult", "get_status"}, task : Tasks \cup {NoTask},
              read : 0..4, answer : Seq(Values),
              times : 0..4, left : BOOLEAN, final : BOOLEAN]
  /\ (obs.task = NoTask) <=> (obs.call = "none")
  /\ obs.times <= obs.read
  /\ obs.call = "none" => ~obs.left
  /\ obs.call = "GetResult" => obs.read <= 2 /\ Len(obs.answer) = obs.read
  /\ obs.call # "GetResult" => obs.answer = <<>>

(* A task some call is about was posted before.                            *)
ObservedPosted == obs.call # "none" => Posted(obs.task)

(* Each pass that found the task in none of its statuses leaves only later *)
(* ones, unless the task left TIMEOUT or a terminal status meanwhile.      *)
PassesNarrow ==
  obs.call = "get_status" /\ obs.times = 0 /\ ~obs.left =>
    /\ obs.read >= 1 => status[obs.task] # "QUEUED"
    /\ obs.read >= 2 => status[obs.task] \in {"COMPLETED", "FAILED", "TIMEOUT"}
    /\ obs.read >= 3 => status[obs.task] \in {"FAILED", "TIMEOUT"}
    /\ obs.read < 4

(* Once COMPLETED was read, the result is there or a handler is about to   *)
(* store it.                                                               *)
Storing(t) == \E n \in Dispatches, o \in Outcome : report[t][n][o] = "store"
ResultFollows ==
  obs.call = "GetResult" /\ obs.read = 1 /\ obs.answer[1] = "COMPLETED" =>
    result[obs.task] # NoResult \/ Storing(obs.task)

(* A call about a task that was settled before has read what the task      *)
(* keeps, and has counted it in the pass that knows its outcome.           *)
CountedOnce ==
  obs.times = IF \/ status[obs.task] = "COMPLETED" /\ obs.read >= 3
                 \/ status[obs.task] = "FAILED" /\ obs.read >= 4
              THEN 1 ELSE 0
FinalCalls ==
  obs.final =>
    /\ obs.call # "none" /\ Settled(obs.task)
    /\ obs.call = "GetResult" =>
         /\ obs.read >= 1 => obs.answer[1] = status[obs.task]
         /\ obs.read >= 2 => obs.answer[2] = result[obs.task]
    /\ obs.call = "get_status" => CountedOnce

OInv == CallShape /\ ObservedPosted /\ PassesNarrow /\ ResultFollows /\ FinalCalls

-----------------------------------------------------------------------------
(* No call is under way.                                                   *)
LEMMA InitOInv == ObserversInit => OInv
<1> SUFFICES ASSUME ObserversInit PROVE OInv
  OBVIOUS
<1>1. CallShape
  BY DEF ObserversInit, NoCall, CallShape
<1> QED
  BY <1>1 DEF ObserversInit, NoCall, OInv, ObservedPosted, PassesNarrow, ResultFollows,
              FinalCalls

(* A step of the dispatcher: it sees no call, and of the task's status and *)
(* result it changes only what StatusMoves and ResultMoves allow.          *)
LEMMA DispatcherStepOInv ==
  ASSUME OInv, TypeOK, DispatcherStep PROVE OInv'
<1> USE TasksAssumption
<1>1. StatusMoves /\ ResultMoves
  BY NextMoves DEF DispatcherStep
<1>2. PICK b \in BOOLEAN : /\ b = (obs.left \/ Outdated)
                           /\ obs' = [obs EXCEPT !.left = b]
  BY DEF DispatcherStep, OInv, CallShape, Outdated
<1>3. /\ obs'.call = obs.call /\ obs'.task = obs.task /\ obs'.read = obs.read
      /\ obs'.answer = obs.answer /\ obs'.times = obs.times /\ obs'.left = b
      /\ obs'.final = obs.final
      /\ obs' \in [call : {"none", "GetResult", "get_status"}, task : Tasks \cup {NoTask},
              read : 0..4, answer : Seq(Values),
              times : 0..4, left : BOOLEAN, final : BOOLEAN]
  BY <1>2 DEF OInv, CallShape
<1>4. obs.call # "none" => obs.task \in Tasks
  BY DEF OInv, CallShape
<1>5. CallShape'
  BY <1>2, <1>3 DEF OInv, CallShape, Outdated
<1>6. ObservedPosted'
  BY <1>1, <1>3, <1>4 DEF OInv, ObservedPosted, Posted, StatusMoves, Later
<1>7. PassesNarrow'
  <2> SUFFICES ASSUME obs.call = "get_status", obs.times = 0, ~b
               PROVE  /\ obs.read >= 1 => status'[obs.task] # "QUEUED"
                      /\ obs.read >= 2 => status'[obs.task] \in {"COMPLETED", "FAILED", "TIMEOUT"}
                      /\ obs.read >= 3 => status'[obs.task] \in {"FAILED", "TIMEOUT"}
                      /\ obs.read < 4
    BY <1>3 DEF PassesNarrow
  <2>1. /\ status[obs.task] \in Terminal \cup {"TIMEOUT"} => status'[obs.task] = status[obs.task]
        /\ ~obs.left
    BY <1>2 DEF Outdated
  <2>2. status[obs.task] # "QUEUED" => status'[obs.task] # "QUEUED"
    BY <1>1, <1>4 DEF OInv, ObservedPosted, Posted, StatusMoves, Later
  <2> QED BY <2>1, <2>2 DEF OInv, PassesNarrow, Terminal
<1>8. ResultFollows'
  <2> SUFFICES ASSUME obs.call = "GetResult", obs.read = 1, obs.answer[1] = "COMPLETED"
               PROVE  result'[obs.task] # NoResult \/ Storing(obs.task)'
    BY <1>3 DEF ResultFollows, Storing
  <2>1. result[obs.task] # NoResult \/ Storing(obs.task)
    BY DEF OInv, ResultFollows
  <2>2. PICK t \in Tasks : t = obs.task
    BY <1>4
  <2>3. result[t] # NoResult \/ Storing(t)
    BY <2>1, <2>2
  <2>4. result'[t] # NoResult \/ Storing(t)'
    BY <1>1, <2>3 DEF ResultMoves, Storing
  <2> QED BY <1>3, <2>2, <2>4 DEF Storing
<1>9. FinalCalls'
  <2> SUFFICES ASSUME obs.final PROVE FinalCalls'
    BY <1>3 DEF FinalCalls
  <2>1. PICK t \in Tasks : t = obs.task
    BY <1>4 DEF OInv, FinalCalls
  <2>2. Settled(t)' /\ status'[t] = status[t] /\ result'[t] = result[t]
    BY <2>1, NextFinal DEF DispatcherStep, OInv, FinalCalls, StaysFinal
  <2>3. obs'.task = t /\ Settled(obs.task)'
    BY <1>3, <2>1, <2>2 DEF Settled, Writing
  <2> QED BY <1>3, <2>1, <2>2, <2>3 DEF OInv, FinalCalls, CountedOnce
<1> QED BY <1>5, <1>6, <1>7, <1>8, <1>9 DEF OInv

(* The record of a new call.                                               *)
LEMMA NewCallFacts ==
  ASSUME NEW kind, NEW t, NEW f \in BOOLEAN,
         obs' = [NoCall EXCEPT !.call = kind, !.task = t, !.final = f]
  PROVE  /\ obs' \in [call : {kind}, task : {t}, read : {0}, answer : Seq(Values),
                      times : {0}, left : BOOLEAN, final : BOOLEAN]
         /\ obs'.answer = <<>> /\ ~obs'.left /\ obs'.final = f
<1> DEFINE empty == <<>>
<1>1. PICK b \in BOOLEAN : b = FALSE
  OBVIOUS
<1> DEFINE h == [call |-> kind, task |-> t, read |-> 0, answer |-> empty, times |-> 0, left |-> b,
                final |-> f]
<1>2. empty \in Seq(Values)
  OBVIOUS
<1>3. obs' = h
  BY <1>1, Zenon DEF NoCall
<1> HIDE DEF empty
<1>4. /\ h \in [call : {kind}, task : {t}, read : {0}, answer : Seq(Values),
                times : {0}, left : BOOLEAN, final : BOOLEAN]
      /\ h.answer = empty /\ h.left = b /\ h.final = f
  BY <1>2
<1> HIDE DEF h
<1> QED BY <1>1, <1>3, <1>4, Zenon DEF empty

(* A new call about a posted task.                                         *)
LEMMA NewCallOInv ==
  ASSUME OInv, UNCHANGED vars, NEW t \in Tasks, Posted(t), NEW kind \in {"GetResult", "get_status"},
         obs' \in [call : {kind}, task : {t}, read : {0}, answer : Seq(Values),
                   times : {0}, left : BOOLEAN, final : BOOLEAN],
         obs'.answer = <<>>, ~obs'.left, obs'.final => Settled(t)
  PROVE  OInv'
<1>1. CallShape'
  BY TasksAssumption DEF CallShape
<1>2. UNCHANGED status
  BY DEF vars, task
<1>3. ObservedPosted' /\ PassesNarrow' /\ ResultFollows'
  BY <1>2 DEF ObservedPosted, PassesNarrow, ResultFollows, Posted
<1>4. FinalCalls'
  BY <1>2 DEF FinalCalls, CountedOnce, Settled, Writing, vars, threads
<1> QED BY <1>1, <1>3, <1>4 DEF OInv

(* A call ends.                                                            *)
LEMMA CallEndsOInv ==
  ASSUME OInv, obs' = NoCall PROVE OInv'
<1>1. CallShape'
  BY DEF CallShape, NoCall
<1> QED BY <1>1 DEF OInv, NoCall, ObservedPosted, PassesNarrow, ResultFollows, FinalCalls

(* GetResult reads the attributes in the order of AnswerFields.            *)
LEMMA ReadFacts ==
  ASSUME OInv, TypeOK, GetResult
  PROVE  /\ obs.task \in Tasks /\ obs.read \in 0..1
         /\ obs' \in [call : {"GetResult"}, task : {obs.task},
              read : {obs.read + 1}, answer : Seq(Values),
              times : 0..4, left : BOOLEAN, final : BOOLEAN]
         /\ obs'.times = obs.times /\ obs'.final = obs.final
         /\ Len(obs'.answer) = obs.read + 1
         /\ obs.read = 0 => obs'.answer[1] = status[obs.task]
         /\ obs.read = 1 => obs'.answer[1] = obs.answer[1] /\ obs'.answer[2] = result[obs.task]
<1>1. /\ obs.task \in Tasks /\ obs.read \in 0..1 /\ obs.call = "GetResult"
      /\ Len(obs.answer) = obs.read
      /\ obs.answer \in Seq(Values)
  BY TasksAssumption DEF GetResult, AnswerFields, OInv, CallShape
<1>a. /\ Attribute(obs.task, AnswerFields[obs.read + 1]) \in Values
      /\ obs.read = 0 => Attribute(obs.task, AnswerFields[obs.read + 1]) = status[obs.task]
      /\ obs.read = 1 => Attribute(obs.task, AnswerFields[obs.read + 1]) = result[obs.task]
  <2>1. obs.read = 0 \/ obs.read = 1
    BY <1>1
  <2>2. status[obs.task] \in TaskState /\ result[obs.task] \in Outcome \cup {NoResult}
    BY <1>1 DEF TypeOK
  <2>3. AnswerFields[1] = "status" /\ AnswerFields[2] = "result"
    BY DEF AnswerFields
  <2> QED BY <2>1, <2>2, <2>3 DEF Attribute, Values
<1>2. PICK x \in Values :
        /\ obs' = [obs EXCEPT !.read = @ + 1, !.answer = Append(@, x)]
        /\ obs.read = 0 => x = status[obs.task]
        /\ obs.read = 1 => x = result[obs.task]
  BY <1>a, Zenon DEF GetResult
<1> DEFINE a == Append(obs.answer, x)
<1>3. a \in Seq(Values)
  BY <1>1
<1>4. Len(a) = obs.read + 1 /\ a[obs.read + 1] = x /\ \A i \in 1..obs.read : a[i] = obs.answer[i]
  BY <1>1
<1> HIDE DEF a
<1>5. obs' = [obs EXCEPT !.read = @ + 1, !.answer = a]
  BY <1>2 DEF a
<1> DEFINE h == [obs EXCEPT !.read = @ + 1, !.answer = a]
<1>6. /\ h \in [call : {"GetResult"}, task : {obs.task}, read : {obs.read + 1},
                answer : Seq(Values), times : 0..4, left : BOOLEAN, final : BOOLEAN]
      /\ h.times = obs.times /\ h.answer = a /\ h.final = obs.final
  BY <1>1, <1>3 DEF OInv, CallShape
<1> HIDE DEF h
<1> QED BY <1>1, <1>2, <1>4, <1>5, <1>6 DEF h

(* GetResult reads the status, or the result.                              *)
LEMMA GetResultOInv ==
  ASSUME OInv, TypeOK, CompletedHasResult, GetResult, UNCHANGED vars PROVE OInv'
<1>1. CallShape'
  BY ReadFacts, TasksAssumption DEF CallShape, OInv, GetResult
<1>2. ObservedPosted' /\ PassesNarrow'
  BY ReadFacts DEF OInv, GetResult, ObservedPosted, PassesNarrow, Posted, vars, task
<1>3. ResultFollows'
  BY ReadFacts DEF ResultFollows, CompletedHasResult, Storing, vars, task
<1>4. FinalCalls'
  <2>1. UNCHANGED <<status, result, pc, cur, timer, report>>
    BY DEF vars, task, threads
  <2>2. obs'.task = obs.task /\ obs'.call = "GetResult" /\ obs'.read = obs.read + 1
    BY ReadFacts
  <2>3. Settled(obs.task) => Settled(obs.task)'
    BY <2>1, <2>2 DEF Settled, Writing
  <2> QED BY <2>1, <2>2, <2>3, ReadFacts DEF OInv, FinalCalls, GetResult
<1> QED BY <1>1, <1>2, <1>3, <1>4 DEF OInv

(* One pass of get_status over the task.                                   *)
LEMMA CountPassOInv ==
  ASSUME OInv, TypeOK, CountPass, UNCHANGED vars PROVE OInv'
<1>1. /\ obs.task \in Tasks /\ obs.read \in 0..3 /\ obs.call = "get_status"
      /\ obs.times \in 0..3
  BY TasksAssumption DEF CountPass, Passes, OInv, CallShape
<1>2. PICK k \in {obs.times, obs.times + 1} :
        /\ obs' = [obs EXCEPT !.read = @ + 1, !.times = k]
        /\ k = IF status[obs.task] \in Passes[obs.read + 1] THEN obs.times + 1 ELSE obs.times
  BY DEF CountPass
<1>3. /\ obs' \in [call : {"get_status"}, task : {obs.task}, read : {obs.read + 1},
                   answer : Seq(Values),
                   times : {k}, left : {obs.left}, final : {obs.final}]
      /\ obs'.answer = obs.answer
  BY <1>1, <1>2 DEF OInv, CallShape
<1>4. CallShape'
  BY <1>1, <1>3, TasksAssumption DEF OInv, CallShape
<1>5. ObservedPosted' /\ ResultFollows'
  BY <1>1, <1>3 DEF OInv, ObservedPosted, ResultFollows, Posted, vars, task
<1>6. PassesNarrow'
  <2> SUFFICES ASSUME k = 0, ~obs.left
               PROVE  /\ status[obs.task] # "QUEUED"
                      /\ obs.read >= 1 => status[obs.task] \in {"COMPLETED", "FAILED", "TIMEOUT"}
                      /\ obs.read >= 2 => status[obs.task] \in {"FAILED", "TIMEOUT"}
                      /\ obs.read < 3
    BY <1>1, <1>3 DEF PassesNarrow, vars, task
  <2>1. obs.times = 0 /\ status[obs.task] \notin Passes[obs.read + 1]
    BY <1>1, <1>2
  <2>2. status[obs.task] \in TaskState /\ status[obs.task] # "CREATED"
    BY <1>1 DEF TypeOK, OInv, ObservedPosted, Posted
  <2>3. CASE obs.read = 0
    BY <2>1, <2>2, <2>3 DEF Passes
  <2>4. CASE obs.read = 1
    BY <1>1, <2>1, <2>2, <2>4 DEF Passes, OInv, PassesNarrow, TaskState
  <2>5. CASE obs.read = 2
    BY <1>1, <2>1, <2>2, <2>5 DEF Passes, OInv, PassesNarrow
  <2>6. CASE obs.read = 3
    BY <1>1, <2>1, <2>2, <2>6 DEF Passes, OInv, PassesNarrow
  <2> QED BY <1>1, <2>3, <2>4, <2>5, <2>6
<1>7. FinalCalls'
  <2> SUFFICES ASSUME obs.final PROVE FinalCalls'
    BY <1>3 DEF FinalCalls
  <2>1. UNCHANGED <<status, result, pc, cur, timer, report>>
    BY DEF vars, task, threads
  <2>2. /\ obs'.task = obs.task /\ obs'.call = "get_status" /\ obs'.read = obs.read + 1
        /\ obs'.times = k
    BY <1>3
  <2>3. Settled(obs.task) /\ CountedOnce
    BY <1>1 DEF OInv, FinalCalls
  <2>4. Settled(obs.task)'
    BY <2>1, <2>2, <2>3 DEF Settled, Writing
  <2>5. /\ status[obs.task] \in {"COMPLETED", "FAILED"}
        /\ status[obs.task] \in Passes[obs.read + 1]
             <=> \/ status[obs.task] = "COMPLETED" /\ obs.read = 2
                 \/ status[obs.task] = "FAILED" /\ obs.read = 3
    BY <1>1, <2>3 DEF Settled, Terminal, Passes
  <2>6. CountedOnce'
    BY <1>1, <1>2, <2>1, <2>2, <2>3, <2>5 DEF CountedOnce
  <2> QED BY <2>2, <2>4, <2>6 DEF FinalCalls
<1> QED BY <1>4, <1>5, <1>6, <1>7 DEF OInv

(* Every step of the dispatcher and of an observer preserves OInv.         *)
LEMMA NextOInv ==
  OInv /\ TypeOK /\ CompletedHasResult /\ [ObserversNext]_observed => OInv'
<1> SUFFICES ASSUME OInv, TypeOK, CompletedHasResult, [ObserversNext]_observed PROVE OInv'
  OBVIOUS
<1>1. CASE UNCHANGED observed
  BY <1>1 DEF OInv, CallShape, ObservedPosted, PassesNarrow, ResultFollows, Storing,
              FinalCalls, CountedOnce, Settled, Writing, Posted, observed, vars, task, threads
<1>2. CASE DispatcherStep
  BY <1>2, DispatcherStepOInv
<1>3. CASE ObserverStep
  <2>1. ASSUME NEW t \in Tasks, Posted(t), NEW kind \in {"GetResult", "get_status"},
               NEW f \in BOOLEAN, f = Settled(t),
               obs' = [NoCall EXCEPT !.call = kind, !.task = t, !.final = f]
        PROVE  OInv'
    <3>1. /\ obs' \in [call : {kind}, task : {t}, read : {0}, answer : Seq(Values),
                        times : {0}, left : BOOLEAN, final : BOOLEAN]
          /\ obs'.answer = <<>> /\ ~obs'.left /\ (obs'.final => Settled(t))
      BY <2>1, NewCallFacts, Zenon
    <3>2. UNCHANGED vars
      BY <1>3 DEF ObserverStep
    <3> QED BY <2>1, <3>1, <3>2, NewCallOInv, Zenon
  <2>2. ASSUME NEW t \in Tasks, RequestResult(t) \/ GetStatus(t) \/ HttpGet(t) PROVE OInv'
    <3>1. PICK f \in BOOLEAN : f = Settled(t)
      BY DEF Settled
    <3>2. /\ Posted(t)
          /\ \/ obs' = [NoCall EXCEPT !.call = "GetResult", !.task = t, !.final = f]
             \/ obs' = [NoCall EXCEPT !.call = "get_status", !.task = t, !.final = f]
      BY <2>2, <3>1 DEF RequestResult, GetStatus, HttpGet, AllTasks
    <3> QED BY <2>1, <3>1, <3>2
  <2> QED BY <1>3, <2>2, CallEndsOInv, GetResultOInv, CountPassOInv
          DEF ObserverStep, ClientShows, StatusReply
<1> QED BY <1>1, <1>2, <1>3 DEF ObserversNext

-----------------------------------------------------------------------------
(* Observers change nothing: what holds of the dispatcher holds with them. *)
THEOREM ObserversChangeNothing == ObserversSpec => Spec
<1>1. ObserversInit => Init
  BY DEF ObserversInit
<1>2. [ObserversNext]_observed => [Next]_vars
  BY DEF ObserversNext, DispatcherStep, ObserverStep, observed
<1> QED BY <1>1, <1>2, PTL DEF ObserversSpec, Spec

(* OInv holds whatever the dispatcher does during a call.                  *)
LEMMA ObserversInvariance == ObserversSpec => []OInv
<1> QED BY InitOInv, NextOInv, ObserversChangeNothing, TypeCorrect, CompletedGetsResult, PTL
     DEF ObserversSpec

(* The calls of the client and of the monitoring are ones the code makes.  *)
THEOREM ObserverTypeCorrect == ObserversSpec => []ObserverTypeOK
<1>1. OInv => ObserverTypeOK
  <2>1. Len(Passes) = 4 /\ Len(AnswerFields) = 2 /\ Len(<<>>) = 0
    BY DEF Passes, AnswerFields
  <2> SUFFICES ASSUME OInv PROVE ObserverTypeOK
    OBVIOUS
  <2>2. Len(obs.answer) <= 2
    BY <2>1 DEF OInv, CallShape
  <2> QED BY <2>1, <2>2 DEF OInv, CallShape, ObserverTypeOK, Values
<1> QED BY <1>1, ObserversInvariance, PTL

(* However a monitoring call races with the dispatcher, it misses only a   *)
(* task that left TIMEOUT or a terminal status while it counted.           *)
THEOREM OnlyRevivedMissed == ObserversSpec => []MissedOnlyIfRevived
<1>1. OInv => MissedOnlyIfRevived
  BY DEF OInv, CallShape, PassesNarrow, MissedOnlyIfRevived, Passes
<1> QED BY <1>1, ObserversInvariance, PTL

(* The client is shown COMPLETED without a result only if a handler is     *)
(* between its two writes when the result is read.                         *)
THEOREM EmptyAnswerOnlyWhileStoring == ObserversSpec => EmptyAnswerRacesStore
<1> DEFINE A == GetResult /\ obs'.read = Len(AnswerFields)
                /\ Answer(obs') = [status |-> "COMPLETED", result |-> NoResult]
           S == \E n \in Dispatches, o \in Outcome : report[obs.task][n][o] = "store"
<1>1. ASSUME OInv, TypeOK, A PROVE S
  <2>1. obs.read = 1 /\ obs'.answer[1] = obs.answer[1] /\ obs'.answer[2] = result[obs.task]
    BY <1>1, ReadFacts DEF AnswerFields
  <2>2. /\ (CHOOSE i \in 1..2 : AnswerFields[i] = "status") = 1
        /\ (CHOOSE i \in 1..2 : AnswerFields[i] = "result") = 2
    BY DEF AnswerFields
  <2>3. obs'.answer[1] = "COMPLETED" /\ obs'.answer[2] = NoResult
    BY <1>1, <2>2 DEF Answer
  <2> QED BY <1>1, <2>1, <2>3 DEF OInv, ResultFollows, Storing, GetResult
<1>2. OInv /\ TypeOK => [A => S]_observed
  BY <1>1
<1> QED BY <1>2, ObserversInvariance, ObserversChangeNothing, TypeCorrect, PTL
     DEF EmptyAnswerRacesStore

(* Who asks about a settled task is told what the task keeps, and the      *)
(* monitoring counts it once (servicer.py:170-171,                         *)
(* status_collector.py:21-27).                                             *)
THEOREM FinalAnswersStay == ObserversSpec => []FinalIsShown
<1>1. OInv => FinalIsShown
  <2> SUFFICES ASSUME OInv, obs.final PROVE FinalIsShown
    BY DEF FinalIsShown
  <2>1. Len(Passes) = 4 /\ Len(AnswerFields) = 2
        /\ AnswerFields[1] = "status" /\ AnswerFields[2] = "result"
    BY DEF Passes, AnswerFields
  <2>2. ASSUME obs.call = "GetResult", obs.read = 2
        PROVE  Answer(obs) = [status |-> status[obs.task], result |-> result[obs.task]]
    <3>1. obs.answer[1] = status[obs.task] /\ obs.answer[2] = result[obs.task]
      BY <2>2 DEF OInv, FinalCalls
    <3>2. /\ (CHOOSE i \in 1..2 : AnswerFields[i] = "status") = 1
          /\ (CHOOSE i \in 1..2 : AnswerFields[i] = "result") = 2
      BY <2>1
    <3> QED BY <3>1, <3>2 DEF Answer
  <2>3. ASSUME obs.call = "get_status", obs.read = 4 PROVE obs.times = 1
    BY <2>3 DEF OInv, FinalCalls, CountedOnce, Settled, Terminal
  <2> QED BY <2>1, <2>2, <2>3 DEF FinalIsShown
<1> QED BY <1>1, ObserversInvariance, PTL

=============================================================================
