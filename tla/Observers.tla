------------------------------ MODULE Observers ------------------------------
(***************************************************************************)
(* Who looks at the tasks while the dispatcher works on them: a client     *)
(* that asks for a result (client.py, GetResult in servicer.py) and the    *)
(* monitoring call (status_collector.py, behind GetStatus and the HTTP     *)
(* endpoint). Both read the shared Task objects attribute by attribute     *)
(* under no lock. They change nothing, so one observer that makes one call *)
(* at a time meets every state that several would meet.                    *)
(*                                                                         *)
(* get_status adds up what each task contributes to each pass; the share   *)
(* of one task, any one, is followed per call.                             *)
(***************************************************************************)
EXTENDS DispatcherProperties

VARIABLE obs  \* the call under way: its kind, the task it is about, the
              \* attributes or passes read so far, what GetResult has read,
              \* how often get_status has counted the task, and
              \* [auxiliary] whether the task left TIMEOUT, COMPLETED or
              \* FAILED during the call and whether it was Settled before

observed == <<vars, obs>>

NoCall == [call |-> "none", task |-> NoTask, read |-> 0,
           answer |-> <<>>, times |-> 0, left |-> FALSE, final |-> FALSE]

ObserversInit == Init /\ obs = NoCall

-----------------------------------------------------------------------------
(* GetResult and the client.                                               *)

(* Mutant: the result is read before the status.                           *)
ResultFirst == <<"result", "status">>

(* The attributes in the order the answer is built from them.              *)
AnswerFields == <<"status", "result">>

Attribute(t, field) == IF field = "status" THEN status[t] ELSE result[t]

Answer(o) == [status |-> o.answer[CHOOSE i \in 1..2 : AnswerFields[i] = "status"],
              result |-> o.answer[CHOOSE i \in 1..2 : AnswerFields[i] = "result"]]

(* What the client tells its user.                                         *)
Shown(answer) ==
  CASE answer.status = "COMPLETED" -> "Ergebnis"
    [] answer.status = "FAILED"    -> "Fehler"
    [] answer.status = "TIMEOUT"   -> "Timeout"
    [] OTHER                       -> "wird noch verarbeitet"

(* request_result of a task that is stored; NOT_FOUND is answered at once. *)
RequestResult(t) ==
  /\ obs.call = "none"
  /\ Posted(t)
  /\ obs' = [NoCall EXCEPT !.call = "GetResult", !.task = t, !.final = Settled(t)]

GetResult ==
  /\ obs.call = "GetResult" /\ obs.read < Len(AnswerFields)
  /\ obs' = [obs EXCEPT !.read = @ + 1,
       !.answer = Append(@, Attribute(obs.task, AnswerFields[obs.read + 1]))]

(* Mutant: the client asks again and keeps what it was answered.           *)
ClientPolls ==
  /\ obs.call = "GetResult" /\ obs.read = Len(AnswerFields)
  /\ obs' = [obs EXCEPT !.read = 0]

ClientShows ==
  /\ obs.call = "GetResult" /\ obs.read = Len(AnswerFields)
  /\ obs' = NoCall

-----------------------------------------------------------------------------
(* get_status.                                                             *)

(* Mutants: the terminal counts are taken first, or TIMEOUT is not FAILED  *)
(* and FAILED not counted.                                                 *)
TerminalPassesFirst ==
  <<{"COMPLETED"}, {"FAILED", "TIMEOUT"},
    {"QUEUED"}, {"DISPATCHED", "PROCESSING", "RETRYING"}>>
OnlyTimeoutsFail ==
  <<{"QUEUED"}, {"DISPATCHED", "PROCESSING", "RETRYING"}, {"COMPLETED"}, {"TIMEOUT"}>>

(* The passes over the tasks: open, running, completed and failed ones.    *)
Passes ==
  <<{"QUEUED"}, {"DISPATCHED", "PROCESSING", "RETRYING"},
    {"COMPLETED"}, {"FAILED", "TIMEOUT"}>>

(* all_tasks() copies the list under the store's lock; the tasks in it are *)
(* shared.                                                                 *)
AllTasks(t) ==
  /\ obs.call = "none"
  /\ Posted(t)
  /\ obs' = [NoCall EXCEPT !.call = "get_status", !.task = t, !.final = Settled(t)]

(* The two callers: the gRPC call, and GET of one of the three paths; any  *)
(* other path is answered 404.                                             *)
GetStatus(t) == AllTasks(t)
HttpGet(t)   == AllTasks(t)

CountPass ==
  /\ obs.call = "get_status" /\ obs.read < Len(Passes)
  /\ obs' = [obs EXCEPT !.read = @ + 1,
       !.times = IF status[obs.task] \in Passes[obs.read + 1] THEN @ + 1 ELSE @]

StatusReply ==
  /\ obs.call = "get_status" /\ obs.read = Len(Passes)
  /\ obs' = NoCall

-----------------------------------------------------------------------------
(* A step of the dispatcher, as the observer's call sees it.               *)
Outdated ==
  /\ obs.call # "none"
  /\ status[obs.task] \in Terminal \cup {"TIMEOUT"}
  /\ status'[obs.task] # status[obs.task]

DispatcherStep == Next /\ obs' = [obs EXCEPT !.left = @ \/ Outdated]

ObserverStep ==
  /\ \/ \E t \in Tasks : RequestResult(t) \/ GetStatus(t) \/ HttpGet(t)
     \/ GetResult \/ ClientShows \/ CountPass \/ StatusReply
  /\ UNCHANGED vars

ObserversNext == DispatcherStep \/ ObserverStep

(* The dispatcher is as fair as without observers; a call may stop at any  *)
(* point.                                                                  *)
ObserversSpec == ObserversInit /\ [][ObserversNext]_observed /\ Fairness

-----------------------------------------------------------------------------
(* The call under way is one the code makes.                               *)
ObserverTypeOK ==
  /\ obs.call \in {"none", "GetResult", "get_status"}
  /\ obs.task \in Tasks \cup {NoTask}
  /\ (obs.task = NoTask) <=> (obs.call = "none")
  /\ obs.read \in 0..Len(Passes)
  /\ obs.answer \in Seq(TaskState \cup Outcome \cup {NoResult})
  /\ Len(obs.answer) <= Len(AnswerFields)
  /\ obs.times \in 0..obs.read
  /\ obs.left \in BOOLEAN
  /\ obs.final \in BOOLEAN

(* A client is told COMPLETED without a result only while ReturnResult     *)
(* stands between the two writes, status and result, at the moment the     *)
(* result is read: the two unlocked reads miss nothing that was stored     *)
(* before (servicer.py:170-171,247,255).                                   *)
EmptyAnswerRacesStore ==
  [][/\ GetResult
     /\ obs'.read = Len(AnswerFields)
     /\ Answer(obs') = [status |-> "COMPLETED", result |-> NoResult]
     => \E n \in Dispatches, o \in Outcome : report[obs.task][n][o] = "store"]_observed

(* A task is missing from all four counts of get_status only if it left    *)
(* TIMEOUT or a terminal status while they were taken: the order of the    *)
(* passes follows the life of a task (status_collector.py:21-27).          *)
MissedOnlyIfRevived ==
  obs.call = "get_status" /\ obs.read = Len(Passes) /\ obs.times = 0 => obs.left

(* A call that begins when its task is settled is answered the outcome and *)
(* the result the task keeps, and get_status counts that task once:        *)
(* whatever is still under way at the dispatcher, nobody who asks from     *)
(* then on is told another ending                                          *)
(* (servicer.py:170-171, status_collector.py:21-27).                       *)
FinalIsShown ==
  obs.final =>
    /\ obs.call = "GetResult" /\ obs.read = Len(AnswerFields) =>
         Answer(obs) = [status |-> status[obs.task], result |-> result[obs.task]]
    /\ obs.call = "get_status" /\ obs.read = Len(Passes) => obs.times = 1

(* In the end every client that asks for a served task is shown its        *)
(* outcome, and a completed one with its result (client.py:75-83,          *)
(* servicer.py:239-256).                                                   *)
ClientLearnsOutcome ==
  <>[][ClientShows /\ obs.task \notin Unserved =>
         /\ Shown(Answer(obs)) \in {"Ergebnis", "Fehler"}
         /\ Shown(Answer(obs)) = "Ergebnis" => Answer(obs).result # NoResult]_observed

(* In the end get_status counts every task exactly once, however its       *)
(* passes raced with the changes before (status_collector.py:18-28).       *)
StatusCountsSettle == <>[][StatusReply => obs.times = 1]_observed
=============================================================================
