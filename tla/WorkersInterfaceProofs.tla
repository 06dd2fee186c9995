----------------------- MODULE WorkersInterfaceProofs -----------------------
(***************************************************************************)
(* The workers implement the interface the dispatcher relies on: each step *)
(* is a step of CallInterface or changes nothing the dispatcher can see.   *)
(***************************************************************************)
EXTENDS WorkersProofs

(* A call that keeps its handler and its thread keeps its stage.           *)
LEMMA StageKept ==
  ASSUME NEW d \in Calls, handler'[d] = handler[d], got'[d] = got[d],
         thread'[d] \in {"idle", "select"} <=> thread[d] \in {"idle", "select"}
  PROVE  Stage(d)' = Stage(d)
BY DEF Stage

(* Nothing the dispatcher can see changes.                                 *)
LEMMA NothingSeen ==
  ASSUME \A d \in Calls : Stage(d)' = Stage(d), handled' = handled,
         \A d \in Calls : thread'[d] = "wait" <=> thread[d] = "wait"
  PROVE  UNCHANGED Interface!vars
<1>1. [d \in Calls |-> Stage(d)]' = [d \in Calls |-> Stage(d)]
  OBVIOUS
<1>2. [d \in Calls |-> thread[d] = "wait"]' = [d \in Calls |-> thread[d] = "wait"]
  OBVIOUS
<1> QED BY <1>1, <1>2 DEF Interface!vars

(* A lookup sends nothing.                                                 *)
LEMMA LookupHidden ==
  ASSUME IInv, NEW c \in Calls, Lookup(c) PROVE UNCHANGED Interface!vars
<1>1. \A d \in Calls : thread'[d] \in {"idle", "select"} <=> thread[d] \in {"idle", "select"}
  BY DEF Lookup, Goto, IInv, CallType
<1>2. \A d \in Calls : thread'[d] = "wait" <=> thread[d] = "wait"
  BY DEF Lookup, Goto, IInv, CallType
<1> QED BY <1>1, <1>2, StageKept, NothingSeen DEF Lookup

-----------------------------------------------------------------------------
(* The stages of a call at its worker, after a step.                       *)
LEMMA StageAfter ==
  ASSUME NEW c \in Calls, thread'[c] \notin {"idle", "select"},
         handler'[c].pc \notin {"finally", "return"} => handler'[c].answer = "none"
  PROVE  /\ handler'[c].pc = "ended" => Stage(c)' = IF got'[c] # "none" THEN got'[c] ELSE "ended"
         /\ handler'[c].pc = "sendingCOMPLETED" => Stage(c)' = "sendingCOMPLETED"
         /\ handler'[c].pc = "sendingFAILED" => Stage(c)' = "sendingFAILED"
         /\ handler'[c].pc \notin {"ended", "sendingCOMPLETED", "sendingFAILED"} =>
              /\ handler'[c].answer = "accepted" => Stage(c)' = "sendingCOMPLETED"
              /\ handler'[c].answer \in {"failed", "error"} => Stage(c)' = "sendingFAILED"
              /\ handler'[c].answer \in {"none", "rejected"} => Stage(c)' = "sent"
BY DEF Stage

(* The same before the step.                                               *)
LEMMA StageBefore ==
  ASSUME NEW c \in Calls, thread[c] \notin {"idle", "select"},
         handler[c].pc \notin {"finally", "return"} => handler[c].answer = "none"
  PROVE  /\ handler[c].pc = "sendingCOMPLETED" => Stage(c) = "sendingCOMPLETED"
         /\ handler[c].pc = "sendingFAILED" => Stage(c) = "sendingFAILED"
         /\ handler[c].pc \notin {"ended", "sendingCOMPLETED", "sendingFAILED"} =>
              /\ handler[c].answer = "accepted" => Stage(c) = "sendingCOMPLETED"
              /\ handler[c].answer \in {"failed", "error"} => Stage(c) = "sendingFAILED"
              /\ handler[c].answer \in {"none", "rejected"} => Stage(c) = "sent"
BY DEF Stage

(* One call moves to another stage.                                        *)
LEMMA StageMoves ==
  ASSUME NEW c \in Calls, NEW from, NEW to, Stage(c) = from, Stage(c)' = to,
         \A d \in Calls \ {c} : Stage(d)' = Stage(d)
  PROVE  Interface!Move(c, from, to)
<1>1. [d \in Calls |-> Stage(d)]' = [[d \in Calls |-> Stage(d)] EXCEPT ![c] = to]
  OBVIOUS
<1> QED BY <1>1 DEF Interface!Move

(* With the choice of a worker the call is sent.                           *)
LEMMA SelectSends ==
  ASSUME IInv, NEW c \in Calls, Select(c) PROVE Interface!Send(c)
<1>1. /\ thread[c] = "select" /\ thread'[c] = "wait"
      /\ \A d \in Calls \ {c} : thread'[d] = thread[d]
      /\ UNCHANGED <<handled, got>>
  BY DEF Select, Goto, IInv, CallType
<1>2. handler[c].pc = "none" /\ handler[c].answer = "none"
  BY <1>1 DEF IInv, CallStages
<1>3. /\ \A d \in Calls \ {c} : handler'[d] = handler[d]
      /\ handler'[c].pc \in {"none", "queued"} /\ handler'[c].answer = "none"
  BY <1>2 DEF Select, IInv, CallType
<1>4. Stage(c) = "none"
  BY <1>1, <1>2 DEF Stage
<1>5. Stage(c)' = "sent"
  BY <1>1, <1>3, StageAfter
<1>6. \A d \in Calls \ {c} : Stage(d)' = Stage(d)
  BY <1>1, <1>3, StageKept
<1>7. [d \in Calls |-> thread[d] = "wait"]' = [[d \in Calls |-> thread[d] = "wait"] EXCEPT ![c] = TRUE]
  BY <1>1
<1> QED BY <1>1, <1>4, <1>5, <1>6, <1>7, StageMoves DEF Interface!Send

(* The deadline ends the wait for an answer.                               *)
LEMMA RpcErrorGivesUp ==
  ASSUME IInv, NEW c \in Calls, RpcError(c) PROVE Interface!GiveUp(c)
<1>1. /\ thread[c] = "wait" /\ thread'[c] = "over"
      /\ \A d \in Calls \ {c} : thread'[d] = thread[d]
      /\ UNCHANGED <<handler, handled, got>>
  BY DEF RpcError, Goto, IInv, CallType
<1>2. \A d \in Calls : Stage(d)' = Stage(d)
  BY <1>1, StageKept
<1>3. [d \in Calls |-> Stage(d)]' = [d \in Calls |-> Stage(d)]
  BY <1>2
<1>4. [d \in Calls |-> thread[d] = "wait"]' = [[d \in Calls |-> thread[d] = "wait"] EXCEPT ![c] = FALSE]
  BY <1>1
<1> QED BY <1>1, <1>3, <1>4 DEF Interface!GiveUp

-----------------------------------------------------------------------------
(* The handler at the worker.                                              *)
LEMMA HandlerFacts ==
  ASSUME IInv, NEW c \in Calls, NEW from, NEW to, NEW answer, HandlerAnswers(c, from, to, answer)
  PROVE  /\ handler[c].pc = from
         /\ handler'[c].pc = to /\ handler'[c].answer = answer
         /\ \A d \in Calls \ {c} : handler'[d] = handler[d]
BY DEF HandlerAnswers, IInv, CallType

(* A step at the worker that does not change the stage of its call.        *)
LEMMA HandlerHidden ==
  ASSUME IInv, NEW c \in Calls,
         \A d \in Calls \ {c} : handler'[d] = handler[d],
         UNCHANGED <<thread, handled, got>>, Stage(c)' = Stage(c)
  PROVE  UNCHANGED Interface!vars
<1>1. \A d \in Calls : Stage(d)' = Stage(d)
  BY StageKept
<1> QED BY <1>1, NothingSeen

(* The draining test is the worker's own.                                  *)
LEMMA CheckDrainingHidden ==
  ASSUME IInv, NEW c \in Calls, CheckDraining(c) PROVE UNCHANGED Interface!vars
<1>1. /\ handler[c].pc = "queued" /\ handler[c].answer = "none"
      /\ \/ handler'[c].pc = "begin" /\ handler'[c].answer = "none"
         \/ handler'[c].pc = "return" /\ handler'[c].answer = "rejected"
      /\ \A d \in Calls \ {c} : handler'[d] = handler[d]
      /\ UNCHANGED <<thread, handled, got>>
  BY HandlerFacts DEF CheckDraining, Handler, Quiet, IInv, CallStages
<1>2. thread[c] \notin {"idle", "select"}
  BY <1>1 DEF IInv, CallStages
<1>3. Stage(c) = "sent" /\ Stage(c)' = "sent"
  BY <1>1, <1>2, StageBefore, StageAfter
<1> QED BY <1>1, <1>3, HandlerHidden

(* So is its load.                                                         *)
LEMMA IncreaseLoadHidden ==
  ASSUME IInv, NEW c \in Calls, IncreaseLoad(c) PROVE UNCHANGED Interface!vars
<1>1. /\ handler[c].pc = "begin" /\ handler[c].answer = "none"
      /\ handler'[c].pc = "working" /\ handler'[c].answer = "none"
      /\ \A d \in Calls \ {c} : handler'[d] = handler[d]
      /\ UNCHANGED <<thread, handled, got>>
  BY DEF IncreaseLoad, caller, IInv, CallType, CallStages
<1>2. thread[c] \notin {"idle", "select"}
  BY <1>1 DEF IInv, CallStages
<1>3. Stage(c) = "sent" /\ Stage(c)' = "sent"
  BY <1>1, <1>2, StageBefore, StageAfter
<1> QED BY <1>1, <1>3, HandlerHidden

(* When the handler has returned or raised, the outcome is sent.           *)
LEMMA ProcessTaskSends ==
  ASSUME IInv, NEW c \in Calls, ProcessTask(c) PROVE Interface!WorkerSends(c)
<1>1. /\ handler[c].pc = "working" /\ handler[c].answer = "none"
      /\ handler'[c].pc \in {"sendingCOMPLETED", "sendingFAILED"} /\ handler'[c].answer = "none"
      /\ \A d \in Calls \ {c} : handler'[d] = handler[d]
      /\ UNCHANGED <<thread, handled, got>>
  BY HandlerFacts DEF ProcessTask, Handler, Quiet, IInv, CallStages
<1>2. thread[c] \notin {"idle", "select"}
  BY <1>1 DEF IInv, CallStages
<1>3. Stage(c) = "sent" /\ Stage(c)' \in {"sendingCOMPLETED", "sendingFAILED"}
  BY <1>1, <1>2, StageBefore, StageAfter
<1>4. \A d \in Calls \ {c} : Stage(d)' = Stage(d)
  BY <1>1, StageKept
<1>5. Interface!Move(c, "sent", "sendingCOMPLETED") \/ Interface!Move(c, "sent", "sendingFAILED")
  BY <1>3, <1>4, StageMoves
<1> QED BY <1>1, <1>5 DEF Interface!WorkerSends

(* The dispatcher has handled the report.                                  *)
LEMMA ReturnResultHandled ==
  ASSUME IInv, NEW c \in Calls, ReturnResult(c) PROVE Interface!ReportHandled(c)
<1>1. /\ handler[c].pc \in {"sendingCOMPLETED", "sendingFAILED"} /\ handler[c].answer = "none"
      /\ handled' = [handled EXCEPT ![c] = TRUE]
      /\ UNCHANGED <<thread, handler, got>>
  BY DEF ReturnResult, caller, IInv, CallStages
<1>2. thread[c] \notin {"idle", "select"}
  BY <1>1 DEF IInv, CallStages
<1>3. Stage(c) \in {"sendingCOMPLETED", "sendingFAILED"}
  BY <1>1, <1>2, StageBefore
<1>4. [d \in Calls |-> Stage(d)]' = [d \in Calls |-> Stage(d)]
  BY <1>1, StageKept
<1> QED BY <1>1, <1>3, <1>4 DEF Interface!ReportHandled

(* The answer is fixed once the report was handled, but nobody has it yet. *)
LEMMA SendReturnsHidden ==
  ASSUME IInv, NEW c \in Calls, SendReturns(c) PROVE UNCHANGED Interface!vars
<1>1. /\ handler[c].answer = "none" /\ handler'[c].pc = "finally"
      /\ \/ handler[c].pc = "sendingCOMPLETED" /\ handler'[c].answer = "accepted"
         \/ handler[c].pc = "sendingFAILED" /\ handler'[c].answer = "failed"
      /\ \A d \in Calls \ {c} : handler'[d] = handler[d]
      /\ UNCHANGED <<thread, handled, got>>
  BY HandlerFacts DEF SendReturns, Quiet, IInv, CallStages
<1>2. thread[c] \notin {"idle", "select"}
  BY <1>1 DEF IInv, CallStages
<1>3. Stage(c)' = Stage(c)
  BY <1>1, <1>2, StageBefore, StageAfter
<1> QED BY <1>1, <1>3, HandlerHidden

(* Sending COMPLETED raised, so FAILED is sent.                            *)
LEMMA SendRaisesFails ==
  ASSUME IInv, NEW c \in Calls, SendRaises(c) PROVE Interface!WorkerSendFails(c)
<1>1. /\ handler[c].pc = "sendingCOMPLETED" /\ handler[c].answer = "none"
      /\ handler'[c].pc = "sendingFAILED" /\ handler'[c].answer = "none"
      /\ \A d \in Calls \ {c} : handler'[d] = handler[d]
      /\ handled' = [handled EXCEPT ![c] = FALSE]
      /\ UNCHANGED <<thread, got>>
  BY HandlerFacts DEF SendRaises, Handler, IInv, CallStages
<1>2. thread[c] \notin {"idle", "select"}
  BY <1>1 DEF IInv, CallStages
<1>3. Stage(c) = "sendingCOMPLETED" /\ Stage(c)' = "sendingFAILED"
  BY <1>1, <1>2, StageBefore, StageAfter
<1>4. \A d \in Calls \ {c} : Stage(d)' = Stage(d)
  BY <1>1, StageKept
<1> QED BY <1>1, <1>3, <1>4, StageMoves DEF Interface!WorkerSendFails

(* When sending FAILED raises too, there is nothing more to send.          *)
LEMMA FallbackRaisesHidden ==
  ASSUME IInv, NEW c \in Calls, FallbackRaises(c) PROVE UNCHANGED Interface!vars
<1>1. /\ handler[c].pc = "sendingFAILED" /\ handler[c].answer = "none"
      /\ handler'[c].pc = "finally" /\ handler'[c].answer = "error"
      /\ \A d \in Calls \ {c} : handler'[d] = handler[d]
      /\ UNCHANGED <<thread, handled, got>>
  BY HandlerFacts DEF FallbackRaises, Quiet, IInv, CallStages
<1>2. thread[c] \notin {"idle", "select"}
  BY <1>1 DEF IInv, CallStages
<1>3. Stage(c)' = Stage(c)
  BY <1>1, <1>2, StageBefore, StageAfter
<1> QED BY <1>1, <1>3, HandlerHidden

(* The finally block is the worker's own.                                  *)
LEMMA DecreaseLoadHidden ==
  ASSUME IInv, NEW c \in Calls, DecreaseLoad(c) PROVE UNCHANGED Interface!vars
<1>1. /\ handler[c].pc = "finally" /\ handler'[c].pc = "return"
      /\ handler'[c].answer = handler[c].answer
      /\ \A d \in Calls \ {c} : handler'[d] = handler[d]
      /\ UNCHANGED <<thread, handled, got>>
  BY HandlerFacts DEF DecreaseLoad, Handler, IInv
<1>2. /\ thread[c] \notin {"idle", "select"}
      /\ handler[c].answer \in {"accepted", "failed", "error"}
  BY <1>1 DEF IInv, CallType, CallStages, Answers
<1>3. Stage(c)' = Stage(c)
  BY <1>1, <1>2, StageBefore, StageAfter
<1> QED BY <1>1, <1>3, HandlerHidden

-----------------------------------------------------------------------------
(* Calls that are over without an answer.                                  *)

(* A worker that has a call is on its way to an answer.                    *)
LEMMA StageUnderWay ==
  ASSUME IInv, NEW c \in Calls, handler[c].pc \notin {"none", "ended"}
  PROVE  /\ Stage(c) \in {"sent", "sendingCOMPLETED", "sendingFAILED"}
         /\ thread[c] \in {"wait", "over"} /\ got[c] = "none"
<1>1. /\ thread[c] \in {"wait", "over"} /\ got[c] = "none"
      /\ handler[c].pc \notin {"finally", "return"} => handler[c].answer = "none"
      /\ handler[c].answer \in Answers
  BY DEF IInv, CallType, CallStages
<1> QED BY <1>1, StageBefore DEF Answers

(* The calls of C are over, and who waits for them may have noticed.       *)
LEMMA CallsEnd ==
  ASSUME IInv, NEW C \in SUBSET Calls,
         \A c \in C : handler[c].pc \notin {"none", "ended"},
         \A c \in C : handler'[c] = EndedHandler /\ got'[c] = "none" /\ ~handled'[c],
         \A c \in C : thread'[c] \notin {"idle", "select"},
         \A d \in Calls \ C : /\ handler'[d] = handler[d] /\ got'[d] = got[d]
                              /\ handled'[d] = handled[d] /\ thread'[d] = thread[d],
         handled' \in [Calls -> BOOLEAN],
         \/ \A c \in C : thread'[c] = "wait" <=> thread[c] = "wait"
         \/ \A c \in C : thread'[c] # "wait"
  PROVE  Interface!Ends(C)
<1>1. EndedHandler.pc = "ended" /\ EndedHandler.answer = "none"
  BY DEF EndedHandler, NoHandler
<1>2. \A c \in C : Stage(c)' = "ended"
  BY <1>1, StageAfter
<1>3. \A d \in Calls \ C : Stage(d)' = Stage(d)
  BY StageKept
<1>4. \A c \in C : [d \in Calls |-> Stage(d)][c] \in {"sent", "sendingCOMPLETED", "sendingFAILED"}
  BY StageUnderWay
<1>5. [d \in Calls |-> Stage(d)]' =
        [d \in Calls |-> IF d \in C THEN "ended" ELSE [e \in Calls |-> Stage(e)][d]]
  BY <1>2, <1>3
<1>6. handled' = [d \in Calls |-> d \notin C /\ handled[d]]
  BY DEF IInv, CallType
<1>7. CASE \A c \in C : thread'[c] = "wait" <=> thread[c] = "wait"
  <2>1. [d \in Calls |-> thread[d] = "wait"]' = [d \in Calls |-> thread[d] = "wait"]
    BY <1>7
  <2> QED BY <1>4, <1>5, <1>6, <2>1 DEF Interface!Ends
<1>8. CASE \A c \in C : thread'[c] # "wait"
  <2>1. [d \in Calls |-> thread[d] = "wait"]' =
          [d \in Calls |-> d \notin C /\ [e \in Calls |-> thread[e] = "wait"][d]]
    BY <1>8
  <2> QED BY <1>4, <1>5, <1>6, <2>1 DEF Interface!Ends
<1> QED BY <1>7, <1>8

(* What the end of a handler leaves of its call.                           *)
LEMMA EndedFacts ==
  ASSUME IInv, NEW c \in Calls, Ended(c)
  PROVE  /\ handler'[c] = EndedHandler /\ ~handled'[c] /\ handled' \in [Calls -> BOOLEAN]
         /\ \A d \in Calls \ {c} : handler'[d] = handler[d] /\ handled'[d] = handled[d]
BY DEF Ended, IInv, CallType

(* A call whose deadline passed before it got a thread has ended.          *)
LEMMA DroppedEnds ==
  ASSUME IInv, NEW c \in Calls, Dropped(c) PROVE Interface!Ends({c})
<1>1. /\ handler[c].pc \notin {"none", "ended"} /\ UNCHANGED <<thread, got>>
      /\ handler'[c] = EndedHandler /\ ~handled'[c] /\ handled' \in [Calls -> BOOLEAN]
      /\ \A d \in Calls \ {c} : handler'[d] = handler[d] /\ handled'[d] = handled[d]
  BY EndedFacts DEF Dropped
<1>2. thread[c] \in {"wait", "over"} /\ got[c] = "none"
  BY <1>1, StageUnderWay
<1> QED BY <1>1, <1>2, CallsEnd

(* An exception that leaves ExecuteTask is no answer.                      *)
LEMMA ReturnAnswersOrEnds ==
  ASSUME IInv, NEW c \in Calls, Return(c)
  PROVE  Interface!WorkerAnswers(c) \/ Interface!Ends({c})
<1>1. /\ handler[c].pc = "return"
      /\ handler'[c] = EndedHandler /\ ~handled'[c] /\ handled' \in [Calls -> BOOLEAN]
      /\ \A d \in Calls \ {c} : handler'[d] = handler[d] /\ handled'[d] = handled[d]
  BY EndedFacts DEF Return
<1>2. /\ Stage(c) \in {"sent", "sendingCOMPLETED", "sendingFAILED"}
      /\ thread[c] \in {"wait", "over"} /\ got[c] = "none"
  BY <1>1, StageUnderWay
<1>3. handler[c].answer \in Answers \ {"none"}
  BY <1>1 DEF IInv, CallType, CallStages
<1>4. \A d \in Calls \ {c} : thread'[d] = thread[d] /\ got'[d] = got[d]
  BY DEF Return, IInv, CallType
<1>5. CASE thread[c] # "wait"
  <2>1. UNCHANGED <<thread, got>>
    BY <1>5 DEF Return
  <2> QED BY <1>1, <1>2, <2>1, CallsEnd
<1>6. CASE thread[c] = "wait" /\ handler[c].answer = "error"
  <2>1. Success("error") = "none"
    BY DEF Success
  <2>2. thread'[c] = "over" /\ got'[c] = "none"
    BY <1>6, <2>1 DEF Return, IInv, CallType
  <2> QED BY <1>1, <1>4, <2>2, CallsEnd
<1>7. CASE thread[c] = "wait" /\ handler[c].answer # "error"
  <2>1. /\ Success("accepted") = "accepted" /\ Success("failed") = "refused"
        /\ Success("rejected") = "refused"
    BY DEF Success
  <2>2. /\ thread'[c] = "over" /\ got'[c] = Success(handler[c].answer)
        /\ handled' = [handled EXCEPT ![c] = FALSE]
    BY <1>7 DEF Return, Ended, IInv, CallType
  <2>3. [d \in Calls |-> thread[d] = "wait"]' = [[d \in Calls |-> thread[d] = "wait"] EXCEPT ![c] = FALSE]
    BY <1>4, <2>2
  <2>4. EndedHandler.pc = "ended" /\ EndedHandler.answer = "none"
    BY DEF EndedHandler, NoHandler
  <2>5. got'[c] # "none" /\ Stage(c)' = got'[c]
    BY <1>1, <1>3, <1>7, <2>1, <2>2, <2>4, StageAfter DEF Answers
  <2>6. \A d \in Calls \ {c} : Stage(d)' = Stage(d)
    BY <1>1, <1>4, StageKept
  <2>7. CASE handler[c].answer = "accepted"
    <3>1. handled[c] /\ Stage(c) = "sendingCOMPLETED"
      BY <1>1, <1>2, <2>7, StageBefore DEF IInv, CallStages
    <3>2. Interface!Move(c, "sendingCOMPLETED", "accepted")
      BY <2>1, <2>2, <2>5, <2>6, <2>7, <3>1, StageMoves
    <3> QED BY <1>7, <2>2, <2>3, <3>1, <3>2 DEF Interface!WorkerAnswers
  <2>8. CASE handler[c].answer = "failed"
    <3>1. handled[c] /\ Stage(c) = "sendingFAILED"
      BY <1>1, <1>2, <2>8, StageBefore DEF IInv, CallStages
    <3>2. Interface!Move(c, "sendingFAILED", "refused")
      BY <2>1, <2>2, <2>5, <2>6, <2>8, <3>1, StageMoves
    <3> QED BY <1>7, <2>2, <2>3, <3>1, <3>2 DEF Interface!WorkerAnswers
  <2>9. CASE handler[c].answer = "rejected"
    <3>1. Stage(c) = "sent"
      BY <1>1, <1>2, <2>9, StageBefore
    <3>2. Interface!Move(c, "sent", "refused")
      BY <2>1, <2>2, <2>5, <2>6, <2>9, <3>1, StageMoves
    <3> QED BY <1>7, <2>2, <2>3, <3>2 DEF Interface!WorkerAnswers
  <2> QED BY <1>3, <1>7, <2>7, <2>8, <2>9 DEF Answers
<1> QED BY <1>5, <1>6, <1>7

(* The calls of a process that ends are over.                              *)
LEMMA ProcessEnds ==
  ASSUME IInv, NEW w \in Workers, NEW from, Ends(w, from)
  PROVE  \E C \in SUBSET Calls : Interface!Ends(C)
<1>0. PICK C \in SUBSET Calls : C = {c \in Calls : target[c] = w}
  OBVIOUS
<1>1. /\ \A c \in C : handler'[c] = EndedHandler /\ ~handled'[c]
      /\ \A d \in Calls \ C : handler'[d] = handler[d] /\ handled'[d] = handled[d]
      /\ handled' \in [Calls -> BOOLEAN]
      /\ UNCHANGED <<thread, got>>
  BY <1>0 DEF Ends, IInv, CallType
<1>2. \A c \in C : handler[c].pc \notin {"none", "ended"}
  BY <1>0, WorkersAssumption DEF IInv, CallStages
<1>3. \A c \in C : thread[c] \in {"wait", "over"} /\ got[c] = "none"
  BY <1>2, StageUnderWay
<1> QED BY <1>1, <1>2, <1>3, CallsEnd

(* What else the main threads do is not seen.                              *)
LEMMA MainHidden ==
  ASSUME IInv, UNCHANGED <<thread, handler, handled, got>> PROVE UNCHANGED Interface!vars
BY StageKept, NothingSeen

(* Of the main thread, the interface sees the calls its end cuts off.      *)
LEMMA MainStepMaps ==
  ASSUME IInv, NEW w \in Workers, MainStep(w) PROVE [Interface!Next]_(Interface!vars)
<1>1. ASSUME NEW from, Ends(w, from) PROVE Interface!Next
  BY <1>1, ProcessEnds DEF Interface!Next
<1>2. CASE UNCHANGED <<thread, handler, handled, got>>
  BY <1>2, MainHidden
<1>3. \/ UNCHANGED <<thread, handler, handled, got>>
      \/ \E from : Ends(w, from)
  BY DEF MainStep, Start, ServerStart, Signal, SignalInLock, Shutdown, UpdateStatus, WaitEnds,
         Exit, ExitAtOnce, Kill, Phase, caller
<1> QED BY <1>1, <1>2, <1>3

(* Every step of the workers is a step of the interface or hidden.         *)
LEMMA NextMaps ==
  IInv /\ [Next]_vars => [Interface!Next]_(Interface!vars)
<1> SUFFICES ASSUME IInv, [Next]_vars PROVE [Interface!Next]_(Interface!vars)
  OBVIOUS
<1>1. ASSUME NEW c \in Calls, CallerStep(c) PROVE [Interface!Next]_(Interface!vars)
  <2>1. UNCHANGED Interface!vars \/ Interface!Send(c) \/ Interface!GiveUp(c)
    BY <1>1, LookupHidden, SelectSends, RpcErrorGivesUp DEF CallerStep
  <2> QED BY <2>1 DEF Interface!Next
<1>2. ASSUME NEW c \in Calls, HandlerStep(c) PROVE [Interface!Next]_(Interface!vars)
  <2>1. \/ UNCHANGED Interface!vars
        \/ Interface!WorkerSends(c) \/ Interface!WorkerSendFails(c)
        \/ Interface!ReportHandled(c) \/ Interface!WorkerAnswers(c)
        \/ Interface!Ends({c})
    BY <1>2, CheckDrainingHidden, DroppedEnds, IncreaseLoadHidden, ProcessTaskSends,
       ReturnResultHandled, SendReturnsHidden, SendRaisesFails, FallbackRaisesHidden,
       DecreaseLoadHidden, ReturnAnswersOrEnds DEF HandlerStep
  <2>2. {c} \in SUBSET Calls
    OBVIOUS
  <2> QED BY <2>1, <2>2 DEF Interface!Next
<1>3. ASSUME NEW w \in Workers, MainStep(w) PROVE [Interface!Next]_(Interface!vars)
  BY <1>3, MainStepMaps
<1>4. CASE UNCHANGED vars
  BY <1>4, MainHidden DEF vars, caller
<1> QED BY <1>1, <1>2, <1>3, <1>4 DEF Next, Rest

(* No call has been sent.                                                  *)
LEMMA InitMaps == Init => Interface!Init
<1> SUFFICES ASSUME Init PROVE Interface!Init
  OBVIOUS
<1>1. \A c \in Calls : thread[c] = "idle" /\ handler[c].pc = "none" /\ handler[c].answer = "none"
  BY DEF Init, NoHandler
<1>2. [c \in Calls |-> Stage(c)] = [c \in Calls |-> "none"]
  BY <1>1 DEF Stage
<1>3. [c \in Calls |-> thread[c] = "wait"] = [c \in Calls |-> FALSE]
  BY <1>1
<1> QED BY <1>2, <1>3 DEF Init, Interface!Init

(* ExecuteTask, the shutdown and the death of workers keep the promise the *)
(* dispatcher is modelled with: a worker answers after the dispatcher      *)
(* handled its report, at most once, and falls back to FAILED at most once *)
(* (worker.py:325-407, worker_client.py:22-58).                            *)
THEOREM WorkersKeepInterface == Spec => CallsFollowInterface
<1>1. Init => Interface!Init
  BY InitMaps
<1>2. IInv /\ [Next]_vars => [Interface!Next]_(Interface!vars)
  BY NextMaps
<1> QED BY <1>1, <1>2, Invariance, PTL DEF Spec, Interface!Spec, CallsFollowInterface
=============================================================================
