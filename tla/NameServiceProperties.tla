------------------------ MODULE NameServiceProperties ------------------------
(***************************************************************************)
(* What must be true of the name service, and what its documents say.      *)
(***************************************************************************)
EXTENDS NameService

(* The entries, the handlers, the heartbeats and the expiry loop stay      *)
(* within the values the code gives them.                                  *)
TypeOK ==
  /\ phase \in [Workers -> {"off", "registering", "up", "leaving", "quitting"}]
  /\ made \in 0..MaxCalls
  /\ calls \in [Workers -> 0..made]
  /\ attempt \in [Workers -> 0..made]
  /\ handlers \subseteq Handler
  /\ listed \subseteq Entries
  /\ born \in [Entries -> Nat] /\ births \in Nat
  /\ status \in [Entries -> EntryState]
  /\ age \in [Entries -> 0..OfflineAge]
  /\ beat \in [Workers -> {"due", "seeking", "found", "stamped", "done"}]
  /\ rest \in [Workers -> SUBSET Entries]
  /\ target \in [Workers -> SUBSET Entries]
  /\ loop \in {"sleep", "check", "mark", "remove", "dead"}
  /\ todo \subseteq Entries
  /\ cur \in [entry : SUBSET Entries, offline : BOOLEAN]
  /\ passed \in BOOLEAN
  /\ steady \in [Workers -> BOOLEAN]
  /\ exposed \in [Workers -> BOOLEAN]
  /\ skipped \in [Workers -> BOOLEAN]
  /\ restarts \in 0..MaxRestarts

(* While the loop runs, LookupWorker offers no entry of a worker's latest  *)
(* call that was silent for more than UnhealthyAge, whatever registrations *)
(* and heartbeats race with the loop and bring removed entries back, and   *)
(* however calls overlap; only a worker whose entries a removal made some  *)
(* iteration skip is left out (nameservice.py:31-34,60,103-105,118-126).   *)
StaleNotOffered ==
  loop # "dead" =>
    \A e \in listed :
      age[e] > UnhealthyAge /\ e.k = calls[e.w] /\ ~skipped[e.w] =>
        e \notin LookupWorker(TypesOf[e.w][e.i])

(* Only three races take a live worker out of the lookups for its first    *)
(* type: another call's handler that cuts across its last call, a restart  *)
(* of the name service, and an iteration that skips its entry because the  *)
(* loop removes another one. Once it has registered, and as long as its    *)
(* heartbeats arrive, neither the loop's marks and removals nor later      *)
(* calls, heartbeats and status updates do (nameservice.py:24-54,86-128).  *)
Offered(w, i) == \E e \in LookupWorker(TypesOf[w][i]) : e.w = w
Settled(w) == steady[w] /\ \A h \in handlers : h.w # w
LostOnlyByRace ==
  \A w \in Workers : Settled(w) /\ ~exposed[w] /\ ~skipped[w] => Offered(w, 1)

(* As long as the loop runs, the entries of a worker that is gone for good *)
(* are removed for good, though a registration may bring one back          *)
(* (nameservice.py:110-131).                                               *)
Gone(w) == <>[](phase[w] = "off")
SilentWorkersExpire ==
  \A w \in Workers : Gone(w) => <>(loop = "dead") \/ <>[](Of(w) = {})

-----------------------------------------------------------------------------
(* What the documents say and the code does not do.                        *)

(* NamensdienstWorker.tex: the name service returns all available workers; *)
(* a worker is offered for each of its types as long as its heartbeats     *)
(* arrive (nameservice.py:31-34,101-106).                                  *)
HeartbeatsKeepOffered ==
  \A w \in Workers : Settled(w) => \A i \in 1..Len(TypesOf[w]) : Offered(w, i)

(* ADR-004.md:24: when the name service restarts, the workers register     *)
(* again; a worker that stays up and whose heartbeats are answered is in   *)
(* the list in the end (nameservice.py:15, worker.py:143-150).             *)
WorkersComeBack ==
  \A w \in Workers : <>[](phase[w] = "up" /\ steady[w]) => <>[](Of(w) # {})

(* Namensdienst.tex:42: stale entries are removed automatically            *)
(* (nameservice.py:126).                                                   *)
StaleEntriesRemoved ==
  \A w \in Workers : Gone(w) => <>[](Of(w) = {})
=============================================================================
