---------------------------- MODULE StateMachine ----------------------------
(***************************************************************************)
(* The task states (common/protocol.py) and the transitions the            *)
(* dispatcher's state machine allows (dispatcher/state_machine.py).        *)
(***************************************************************************)

TaskState == {"CREATED", "QUEUED", "DISPATCHED", "PROCESSING",
              "COMPLETED", "FAILED", "TIMEOUT", "RETRYING"}

VALID_TRANSITIONS ==
  [CREATED    |-> {"QUEUED"},
   QUEUED     |-> {"DISPATCHED", "FAILED"},
   DISPATCHED |-> {"PROCESSING", "TIMEOUT", "FAILED"},
   PROCESSING |-> {"COMPLETED", "FAILED", "TIMEOUT"},
   TIMEOUT    |-> {"RETRYING"},
   RETRYING   |-> {"DISPATCHED", "FAILED"},
   COMPLETED  |-> {},
   FAILED     |-> {}]

(* The test in front of transition(): is old -> new an allowed step?       *)
MayChange(old, new) == new \in VALID_TRANSITIONS[old]

(* is_terminal(): the states the documents promise never to change.        *)
Terminal == {"COMPLETED", "FAILED"}

=============================================================================
