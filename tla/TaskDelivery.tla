---------------------------- MODULE TaskDelivery ----------------------------
(***************************************************************************)
(* What the task queue promises its callers, without leases, tokens,       *)
(* timeouts or reclaim counters.                                           *)
(*                                                                         *)
(* A task is handed out any number of times, each time as a new delivery.  *)
(* Only the newest delivery of a task that is still out can be told that   *)
(* its ack, nack or quarantine was accepted, and no delivery is told so    *)
(* twice.  A closed task is never handed out again.  One statement of the  *)
(* queue may move several tasks, so every task takes a step of its own or  *)
(* stays as it is.                                                         *)
(***************************************************************************)
EXTENDS Naturals

CONSTANTS Task, MaxDeliveries

VARIABLES
  status,   \* task -> "absent", "open", "out", "closed" or "parked"
  made,     \* task -> how many deliveries were made of it
  verdict   \* delivery -> the call of it that was accepted, or "none"

vars == <<status, made, verdict>>

Delivery == Task \X (1..MaxDeliveries)

Init ==
  /\ status = [t \in Task |-> "absent"]
  /\ made = [t \in Task |-> 0]
  /\ verdict = [d \in Delivery |-> "none"]

Moves(t, from, to) == status[t] \in from /\ status'[t] = to

SameCount(t) == made'[t] = made[t]

SameVerdicts(t) ==
  \A n \in 1..MaxDeliveries : verdict'[<<t, n>>] = verdict[<<t, n>>]

(* Only the newest delivery of a task that is out is ever accepted. *)
Accepts(t, call) ==
  /\ made[t] \in 1..MaxDeliveries
  /\ verdict[<<t, made[t]>>] = "none"
  /\ \A n \in 1..MaxDeliveries :
        verdict'[<<t, n>>] = IF n = made[t] THEN call ELSE verdict[<<t, n>>]

Submitted(t) == Moves(t, {"absent"}, "open") /\ SameCount(t) /\ SameVerdicts(t)

HandedOut(t) ==
  /\ Moves(t, {"open", "out"}, "out")
  /\ made'[t] = made[t] + 1
  /\ SameVerdicts(t)

Done(t) == Moves(t, {"out"}, "closed") /\ SameCount(t) /\ Accepts(t, "acked")

GivenBack(t) == Moves(t, {"out"}, "open") /\ SameCount(t) /\ Accepts(t, "nacked")

SetAside(t) == Moves(t, {"out"}, "parked") /\ SameCount(t) /\ Accepts(t, "parked")

(* The holder was given up on: the task is open again or set aside. *)
TakenAway(t) ==
  /\ Moves(t, {"out"}, "open") \/ Moves(t, {"out"}, "parked")
  /\ SameCount(t)
  /\ SameVerdicts(t)

(* The run of the task closed before anyone held the task. *)
Withdrawn(t) == Moves(t, {"open"}, "closed") /\ SameCount(t) /\ SameVerdicts(t)

Released(t) == Moves(t, {"parked"}, "open") /\ SameCount(t) /\ SameVerdicts(t)

Unmoved(t) == status'[t] = status[t] /\ SameCount(t) /\ SameVerdicts(t)

Step(t) ==
  \/ Submitted(t) \/ HandedOut(t) \/ Done(t) \/ GivenBack(t) \/ SetAside(t)
  \/ TakenAway(t) \/ Withdrawn(t) \/ Released(t) \/ Unmoved(t)

Next ==
  /\ status' \in [Task -> {"absent", "open", "out", "closed", "parked"}]
  /\ made' \in [Task -> Nat]
  /\ verdict' \in [Delivery -> {"none", "acked", "nacked", "parked"}]
  /\ \A t \in Task : Step(t)

Spec == Init /\ [][Next]_vars
=============================================================================
