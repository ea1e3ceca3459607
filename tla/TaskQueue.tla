------------------------------ MODULE TaskQueue ------------------------------
(***************************************************************************)
(* The tasks table and the statements that change it: the TaskQueue of     *)
(* core/src/queue/task-queue.ts, the two repairs of the janitor            *)
(* (core/src/recovery/janitor.ts) and the withdrawal of a closed run's     *)
(* waiting tasks (core/src/cancellation/close-run.ts).                     *)
(*                                                                         *)
(* Each statement is one transaction, so each is one action.  The callers  *)
(* are the most general ones: whoever was ever handed a delivery may call  *)
(* ack, nack, quarantine or extend with its lease token at any later time, *)
(* however stale the token is.                                             *)
(*                                                                         *)
(* visible_at is kept as wait, the time left until it passes: Tick moves   *)
(* the clock.  It is 0 for a row whose visible_at nobody reads.  A lease   *)
(* token is a fresh uuid; here it is the ordinal of the delivery, so it    *)
(* differs from every earlier token of the task, and NoLease is null.      *)
(***************************************************************************)
EXTENDS Naturals, FiniteSets

CONSTANTS
  Task,               \* the rows that may ever be inserted
  VisibilityTimeout,  \* the lease length asked for by dequeue and extend
  MaxDelay,           \* bound on the delay of enqueue and nack
  PoisonThreshold,    \* lease losses after which a task is quarantined
  MaxDeliveries       \* bound on the deliveries of one task

ASSUME QueueAssumption ==
  /\ VisibilityTimeout \in Nat \ {0}
  /\ MaxDelay \in Nat
  /\ PoisonThreshold \in Nat \ {0}
  /\ MaxDeliveries \in Nat

VARIABLES
  tasks,   \* the table
  token,   \* delivery -> the lease token it was handed, NoLease before
  answer   \* delivery -> its call that was answered true, or "none"

queueVars == <<tasks, token, answer>>

NoLease == 0

Delivery == Task \X (1..MaxDeliveries)

TaskState == {"ABSENT", "PENDING", "LEASED", "COMPLETED", "QUARANTINED"}

(* The longest wait a row can have. *)
MaxWait == IF VisibilityTimeout > MaxDelay THEN VisibilityTimeout ELSE MaxDelay

TaskRow == [state : TaskState,
            wait : 0..MaxWait,
            attempts : 0..MaxDeliveries,
            lease : 0..MaxDeliveries,
            reclaims : 0..PoisonThreshold]

NoRow == [state |-> "ABSENT", wait |-> 0, attempts |-> 0, lease |-> NoLease, reclaims |-> 0]

-----------------------------------------------------------------------------
(* The rows the statements select, and what they make of a row.            *)

Claimable(r) == r.state \in {"PENDING", "LEASED"} /\ r.wait = 0

Expired(r) == r.state = "LEASED" /\ r.wait = 0

BudgetSpentLate(r) == r.reclaims + 1 > PoisonThreshold

BudgetSpent(r) == r.reclaims + 1 >= PoisonThreshold

Poisoned(r) == r.state = "LEASED" /\ BudgetSpent(r)

EnqueuedRow(delay) == [NoRow EXCEPT !.state = "PENDING", !.wait = delay]

LeasedKeepingToken(r) ==
  [r EXCEPT !.state = "LEASED",
            !.wait = VisibilityTimeout,
            !.attempts = @ + 1,
            !.lease = IF r.lease = NoLease THEN r.attempts + 1 ELSE r.lease,
            !.reclaims = IF r.state = "LEASED" THEN @ + 1 ELSE @]

LeasedRow(r) ==
  [r EXCEPT !.state = "LEASED",
            !.wait = VisibilityTimeout,
            !.attempts = @ + 1,
            !.lease = r.attempts + 1,
            !.reclaims = IF r.state = "LEASED" THEN @ + 1 ELSE @]

ParkedRow(r) == [r EXCEPT !.state = "QUARANTINED", !.wait = 0, !.lease = NoLease]

CompletedRow(r) == [r EXCEPT !.state = "COMPLETED", !.wait = 0, !.lease = NoLease]

NackedStillLeased(r, delay) == [r EXCEPT !.wait = delay]

NackedRow(r, delay) == [r EXCEPT !.state = "PENDING", !.wait = delay, !.lease = NoLease]

ReclaimedRow(r) ==
  [r EXCEPT !.state = IF BudgetSpent(r) THEN "QUARANTINED" ELSE "PENDING",
            !.wait = 0,
            !.lease = NoLease,
            !.reclaims = @ + 1]

ReleasedRow(r) == [r EXCEPT !.state = "PENDING", !.wait = 0, !.reclaims = 0]

(* What dequeue makes of a row it selected: a task whose lease was lost     *)
(* too often is set aside instead of being handed out.                      *)
Taken(r) ==
  IF Poisoned(r) THEN ParkedRow([r EXCEPT !.reclaims = @ + 1]) ELSE LeasedRow(r)

-----------------------------------------------------------------------------
Init ==
  /\ tasks = [t \in Task |-> NoRow]
  /\ token = [d \in Delivery |-> NoLease]
  /\ answer = [d \in Delivery |-> "none"]

Enqueue(t, delay) ==
  /\ tasks[t].state = "ABSENT"
  /\ tasks' = [tasks EXCEPT ![t] = EnqueuedRow(delay)]
  /\ UNCHANGED <<token, answer>>

(* The deliveries a dequeue of the tasks S hands out. *)
HandedOut(S) ==
  {<<t, tasks[t].attempts + 1>> : t \in {s \in S : ~Poisoned(tasks[s])}}

(* One dequeue.  SKIP LOCKED and the order among expired rows leave open    *)
(* which claimable rows it takes.                                           *)
Dequeue(S) ==
  /\ S # {}
  /\ \A t \in S : Claimable(tasks[t])
  /\ \A t \in S : Poisoned(tasks[t]) \/ tasks[t].attempts < MaxDeliveries
  /\ tasks' = [t \in Task |-> IF t \in S THEN Taken(tasks[t]) ELSE tasks[t]]
  /\ token' = [d \in Delivery |->
                 IF d \in HandedOut(S) THEN Taken(tasks[d[1]]).lease ELSE token[d]]
  /\ UNCHANGED answer

Handed(d) == token[d] # NoLease

(* The condition of ack, nack and quarantine on the row of the task. *)
HoldsLease(d) ==
  LET r == tasks[d[1]] IN r.state = "LEASED" /\ r.lease = token[d]

(* A call of delivery d: applied and answered true when the lease is still  *)
(* current, otherwise answered false without effect.                        *)
Settle(d, row, call) ==
  /\ Handed(d)
  /\ \/ /\ HoldsLease(d)
        /\ tasks' = [tasks EXCEPT ![d[1]] = row]
        /\ answer' = [answer EXCEPT ![d] = call]
     \/ /\ ~HoldsLease(d)
        /\ UNCHANGED <<tasks, answer>>
  /\ UNCHANGED token

Ack(d) == Settle(d, CompletedRow(tasks[d[1]]), "acked")

Nack(d, delay) == Settle(d, NackedRow(tasks[d[1]], delay), "nacked")

Quarantine(d) == Settle(d, ParkedRow(tasks[d[1]]), "parked")

(* A heartbeat: an expired lease cannot be renewed. *)
CanExtend(d) == Handed(d) /\ HoldsLease(d) /\ tasks[d[1]].wait > 0

Extend(d) ==
  /\ CanExtend(d)
  /\ tasks' = [tasks EXCEPT ![d[1]].wait = VisibilityTimeout]
  /\ UNCHANGED <<token, answer>>

(* reclaimOrphanedLeases: the expired leases S nobody else has locked. *)
Reclaim(S) ==
  /\ S # {}
  /\ \A t \in S : Expired(tasks[t])
  /\ tasks' = [t \in Task |-> IF t \in S THEN ReclaimedRow(tasks[t]) ELSE tasks[t]]
  /\ UNCHANGED <<token, answer>>

ReleaseQuarantined(t) ==
  /\ tasks[t].state = "QUARANTINED"
  /\ tasks' = [tasks EXCEPT ![t] = ReleasedRow(@)]
  /\ UNCHANGED <<token, answer>>

(* closeRunIfTerminal: the tasks nobody holds are completed unseen. *)
Withdraw(S) ==
  /\ S # {}
  /\ \A t \in S : tasks[t].state = "PENDING"
  /\ tasks' = [t \in Task |-> IF t \in S THEN CompletedRow(tasks[t]) ELSE tasks[t]]
  /\ UNCHANGED <<token, answer>>

Tick ==
  /\ \E t \in Task : tasks[t].wait > 0
  /\ tasks' = [t \in Task |->
                 [tasks[t] EXCEPT !.wait = IF @ > 0 THEN @ - 1 ELSE 0]]
  /\ UNCHANGED <<token, answer>>

Next ==
  \/ \E t \in Task, delay \in 0..MaxDelay : Enqueue(t, delay)
  \/ \E S \in SUBSET Task : Dequeue(S) \/ Reclaim(S) \/ Withdraw(S)
  \/ \E d \in Delivery : Ack(d) \/ Quarantine(d) \/ Extend(d)
  \/ \E d \in Delivery, delay \in 0..MaxDelay : Nack(d, delay)
  \/ \E t \in Task : ReleaseQuarantined(t)
  \/ Tick

Spec == Init /\ [][Next]_queueVars

-----------------------------------------------------------------------------
(* Properties *)

(* The tables and the answers have the shape the statements give them. *)
TypeOK ==
  /\ tasks \in [Task -> TaskRow]
  /\ token \in [Delivery -> 0..MaxDeliveries]
  /\ answer \in [Delivery -> {"none", "acked", "nacked", "parked"}]

(* Of all the workers that were ever handed a task, only the one that was   *)
(* handed it last can still settle it: a slow worker whose lease was given  *)
(* away finds ack, nack and quarantine without effect                       *)
(* (task-queue.ts, "false when it was not").                                *)
OnlyNewestHolds ==
  \A d \in Delivery : Handed(d) /\ HoldsLease(d) => d[2] = tasks[d[1]].attempts

(* A delivery is told at most once that its call was accepted, so a worker  *)
(* that acked cannot also have nacked or parked the task, and an accepted   *)
(* ack means the task was never handed out afterwards and never will be.    *)
AcceptedOnce ==
  [][\A d \in Delivery : answer[d] # "none" => answer'[d] = answer[d]]_queueVars

(* Once some worker's ack was accepted the task stays completed, with that  *)
(* delivery its last: neither the janitor, nor an operator's release, nor   *)
(* another dequeue brings it back (task-queue.ts ack, janitor.ts reclaim).  *)
AckedStaysDone ==
  \A d \in Delivery :
    answer[d] = "acked" =>
      /\ tasks[d[1]].state = "COMPLETED"
      /\ tasks[d[1]].attempts = d[2]

(* A task that keeps killing its worker cannot starve the queue: whichever  *)
(* of dequeue and the janitor takes its leases away, it is not delivered    *)
(* again once PoisonThreshold leases were lost since the last release.      *)
PoisonBudget ==
  \A t \in Task :
    tasks[t].state \in {"PENDING", "LEASED"} => tasks[t].reclaims < PoisonThreshold

StatusOf(r) ==
  CASE r.state = "ABSENT" -> "absent"
    [] r.state = "PENDING" -> "open"
    [] r.state = "LEASED" -> "out"
    [] r.state = "COMPLETED" -> "closed"
    [] r.state = "QUARANTINED" -> "parked"

Abstract ==
  INSTANCE TaskDelivery WITH
    status <- [t \in Task |-> StatusOf(tasks[t])],
    made <- [t \in Task |-> tasks[t].attempts],
    verdict <- answer

(* The table keeps the promise of TaskDelivery: every statement hands out,  *)
(* accepts, takes away or closes as that specification allows.              *)
KeepsPromise == Abstract!Spec
=============================================================================
