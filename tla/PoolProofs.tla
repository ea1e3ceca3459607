------------------------------ MODULE PoolProofs ------------------------------
(***************************************************************************)
(* Proofs about the tasks table, for any set of tasks, any timeout, any    *)
(* threshold and any bound on deliveries, and about the workers on it.     *)
(*                                                                         *)
(* The table: a lease is always the ordinal of the newest delivery         *)
(* (LeaseShape), a caller's token is the ordinal of its own delivery       *)
(* (TokenShape), so an accepted call comes from the newest delivery; and   *)
(* the delivery that is out was never answered (AnswerShape), so it is     *)
(* accepted for the first time.                                            *)
(*                                                                         *)
(* The workers of WorkerPool are callers of the TaskQueue: every step of   *)
(* the pool is a statement of the queue, or leaves the table alone.  What  *)
(* is proved of the queue therefore holds under any number of workers,     *)
(* whatever they do between two statements.                                *)
(***************************************************************************)
EXTENDS WorkerPool, FiniteSetTheorems, TLAPS

-----------------------------------------------------------------------------
(* The table                                                                *)


AbsentShape ==
  \A t \in Task : tasks[t].state = "ABSENT" => tasks[t].attempts = 0

LeaseShape ==
  \A t \in Task :
    /\ tasks[t].state = "LEASED" <=> tasks[t].lease # NoLease
    /\ tasks[t].state = "LEASED" => tasks[t].lease = tasks[t].attempts

TokenShape ==
  \A d \in Delivery :
    /\ token[d] \in {NoLease, d[2]}
    /\ token[d] # NoLease => d[2] <= tasks[d[1]].attempts

AnswerShape ==
  \A d \in Delivery :
    answer[d] # "none" =>
      /\ d[2] <= tasks[d[1]].attempts
      /\ tasks[d[1]].state = "LEASED" => d[2] # tasks[d[1]].attempts

(* The strengthening that is inductive. *)
QueueInv ==
  /\ TypeOK
  /\ AbsentShape
  /\ LeaseShape
  /\ TokenShape
  /\ AnswerShape
  /\ AckedStaysDone
  /\ PoisonBudget

-----------------------------------------------------------------------------
(* What the statements make of a row. *)

(* Every wait a statement asks for is one a row can have. *)
LEMMA Waits ==
  /\ MaxWait \in Nat
  /\ 0 \in 0..MaxWait
  /\ VisibilityTimeout \in 0..MaxWait
  /\ \A delay \in 0..MaxDelay : delay \in 0..MaxWait
BY QueueAssumption DEF MaxWait

(* enqueue inserts a waiting row with nothing counted and no lease. *)
LEMMA EnqueuedRowShape ==
  ASSUME NEW delay \in 0..MaxDelay
  PROVE  LET q == EnqueuedRow(delay)
         IN  /\ q \in TaskRow
             /\ q.state = "PENDING"
             /\ q.lease = NoLease
             /\ q.attempts = 0
             /\ q.reclaims = 0
<1> DEFINE q == EnqueuedRow(delay)
<1>1. /\ q.state \in TaskState /\ q.wait \in 0..MaxWait /\ q.attempts \in 0..MaxDeliveries
      /\ q.lease \in 0..MaxDeliveries /\ q.reclaims \in 0..PoisonThreshold
      /\ q.state = "PENDING"
      /\ q.lease = NoLease
      /\ q.attempts = 0
      /\ q.reclaims = 0
  BY QueueAssumption, Waits DEF EnqueuedRow, NoRow, TaskRow, TaskState, NoLease
<1>2. QED
  BY <1>1 DEF EnqueuedRow, NoRow, TaskRow

(* A task is handed out under the ordinal of its new delivery. *)
LEMMA LeasedRowShape ==
  ASSUME NEW r \in TaskRow, r.attempts < MaxDeliveries, ~Poisoned(r), r.reclaims < PoisonThreshold
  PROVE  LET q == LeasedRow(r)
         IN  /\ q \in TaskRow
             /\ q.state = "LEASED"
             /\ q.attempts = r.attempts + 1
             /\ q.lease = r.attempts + 1
             /\ q.reclaims < PoisonThreshold
<1> DEFINE q == LeasedRow(r)
<1>1. /\ q.state \in TaskState /\ q.wait \in 0..MaxWait /\ q.attempts \in 0..MaxDeliveries
      /\ q.lease \in 0..MaxDeliveries /\ q.reclaims \in 0..PoisonThreshold
      /\ q.state = "LEASED"
      /\ q.attempts = r.attempts + 1
      /\ q.lease = r.attempts + 1
      /\ q.reclaims < PoisonThreshold
  BY QueueAssumption, Waits DEF LeasedRow, Poisoned, BudgetSpent, TaskRow, TaskState, NoLease
<1>2. QED
  BY <1>1 DEF LeasedRow, TaskRow

(* A row set aside holds no lease and keeps its counters. *)
LEMMA ParkedRowShape ==
  ASSUME NEW r \in TaskRow
  PROVE  LET q == ParkedRow(r)
         IN  /\ q \in TaskRow
             /\ q.state = "QUARANTINED"
             /\ q.lease = NoLease
             /\ q.attempts = r.attempts
<1> DEFINE q == ParkedRow(r)
<1>1. /\ q.state \in TaskState /\ q.wait \in 0..MaxWait /\ q.attempts \in 0..MaxDeliveries
      /\ q.lease \in 0..MaxDeliveries /\ q.reclaims \in 0..PoisonThreshold
      /\ q.state = "QUARANTINED"
      /\ q.lease = NoLease
      /\ q.attempts = r.attempts
  BY QueueAssumption, Waits DEF ParkedRow, TaskRow, TaskState, NoLease
<1>2. QED
  BY <1>1 DEF ParkedRow, TaskRow

(* A completed row holds no lease. *)
LEMMA CompletedRowShape ==
  ASSUME NEW r \in TaskRow
  PROVE  LET q == CompletedRow(r)
         IN  /\ q \in TaskRow
             /\ q.state = "COMPLETED"
             /\ q.lease = NoLease
             /\ q.attempts = r.attempts
<1> DEFINE q == CompletedRow(r)
<1>1. /\ q.state \in TaskState /\ q.wait \in 0..MaxWait /\ q.attempts \in 0..MaxDeliveries
      /\ q.lease \in 0..MaxDeliveries /\ q.reclaims \in 0..PoisonThreshold
      /\ q.state = "COMPLETED"
      /\ q.lease = NoLease
      /\ q.attempts = r.attempts
  BY QueueAssumption, Waits DEF CompletedRow, TaskRow, TaskState, NoLease
<1>2. QED
  BY <1>1 DEF CompletedRow, TaskRow

(* A nacked row waits again, with its lease losses still counted. *)
LEMMA NackedRowShape ==
  ASSUME NEW r \in TaskRow, NEW delay \in 0..MaxDelay
  PROVE  LET q == NackedRow(r, delay)
         IN  /\ q \in TaskRow
             /\ q.state = "PENDING"
             /\ q.lease = NoLease
             /\ q.attempts = r.attempts
             /\ q.reclaims = r.reclaims
<1> DEFINE q == NackedRow(r, delay)
<1>1. /\ q.state \in TaskState /\ q.wait \in 0..MaxWait /\ q.attempts \in 0..MaxDeliveries
      /\ q.lease \in 0..MaxDeliveries /\ q.reclaims \in 0..PoisonThreshold
      /\ q.state = "PENDING"
      /\ q.lease = NoLease
      /\ q.attempts = r.attempts
      /\ q.reclaims = r.reclaims
  BY QueueAssumption, Waits DEF NackedRow, TaskRow, TaskState, NoLease
<1>2. QED
  BY <1>1 DEF NackedRow, TaskRow

(* The janitor gives a task back only while its budget lasts. *)
LEMMA ReclaimedRowShape ==
  ASSUME NEW r \in TaskRow, r.reclaims < PoisonThreshold
  PROVE  LET q == ReclaimedRow(r)
         IN  /\ q \in TaskRow
             /\ q.state \in {"PENDING", "QUARANTINED"}
             /\ q.state = "PENDING" => q.reclaims < PoisonThreshold
             /\ q.lease = NoLease
             /\ q.attempts = r.attempts
<1> DEFINE q == ReclaimedRow(r)
<1>1. /\ q.state \in TaskState /\ q.wait \in 0..MaxWait /\ q.attempts \in 0..MaxDeliveries
      /\ q.lease \in 0..MaxDeliveries /\ q.reclaims \in 0..PoisonThreshold
      /\ q.state \in {"PENDING", "QUARANTINED"}
      /\ q.state = "PENDING" => q.reclaims < PoisonThreshold
      /\ q.lease = NoLease
      /\ q.attempts = r.attempts
  BY QueueAssumption, Waits DEF ReclaimedRow, BudgetSpent, TaskRow, TaskState, NoLease
<1>2. QED
  BY <1>1 DEF ReclaimedRow, TaskRow

(* An operator's release starts a fresh budget. *)
LEMMA ReleasedRowShape ==
  ASSUME NEW r \in TaskRow, r.lease = NoLease
  PROVE  LET q == ReleasedRow(r)
         IN  /\ q \in TaskRow
             /\ q.state = "PENDING"
             /\ q.lease = NoLease
             /\ q.attempts = r.attempts
             /\ q.reclaims = 0
<1> DEFINE q == ReleasedRow(r)
<1>1. /\ q.state \in TaskState /\ q.wait \in 0..MaxWait /\ q.attempts \in 0..MaxDeliveries
      /\ q.lease \in 0..MaxDeliveries /\ q.reclaims \in 0..PoisonThreshold
      /\ q.state = "PENDING"
      /\ q.lease = NoLease
      /\ q.attempts = r.attempts
      /\ q.reclaims = 0
  BY QueueAssumption, Waits DEF ReleasedRow, TaskRow, TaskState, NoLease
<1>2. QED
  BY <1>1 DEF ReleasedRow, TaskRow

(* dequeue sets a row aside or hands it out, and never without counting. *)
LEMMA TakenShape ==
  ASSUME NEW r \in TaskRow, Claimable(r), Poisoned(r) \/ r.attempts < MaxDeliveries,
         r.reclaims < PoisonThreshold
  PROVE  /\ Taken(r) \in TaskRow
         /\ \/ /\ Poisoned(r)
               /\ Taken(r).state = "QUARANTINED"
               /\ Taken(r).lease = NoLease
               /\ Taken(r).attempts = r.attempts
            \/ /\ ~Poisoned(r)
               /\ Taken(r).state = "LEASED"
               /\ Taken(r).lease = r.attempts + 1
               /\ Taken(r).attempts = r.attempts + 1
               /\ Taken(r).reclaims < PoisonThreshold
<1>1. CASE Poisoned(r)
  <2> DEFINE q == [r EXCEPT !.reclaims = @ + 1]
  <2>1. /\ q.state \in TaskState /\ q.wait \in 0..MaxWait /\ q.attempts \in 0..MaxDeliveries
        /\ q.lease \in 0..MaxDeliveries /\ q.reclaims \in 0..PoisonThreshold
        /\ q.attempts = r.attempts
    BY QueueAssumption DEF TaskRow
  <2>2. q \in TaskRow
    BY <2>1 DEF TaskRow
  <2>3. QED
    BY <1>1, <2>1, <2>2, ParkedRowShape DEF Taken
<1>2. CASE ~Poisoned(r)
  BY <1>2, LeasedRowShape DEF Taken
<1>3. QED
  BY <1>1, <1>2

-----------------------------------------------------------------------------
(* Initially nothing was inserted, handed out or answered. *)
LEMMA QueueInvInit == Init => QueueInv
<1> SUFFICES ASSUME Init PROVE QueueInv
  OBVIOUS
<1> USE QueueAssumption, Waits DEF Init, NoRow, NoLease, Delivery
<1>1. TypeOK
  BY DEF TypeOK, TaskRow, TaskState
<1>2. AbsentShape /\ LeaseShape /\ TokenShape /\ AnswerShape
  BY DEF AbsentShape, LeaseShape, TokenShape, AnswerShape
<1>3. AckedStaysDone /\ PoisonBudget
  BY DEF AckedStaysDone, PoisonBudget
<1>4. QED
  BY <1>1, <1>2, <1>3 DEF QueueInv

-----------------------------------------------------------------------------
(* Steps that move rows to a state without a lease, keep their attempts and *)
(* leave what the callers know unchanged: they cannot disturb the rest.     *)
LEMMA LeaseFreeStep ==
  ASSUME QueueInv, NEW S \in SUBSET Task,
         tasks' \in [Task -> TaskRow],
         UNCHANGED <<token, answer>>,
         \A t \in Task \ S : tasks'[t] = tasks[t],
         \A t \in S : /\ tasks[t].state # "COMPLETED"
                      /\ tasks'[t].attempts >= tasks[t].attempts
                      /\ tasks'[t].lease = NoLease
                      /\ tasks'[t].state \in {"PENDING", "COMPLETED", "QUARANTINED"}
                      /\ tasks'[t].state = "PENDING" => tasks'[t].reclaims < PoisonThreshold
  PROVE  QueueInv'
<1> USE QueueAssumption DEF QueueInv
<1>1. TypeOK'
  BY DEF TypeOK
<1>2. AbsentShape' /\ LeaseShape'
  BY DEF AbsentShape, LeaseShape
<1>3. \A t \in Task : tasks'[t].attempts >= tasks[t].attempts
  BY DEF TypeOK, TaskRow
<1>4. TokenShape'
  BY <1>3 DEF TokenShape, TypeOK, TaskRow, Delivery, NoLease
<1>5. AnswerShape'
  BY <1>3 DEF AnswerShape, TypeOK, TaskRow, Delivery
<1>6. AckedStaysDone'
  BY DEF AckedStaysDone, Delivery
<1>7. PoisonBudget'
  BY DEF PoisonBudget
<1>8. QED
  BY <1>1, <1>2, <1>4, <1>5, <1>6, <1>7

(* Steps that change waits only. *)
LEMMA WaitStep ==
  ASSUME QueueInv,
         UNCHANGED <<token, answer>>,
         tasks' \in [Task -> TaskRow],
         \A t \in Task : /\ tasks'[t].state = tasks[t].state
                         /\ tasks'[t].attempts = tasks[t].attempts
                         /\ tasks'[t].lease = tasks[t].lease
                         /\ tasks'[t].reclaims = tasks[t].reclaims
  PROVE  QueueInv'
<1> USE DEF QueueInv
<1>1. TypeOK'
  BY DEF TypeOK
<1>2. AbsentShape' /\ LeaseShape' /\ PoisonBudget'
  BY DEF AbsentShape, LeaseShape, PoisonBudget
<1>3. TokenShape' /\ AnswerShape' /\ AckedStaysDone'
  BY DEF TokenShape, AnswerShape, AckedStaysDone, Delivery
<1>4. QED
  BY <1>1, <1>2, <1>3

(* Inserting a row keeps the invariant.                                     *)
LEMMA EnqueueInv ==
  ASSUME QueueInv, NEW t \in Task, NEW delay \in 0..MaxDelay, Enqueue(t, delay)
  PROVE  QueueInv'
<1>1. tasks[t].attempts = 0
  BY DEF Enqueue, QueueInv, AbsentShape
<1>2. tasks \in [Task -> TaskRow]
  BY DEF QueueInv, TypeOK
<1>3. tasks' \in [Task -> TaskRow]
  BY <1>2, EnqueuedRowShape DEF Enqueue
<1>4. QED
  <2> DEFINE S == {t}
  <2>1. S \in SUBSET Task
    OBVIOUS
  <2>2. \A s \in Task \ S : tasks'[s] = tasks[s]
    BY <1>2 DEF Enqueue
  <2>3. \A s \in S : /\ tasks[s].state # "COMPLETED"
                     /\ tasks'[s].attempts >= tasks[s].attempts
                     /\ tasks'[s].lease = NoLease
                     /\ tasks'[s].state \in {"PENDING", "COMPLETED", "QUARANTINED"}
                     /\ tasks'[s].state = "PENDING" => tasks'[s].reclaims < PoisonThreshold
    BY <1>1, <1>2, EnqueuedRowShape, QueueAssumption DEF Enqueue
  <2>4. QED
    BY <1>3, <2>1, <2>2, <2>3, LeaseFreeStep DEF Enqueue

(* The janitor taking expired leases away keeps the invariant.              *)
LEMMA ReclaimInv ==
  ASSUME QueueInv, NEW S \in SUBSET Task, Reclaim(S)
  PROVE  QueueInv'
<1>1. tasks \in [Task -> TaskRow]
  BY DEF QueueInv, TypeOK
<1>2. \A s \in S : /\ tasks[s] \in TaskRow
                   /\ tasks[s].state = "LEASED"
                   /\ tasks[s].reclaims < PoisonThreshold
                   /\ tasks'[s] = ReclaimedRow(tasks[s])
  BY <1>1 DEF Reclaim, Expired, QueueInv, PoisonBudget
<1>3. \A s \in S : /\ tasks[s].state # "COMPLETED"
                   /\ tasks'[s] \in TaskRow
                   /\ tasks'[s].attempts >= tasks[s].attempts
                   /\ tasks'[s].lease = NoLease
                   /\ tasks'[s].state \in {"PENDING", "COMPLETED", "QUARANTINED"}
                   /\ tasks'[s].state = "PENDING" => tasks'[s].reclaims < PoisonThreshold
  <2> SUFFICES ASSUME NEW s \in S
               PROVE  /\ tasks[s].state # "COMPLETED"
                      /\ tasks'[s] \in TaskRow
                      /\ tasks'[s].attempts >= tasks[s].attempts
                      /\ tasks'[s].lease = NoLease
                      /\ tasks'[s].state \in {"PENDING", "COMPLETED", "QUARANTINED"}
                      /\ tasks'[s].state = "PENDING" => tasks'[s].reclaims < PoisonThreshold
    OBVIOUS
  <2>1. tasks[s].attempts \in Nat
    BY <1>2, QueueAssumption DEF TaskRow
  <2>2. QED
    BY <1>2, <2>1, ReclaimedRowShape
<1>4. tasks' \in [Task -> TaskRow] /\ \A s \in Task \ S : tasks'[s] = tasks[s]
  BY <1>1, <1>3 DEF Reclaim
<1>5. QED
  BY <1>3, <1>4, LeaseFreeStep DEF Reclaim

(* Withdrawing the waiting tasks of a closed run keeps the invariant.       *)
LEMMA WithdrawInv ==
  ASSUME QueueInv, NEW S \in SUBSET Task, Withdraw(S)
  PROVE  QueueInv'
<1>1. tasks \in [Task -> TaskRow]
  BY DEF QueueInv, TypeOK
<1>2. \A s \in S : /\ tasks[s] \in TaskRow
                   /\ tasks[s].state = "PENDING"
                   /\ tasks'[s] = CompletedRow(tasks[s])
                   /\ tasks[s].attempts \in Nat
  BY <1>1, QueueAssumption DEF Withdraw, TaskRow
<1>3. \A s \in S : /\ tasks[s].state # "COMPLETED"
                   /\ tasks'[s] \in TaskRow
                   /\ tasks'[s].attempts >= tasks[s].attempts
                   /\ tasks'[s].lease = NoLease
                   /\ tasks'[s].state \in {"PENDING", "COMPLETED", "QUARANTINED"}
                   /\ tasks'[s].state = "PENDING" => tasks'[s].reclaims < PoisonThreshold
  BY <1>2, CompletedRowShape
<1>4. tasks' \in [Task -> TaskRow] /\ \A s \in Task \ S : tasks'[s] = tasks[s]
  BY <1>1, <1>3 DEF Withdraw
<1>5. QED
  BY <1>3, <1>4, LeaseFreeStep DEF Withdraw

(* An operator's release keeps the invariant.                               *)
LEMMA ReleaseQuarantinedInv ==
  ASSUME QueueInv, NEW t \in Task, ReleaseQuarantined(t)
  PROVE  QueueInv'
<1>1. tasks \in [Task -> TaskRow]
  BY DEF QueueInv, TypeOK
<1>2. /\ tasks[t] \in TaskRow
      /\ tasks[t].state = "QUARANTINED"
      /\ tasks[t].lease = NoLease
      /\ tasks[t].attempts \in Nat
  BY <1>1, QueueAssumption DEF ReleaseQuarantined, QueueInv, LeaseShape, TaskRow
<1>3. /\ tasks' = [tasks EXCEPT ![t] = ReleasedRow(tasks[t])]
      /\ UNCHANGED <<token, answer>>
  BY DEF ReleaseQuarantined
<1>4. tasks' \in [Task -> TaskRow] /\ tasks'[t] = ReleasedRow(tasks[t])
  BY <1>1, <1>2, <1>3, ReleasedRowShape
<1> DEFINE S == {t}
<1>5. S \in SUBSET Task /\ \A s \in Task \ S : tasks'[s] = tasks[s]
  BY <1>1, <1>3
<1>6. \A s \in S : /\ tasks[s].state # "COMPLETED"
                   /\ tasks'[s].attempts >= tasks[s].attempts
                   /\ tasks'[s].lease = NoLease
                   /\ tasks'[s].state \in {"PENDING", "COMPLETED", "QUARANTINED"}
                   /\ tasks'[s].state = "PENDING" => tasks'[s].reclaims < PoisonThreshold
  BY <1>2, <1>4, ReleasedRowShape, QueueAssumption
<1>7. QED
  BY <1>3, <1>4, <1>5, <1>6, LeaseFreeStep

(* A heartbeat keeps the invariant: it moves a wait only.                   *)
LEMMA ExtendInv ==
  ASSUME QueueInv, NEW d \in Delivery, Extend(d)
  PROVE  QueueInv'
<1>1. tasks \in [Task -> TaskRow] /\ d[1] \in Task
  BY DEF QueueInv, TypeOK, Delivery
<1>2. /\ tasks' = [tasks EXCEPT ![d[1]].wait = VisibilityTimeout]
      /\ UNCHANGED <<token, answer>>
  BY DEF Extend
<1>3. tasks' \in [Task -> TaskRow]
  BY <1>1, <1>2, Waits DEF TaskRow
<1>4. QED
  BY <1>1, <1>2, <1>3, WaitStep DEF TaskRow

(* The passing of time keeps the invariant.                                 *)
LEMMA TickInv ==
  ASSUME QueueInv, Tick
  PROVE  QueueInv'
<1>1. tasks \in [Task -> TaskRow]
  BY DEF QueueInv, TypeOK
<1>2. \A t \in Task : tasks'[t] = [tasks[t] EXCEPT !.wait = IF @ > 0 THEN @ - 1 ELSE 0]
  BY DEF Tick
<1>3. \A r \in TaskRow : (IF r.wait > 0 THEN r.wait - 1 ELSE 0) \in 0..MaxWait
  BY Waits DEF TaskRow
<1>4. tasks' \in [Task -> TaskRow]
  BY <1>1, <1>3 DEF Tick, TaskRow
<1>5. QED
  BY <1>1, <1>2, <1>4, WaitStep DEF Tick, TaskRow

-----------------------------------------------------------------------------
(* The token of a caller that holds the lease names the newest delivery.    *)
LEMMA HolderIsNewest ==
  ASSUME QueueInv, NEW d \in Delivery, Handed(d), HoldsLease(d)
  PROVE  /\ d[2] = tasks[d[1]].attempts
         /\ answer[d] = "none"
<1>1. d[2] = tasks[d[1]].attempts
  BY DEF QueueInv, LeaseShape, TokenShape, Handed, HoldsLease, Delivery
<1>2. QED
  BY <1>1 DEF QueueInv, AnswerShape, HoldsLease

(* An accepted call leaves the row without a lease and is the first of its  *)
(* delivery.                                                                *)
LEMMA AcceptStep ==
  ASSUME QueueInv, NEW d \in Delivery, Handed(d), HoldsLease(d),
         NEW row \in TaskRow, NEW call \in {"acked", "nacked", "parked"},
         row.lease = NoLease,
         row.attempts = tasks[d[1]].attempts,
         row.state \in {"PENDING", "COMPLETED", "QUARANTINED"},
         row.state = "PENDING" => row.reclaims < PoisonThreshold,
         call = "acked" => row.state = "COMPLETED",
         tasks' = [tasks EXCEPT ![d[1]] = row],
         answer' = [answer EXCEPT ![d] = call],
         UNCHANGED token
  PROVE  QueueInv'
<1>1. d[2] = tasks[d[1]].attempts /\ answer[d] = "none"
  BY HolderIsNewest
<1>2. /\ tasks \in [Task -> TaskRow]
      /\ answer \in [Delivery -> {"none", "acked", "nacked", "parked"}]
      /\ d[1] \in Task /\ tasks[d[1]].state = "LEASED"
  BY DEF QueueInv, TypeOK, Delivery, HoldsLease
<1>3. /\ tasks'[d[1]] = row
      /\ \A t \in Task : t # d[1] => tasks'[t] = tasks[t]
      /\ \A t \in Task : tasks'[t].attempts = tasks[t].attempts
      /\ answer'[d] = call
      /\ \A e \in Delivery : e # d => answer'[e] = answer[e]
  BY <1>2
<1>4. TypeOK'
  BY <1>2 DEF QueueInv, TypeOK
<1>5. AbsentShape' /\ LeaseShape'
  BY <1>3 DEF QueueInv, AbsentShape, LeaseShape
<1>6. TokenShape'
  BY <1>3 DEF QueueInv, TokenShape, Delivery
<1>7. AnswerShape'
  <2> SUFFICES ASSUME NEW e \in Delivery, answer'[e] # "none"
               PROVE  /\ e[2] <= tasks'[e[1]].attempts
                      /\ tasks'[e[1]].state = "LEASED" => e[2] # tasks'[e[1]].attempts
    BY DEF AnswerShape
  <2>1. CASE e = d
    BY <1>1, <1>2, <1>3, <2>1, QueueAssumption DEF TaskRow
  <2>2. CASE e # d
    BY <1>3, <2>2 DEF QueueInv, AnswerShape, Delivery
  <2>3. QED
    BY <2>1, <2>2
<1>8. AckedStaysDone'
  <2> SUFFICES ASSUME NEW e \in Delivery, answer'[e] = "acked"
               PROVE  tasks'[e[1]].state = "COMPLETED" /\ tasks'[e[1]].attempts = e[2]
    BY DEF AckedStaysDone
  <2>1. CASE e = d
    BY <1>1, <1>3, <2>1
  <2>2. CASE e # d
    <3>1. tasks[e[1]].state = "COMPLETED" /\ tasks[e[1]].attempts = e[2]
      BY <1>3, <2>2 DEF QueueInv, AckedStaysDone
    <3>2. e[1] # d[1] /\ e[1] \in Task
      BY <1>2, <3>1 DEF Delivery
    <3>3. QED
      BY <1>3, <3>1, <3>2
  <2>3. QED
    BY <2>1, <2>2
<1>9. PoisonBudget'
  BY <1>3 DEF QueueInv, PoisonBudget
<1>10. QED
  BY <1>4, <1>5, <1>6, <1>7, <1>8, <1>9 DEF QueueInv

(* A call answered false changes nothing. *)
LEMMA RefusedStep ==
  ASSUME QueueInv, UNCHANGED queueVars
  PROVE  QueueInv'
BY DEF QueueInv, queueVars, TypeOK, AbsentShape, LeaseShape, TokenShape,
       AnswerShape, AckedStaysDone, PoisonBudget

(* Ack, nack and quarantine keep the invariant, answered true or false.     *)
LEMMA SettleInv ==
  ASSUME QueueInv, NEW d \in Delivery,
         \/ Ack(d)
         \/ Quarantine(d)
         \/ \E delay \in 0..MaxDelay : Nack(d, delay)
  PROVE  QueueInv'
<1>1. CASE ~HoldsLease(d)
  BY <1>1, RefusedStep DEF Ack, Nack, Quarantine, Settle, queueVars
<1>2. CASE HoldsLease(d)
  <2>1. /\ tasks[d[1]] \in TaskRow
        /\ tasks[d[1]].reclaims < PoisonThreshold
        /\ Handed(d)
    BY <1>2 DEF QueueInv, TypeOK, PoisonBudget, HoldsLease, Delivery, Ack, Nack,
                Quarantine, Settle
  <2>2. CASE Ack(d)
    BY <1>2, <2>1, <2>2, CompletedRowShape, AcceptStep DEF Ack, Settle
  <2>3. CASE Quarantine(d)
    BY <1>2, <2>1, <2>3, ParkedRowShape, AcceptStep DEF Quarantine, Settle
  <2>4. ASSUME NEW delay \in 0..MaxDelay, Nack(d, delay)
        PROVE  QueueInv'
    BY <1>2, <2>1, <2>4, NackedRowShape, AcceptStep DEF Nack, Settle
  <2>5. QED
    BY <2>2, <2>3, <2>4
<1>3. QED
  BY <1>1, <1>2

(* Handing tasks out, or setting them aside, keeps the invariant.           *)
LEMMA DequeueInv ==
  ASSUME QueueInv, NEW S \in SUBSET Task, Dequeue(S)
  PROVE  QueueInv'
<1>1. tasks \in [Task -> TaskRow] /\ token \in [Delivery -> 0..MaxDeliveries]
  BY DEF QueueInv, TypeOK
<1>2. \A t \in S : /\ tasks[t] \in TaskRow
                   /\ Claimable(tasks[t])
                   /\ Poisoned(tasks[t]) \/ tasks[t].attempts < MaxDeliveries
                   /\ tasks[t].reclaims < PoisonThreshold
                   /\ tasks[t].attempts \in Nat
                   /\ tasks'[t] = Taken(tasks[t])
  BY <1>1, QueueAssumption DEF Dequeue, Claimable, QueueInv, PoisonBudget, TaskRow
<1>3. \A t \in Task \ S : tasks'[t] = tasks[t]
  BY DEF Dequeue
<1>4. \A t \in S :
        /\ tasks'[t] \in TaskRow
        /\ \/ /\ Poisoned(tasks[t])
              /\ tasks'[t].state = "QUARANTINED"
              /\ tasks'[t].lease = NoLease
              /\ tasks'[t].attempts = tasks[t].attempts
           \/ /\ ~Poisoned(tasks[t])
              /\ tasks'[t].state = "LEASED"
              /\ tasks'[t].lease = tasks[t].attempts + 1
              /\ tasks'[t].attempts = tasks[t].attempts + 1
              /\ tasks'[t].reclaims < PoisonThreshold
  BY <1>2, TakenShape
<1>5. \A t \in Task : /\ tasks[t].attempts \in Nat
                      /\ tasks'[t].attempts \in Nat
                      /\ tasks'[t].attempts >= tasks[t].attempts
  BY <1>1, <1>2, <1>3, <1>4, QueueAssumption DEF TaskRow
<1>6. \A d \in Delivery :
        \/ token'[d] = token[d]
        \/ /\ d[1] \in S
           /\ d[2] = tasks'[d[1]].attempts
           /\ token'[d] = d[2]
  <2> SUFFICES ASSUME NEW d \in Delivery, token'[d] # token[d]
               PROVE  /\ d[1] \in S
                      /\ d[2] = tasks'[d[1]].attempts
                      /\ token'[d] = d[2]
    OBVIOUS
  <2>1. d \in HandedOut(S) /\ token'[d] = Taken(tasks[d[1]]).lease
    BY DEF Dequeue
  <2>2. PICK t \in S : ~Poisoned(tasks[t]) /\ d = <<t, tasks[t].attempts + 1>>
    BY <2>1 DEF HandedOut
  <2>3. QED
    BY <1>2, <1>4, <2>1, <2>2
<1>7. TypeOK'
  <2>1. tasks' \in [Task -> TaskRow]
    BY <1>1, <1>3, <1>4 DEF Dequeue
  <2>2. token' \in [Delivery -> 0..MaxDeliveries]
    BY <1>1, <1>6 DEF Dequeue, Delivery
  <2>3. QED
    BY <2>1, <2>2 DEF QueueInv, TypeOK, Dequeue
<1>8. AbsentShape' /\ LeaseShape'
  BY <1>2, <1>3, <1>4 DEF QueueInv, AbsentShape, LeaseShape, NoLease
<1>9. TokenShape'
  <2> SUFFICES ASSUME NEW d \in Delivery
               PROVE  /\ token'[d] \in {NoLease, d[2]}
                      /\ token'[d] # NoLease => d[2] <= tasks'[d[1]].attempts
    BY DEF TokenShape
  <2>1. d[1] \in Task /\ d[2] \in Nat
    BY DEF Delivery
  <2>2. QED
    BY <1>5, <1>6, <2>1 DEF QueueInv, TokenShape
<1>10. AnswerShape'
  <2> SUFFICES ASSUME NEW d \in Delivery, answer'[d] # "none"
               PROVE  /\ d[2] <= tasks'[d[1]].attempts
                      /\ tasks'[d[1]].state = "LEASED" => d[2] # tasks'[d[1]].attempts
    BY DEF AnswerShape
  <2>1. d[1] \in Task /\ d[2] \in Nat /\ answer[d] # "none"
    BY DEF Delivery, Dequeue
  <2>2. d[2] <= tasks[d[1]].attempts
    BY <2>1 DEF QueueInv, AnswerShape
  <2>3. CASE d[1] \in S
    BY <1>2, <1>4, <2>1, <2>2, <2>3
  <2>4. CASE d[1] \notin S
    BY <1>3, <2>1, <2>4 DEF QueueInv, AnswerShape
  <2>5. QED
    BY <2>3, <2>4
<1>11. AckedStaysDone'
  <2> SUFFICES ASSUME NEW d \in Delivery, answer'[d] = "acked"
               PROVE  tasks'[d[1]].state = "COMPLETED" /\ tasks'[d[1]].attempts = d[2]
    BY DEF AckedStaysDone
  <2>1. /\ d[1] \in Task
        /\ tasks[d[1]].state = "COMPLETED"
        /\ tasks[d[1]].attempts = d[2]
    BY DEF Delivery, Dequeue, QueueInv, AckedStaysDone
  <2>2. d[1] \notin S
    BY <1>2, <2>1 DEF Claimable
  <2>3. QED
    BY <1>3, <2>1, <2>2
<1>12. PoisonBudget'
  BY <1>3, <1>4 DEF QueueInv, PoisonBudget
<1>13. QED
  BY <1>7, <1>8, <1>9, <1>10, <1>11, <1>12 DEF QueueInv

-----------------------------------------------------------------------------
(* Every statement keeps the invariant.                                     *)
LEMMA QueueInvNext == QueueInv /\ [Next]_queueVars => QueueInv'
<1> SUFFICES ASSUME QueueInv, [Next]_queueVars PROVE QueueInv'
  OBVIOUS
<1>1. ASSUME NEW t \in Task, NEW delay \in 0..MaxDelay, Enqueue(t, delay)
      PROVE  QueueInv'
  BY <1>1, EnqueueInv
<1>2. ASSUME NEW S \in SUBSET Task, Dequeue(S) \/ Reclaim(S) \/ Withdraw(S)
      PROVE  QueueInv'
  BY <1>2, DequeueInv, ReclaimInv, WithdrawInv
<1>3. ASSUME NEW d \in Delivery, Ack(d) \/ Quarantine(d) \/ Extend(d)
      PROVE  QueueInv'
  BY <1>3, SettleInv, ExtendInv
<1>4. ASSUME NEW d \in Delivery, NEW delay \in 0..MaxDelay, Nack(d, delay)
      PROVE  QueueInv'
  BY <1>4, SettleInv
<1>5. ASSUME NEW t \in Task, ReleaseQuarantined(t)
      PROVE  QueueInv'
  BY <1>5, ReleaseQuarantinedInv
<1>6. CASE Tick
  BY <1>6, TickInv
<1>7. CASE UNCHANGED queueVars
  BY <1>7, RefusedStep
<1>8. QED
  BY <1>1, <1>2, <1>3, <1>4, <1>5, <1>6, <1>7 DEF Next

(* The strengthened invariant holds in every reachable state. *)
THEOREM QueueInvariant == Spec => []QueueInv
<1>1. Init => QueueInv
  BY QueueInvInit
<1>2. QueueInv /\ [Next]_queueVars => QueueInv'
  BY QueueInvNext
<1>3. QED
  BY <1>1, <1>2, PTL DEF Spec

(* The rows, tokens and answers keep their shape. *)
THEOREM TypeCorrect == Spec => []TypeOK
<1>1. QueueInv => TypeOK
  BY DEF QueueInv
<1>2. QED
  BY <1>1, QueueInvariant, PTL

(* Only the worker that was handed a task last can still settle it. *)
THEOREM NewestHolds == Spec => []OnlyNewestHolds
<1>1. QueueInv => OnlyNewestHolds
  BY HolderIsNewest DEF OnlyNewestHolds
<1>2. QED
  BY <1>1, QueueInvariant, PTL

(* A task whose ack was accepted is never handed out again. *)
THEOREM AckIsFinal == Spec => []AckedStaysDone
<1>1. QueueInv => AckedStaysDone
  BY DEF QueueInv
<1>2. QED
  BY <1>1, QueueInvariant, PTL

(* A task that loses PoisonThreshold leases is not handed out again before  *)
(* an operator releases it.                                                 *)
THEOREM PoisonedIsParked == Spec => []PoisonBudget
<1>1. QueueInv => PoisonBudget
  BY DEF QueueInv
<1>2. QED
  BY <1>1, QueueInvariant, PTL

(* No delivery is told twice that its call was accepted. *)
THEOREM AnsweredOnce == Spec => AcceptedOnce
<1>1. ASSUME QueueInv, Next
      PROVE  \A d \in Delivery : answer[d] # "none" => answer'[d] = answer[d]
  <2> SUFFICES ASSUME NEW d \in Delivery, answer[d] # "none"
               PROVE  answer'[d] = answer[d]
    OBVIOUS
  <2>1. answer \in [Delivery -> {"none", "acked", "nacked", "parked"}]
    BY <1>1 DEF QueueInv, TypeOK
  <2>2. ASSUME NEW e \in Delivery, NEW row, NEW call, Settle(e, row, call)
        PROVE  answer'[d] = answer[d]
    BY <1>1, <2>1, <2>2, HolderIsNewest DEF Settle
  <2>3. QED
    BY <1>1, <2>2 DEF Next, Enqueue, Dequeue, Reclaim, Withdraw, Ack, Nack, Quarantine,
                      Extend, ReleaseQuarantined, Tick
<1>2. QueueInv /\ [Next]_queueVars =>
        [\A d \in Delivery : answer[d] # "none" => answer'[d] = answer[d]]_queueVars
  BY <1>1
<1>3. QED
  BY <1>2, QueueInvariant, PTL DEF Spec, AcceptedOnce

-----------------------------------------------------------------------------
(* The table implements TaskDelivery. *)

(* The empty table is the initial state of TaskDelivery.                    *)
LEMMA InitRefines == Init => Abstract!Init
BY DEF Init, Abstract!Init, Abstract!Delivery, Delivery, StatusOf, NoRow

(* A task whose answers stay as they are makes one of the unanswered moves. *)
LEMMA UnansweredMove ==
  ASSUME NEW t \in Task,
         \A n \in 1..MaxDeliveries : answer'[<<t, n>>] = answer[<<t, n>>],
         tasks[t].state \in TaskState, tasks'[t].state \in TaskState,
         \/ /\ tasks'[t].attempts = tasks[t].attempts
            /\ \/ tasks'[t].state = tasks[t].state
               \/ tasks[t].state = "ABSENT" /\ tasks'[t].state = "PENDING"
               \/ tasks[t].state = "LEASED" /\ tasks'[t].state \in {"PENDING", "QUARANTINED"}
               \/ tasks[t].state = "PENDING" /\ tasks'[t].state = "COMPLETED"
               \/ tasks[t].state = "QUARANTINED" /\ tasks'[t].state = "PENDING"
         \/ /\ tasks'[t].attempts = tasks[t].attempts + 1
            /\ tasks[t].state \in {"PENDING", "LEASED"}
            /\ tasks'[t].state = "LEASED"
  PROVE  Abstract!Step(t)
BY DEF Abstract!Step, Abstract!Submitted, Abstract!HandedOut, Abstract!TakenAway,
       Abstract!Withdrawn, Abstract!Released, Abstract!Unmoved, Abstract!Moves,
       Abstract!SameCount, Abstract!SameVerdicts, StatusOf, TaskState

(* An accepted call is the abstract acceptance of the newest delivery. *)
LEMMA AcceptedMove ==
  ASSUME NEW d \in Delivery, d[2] = tasks[d[1]].attempts, answer[d] = "none",
         tasks[d[1]].state = "LEASED",
         answer \in [Delivery -> {"none", "acked", "nacked", "parked"}],
         tasks'[d[1]].attempts = tasks[d[1]].attempts,
         NEW call, answer' = [answer EXCEPT ![d] = call],
         \/ call = "acked" /\ tasks'[d[1]].state = "COMPLETED"
         \/ call = "nacked" /\ tasks'[d[1]].state = "PENDING"
         \/ call = "parked" /\ tasks'[d[1]].state = "QUARANTINED"
  PROVE  Abstract!Step(d[1])
<1>1. d[1] \in Task /\ d[2] \in 1..MaxDeliveries /\ d = <<d[1], d[2]>>
  BY DEF Delivery
<1>2. \A n \in 1..MaxDeliveries :
        answer'[<<d[1], n>>] = IF n = d[2] THEN call ELSE answer[<<d[1], n>>]
  BY <1>1 DEF Delivery
<1>3. Abstract!Accepts(d[1], call)
  BY <1>1, <1>2 DEF Abstract!Accepts
<1>4. QED
  BY <1>1, <1>3 DEF Abstract!Step, Abstract!Done, Abstract!GivenBack, Abstract!SetAside,
         Abstract!Moves, Abstract!SameCount, StatusOf

(* A call of a delivery is an acceptance of TaskDelivery or a stutter.      *)
LEMMA SettleRefines ==
  ASSUME QueueInv, NEW d \in Delivery, NEW row, NEW call, Settle(d, row, call),
         row.attempts = tasks[d[1]].attempts,
         \/ call = "acked" /\ row.state = "COMPLETED"
         \/ call = "nacked" /\ row.state = "PENDING"
         \/ call = "parked" /\ row.state = "QUARANTINED"
  PROVE  \A t \in Task : Abstract!Step(t)
<1>1. /\ tasks \in [Task -> TaskRow] /\ d[1] \in Task
      /\ answer \in [Delivery -> {"none", "acked", "nacked", "parked"}]
      /\ \A t \in Task : tasks[t].state \in TaskState
  BY DEF QueueInv, TypeOK, Delivery, TaskRow
<1>2. CASE ~HoldsLease(d)
  BY <1>1, <1>2, UnansweredMove DEF Settle
<1>3. CASE HoldsLease(d)
  <2>1. /\ tasks' = [tasks EXCEPT ![d[1]] = row]
        /\ answer' = [answer EXCEPT ![d] = call]
        /\ tasks[d[1]].state = "LEASED"
        /\ d[2] = tasks[d[1]].attempts /\ answer[d] = "none"
    BY <1>3, HolderIsNewest DEF Settle, HoldsLease
  <2>2. tasks'[d[1]] = row
    BY <1>1, <2>1
  <2>3. Abstract!Step(d[1])
    BY <1>1, <2>1, <2>2, AcceptedMove
  <2>4. ASSUME NEW t \in Task, t # d[1]
        PROVE  Abstract!Step(t)
    <3>1. tasks'[t] = tasks[t]
      BY <1>1, <2>1, <2>4
    <3>2. \A n \in 1..MaxDeliveries : answer'[<<t, n>>] = answer[<<t, n>>]
      BY <1>1, <2>1, <2>4 DEF Delivery
    <3>3. QED
      BY <1>1, <3>1, <3>2, UnansweredMove
  <2>5. QED
    BY <2>3, <2>4
<1>4. QED
  BY <1>2, <1>3

(* Every statement is a step of TaskDelivery or a stutter.                  *)
LEMMA StepRefines ==
  ASSUME QueueInv, Next
  PROVE  \A t \in Task : Abstract!Step(t)
<1>1. tasks \in [Task -> TaskRow]
  BY DEF QueueInv, TypeOK
<1>2. \A t \in Task : tasks[t] \in TaskRow /\ tasks[t].state \in TaskState
  BY <1>1 DEF TaskRow
<1>3. ASSUME NEW s \in Task, NEW delay \in 0..MaxDelay, Enqueue(s, delay)
      PROVE  \A t \in Task : Abstract!Step(t)
  <2>1. tasks[s].attempts = 0
    BY <1>3 DEF Enqueue, QueueInv, AbsentShape
  <2>2. QED
    BY <1>1, <1>2, <1>3, <2>1, EnqueuedRowShape, UnansweredMove DEF Enqueue, TaskState
<1>4. ASSUME NEW S \in SUBSET Task, Dequeue(S)
      PROVE  \A t \in Task : Abstract!Step(t)
  <2> SUFFICES ASSUME NEW t \in Task PROVE Abstract!Step(t)
    OBVIOUS
  <2>1. UNCHANGED answer
    BY <1>4 DEF Dequeue
  <2>2. CASE t \in S
    <3>1. /\ Claimable(tasks[t])
          /\ Poisoned(tasks[t]) \/ tasks[t].attempts < MaxDeliveries
          /\ tasks[t].reclaims < PoisonThreshold
          /\ tasks'[t] = Taken(tasks[t])
      BY <1>4, <2>2 DEF Dequeue, Claimable, QueueInv, PoisonBudget
    <3>2. tasks[t].state \in {"PENDING", "LEASED"}
      BY <3>1 DEF Claimable
    <3>3. CASE Poisoned(tasks[t])
      <4>1. /\ tasks[t].state = "LEASED"
            /\ tasks'[t].state = "QUARANTINED"
            /\ tasks'[t].attempts = tasks[t].attempts
        BY <1>2, <3>1, <3>3, TakenShape DEF Poisoned
      <4>2. QED
        BY <2>1, <4>1, UnansweredMove DEF TaskState
    <3>4. CASE ~Poisoned(tasks[t])
      <4>1. tasks'[t].state = "LEASED" /\ tasks'[t].attempts = tasks[t].attempts + 1
        BY <1>2, <3>1, <3>4, TakenShape
      <4>2. QED
        BY <1>2, <2>1, <3>2, <4>1, UnansweredMove DEF TaskState
    <3>5. QED
      BY <3>3, <3>4
  <2>3. CASE t \notin S
    <3>1. tasks'[t] = tasks[t]
      BY <1>4, <2>3 DEF Dequeue
    <3>2. QED
      BY <1>2, <2>1, <3>1, UnansweredMove
  <2>4. QED
    BY <2>2, <2>3
<1>5. ASSUME NEW S \in SUBSET Task, Reclaim(S) \/ Withdraw(S)
      PROVE  \A t \in Task : Abstract!Step(t)
  <2> SUFFICES ASSUME NEW t \in Task PROVE Abstract!Step(t)
    OBVIOUS
  <2>1. UNCHANGED answer
    BY <1>5 DEF Reclaim, Withdraw
  <2>2. CASE t \in S /\ Reclaim(S)
    <3>1. /\ tasks[t].state = "LEASED"
          /\ tasks[t].reclaims < PoisonThreshold
          /\ tasks'[t] = ReclaimedRow(tasks[t])
      BY <2>2 DEF Reclaim, Expired, QueueInv, PoisonBudget
    <3>2. /\ tasks'[t].state \in {"PENDING", "QUARANTINED"}
          /\ tasks'[t].attempts = tasks[t].attempts
      BY <1>2, <3>1, ReclaimedRowShape
    <3>3. QED
      BY <2>1, <3>1, <3>2, UnansweredMove DEF TaskState
  <2>3. CASE t \in S /\ Withdraw(S)
    <3>1. /\ tasks[t].state = "PENDING"
          /\ tasks'[t].state = "COMPLETED"
          /\ tasks'[t].attempts = tasks[t].attempts
      BY <1>2, <2>3, CompletedRowShape DEF Withdraw
    <3>2. QED
      BY <2>1, <3>1, UnansweredMove DEF TaskState
  <2>4. CASE t \notin S
    <3>1. tasks'[t] = tasks[t]
      BY <1>5, <2>4 DEF Reclaim, Withdraw
    <3>2. QED
      BY <1>2, <2>1, <3>1, UnansweredMove
  <2>5. QED
    BY <1>5, <2>2, <2>3, <2>4
<1>6. ASSUME NEW d \in Delivery, Ack(d)
      PROVE  \A t \in Task : Abstract!Step(t)
  <2>1. d[1] \in Task
    BY DEF Delivery
  <2>2. QED
    BY <1>2, <1>6, <2>1, CompletedRowShape, SettleRefines DEF Ack
<1>7. ASSUME NEW d \in Delivery, Quarantine(d)
      PROVE  \A t \in Task : Abstract!Step(t)
  <2>1. d[1] \in Task
    BY DEF Delivery
  <2>2. QED
    BY <1>2, <1>7, <2>1, ParkedRowShape, SettleRefines DEF Quarantine
<1>8. ASSUME NEW d \in Delivery, NEW delay \in 0..MaxDelay, Nack(d, delay)
      PROVE  \A t \in Task : Abstract!Step(t)
  <2>1. d[1] \in Task
    BY DEF Delivery
  <2>2. QED
    BY <1>2, <1>8, <2>1, NackedRowShape, SettleRefines DEF Nack
<1>9. ASSUME NEW s \in Task, ReleaseQuarantined(s)
      PROVE  \A t \in Task : Abstract!Step(t)
  <2>1. /\ tasks[s].state = "QUARANTINED"
        /\ tasks[s].lease = NoLease
        /\ tasks' = [tasks EXCEPT ![s] = ReleasedRow(tasks[s])]
        /\ UNCHANGED answer
    BY <1>9 DEF ReleaseQuarantined, QueueInv, LeaseShape
  <2>2. tasks'[s].state = "PENDING" /\ tasks'[s].attempts = tasks[s].attempts
    BY <1>1, <1>2, <2>1, ReleasedRowShape
  <2>3. QED
    BY <1>1, <1>2, <2>1, <2>2, UnansweredMove DEF TaskState
<1>10. CASE Tick \/ \E d \in Delivery : Extend(d)
  <2>1. CASE Tick
    <3>1. ASSUME NEW t \in Task
          PROVE  /\ tasks'[t].state = tasks[t].state
                 /\ tasks'[t].attempts = tasks[t].attempts
      <4>1. tasks'[t] = [tasks[t] EXCEPT !.wait = IF @ > 0 THEN @ - 1 ELSE 0]
        BY <2>1 DEF Tick
      <4>2. QED
        BY <1>1, <4>1 DEF TaskRow
    <3>2. UNCHANGED answer
      BY <2>1 DEF Tick
    <3>3. QED
      BY <1>2, <3>1, <3>2, UnansweredMove
  <2>2. ASSUME NEW d \in Delivery, Extend(d)
        PROVE  \A t \in Task : Abstract!Step(t)
    <3>1. tasks' = [tasks EXCEPT ![d[1]].wait = VisibilityTimeout] /\ UNCHANGED answer
      BY <2>2 DEF Extend
    <3>2. ASSUME NEW t \in Task
          PROVE  /\ tasks'[t].state = tasks[t].state
                 /\ tasks'[t].attempts = tasks[t].attempts
      BY <1>1, <3>1 DEF TaskRow
    <3>3. QED
      BY <1>2, <3>1, <3>2, UnansweredMove
  <2>3. QED
    BY <1>10, <2>1, <2>2
<1>11. QED
  BY <1>3, <1>4, <1>5, <1>6, <1>7, <1>8, <1>9, <1>10 DEF Next

(* Every statement on the tasks table is one the promise of TaskDelivery    *)
(* allows: the queue implements it.                                         *)
THEOREM QueueKeepsPromise == Spec => KeepsPromise
<1>1. Init => Abstract!Init
  BY InitRefines
<1>2. ASSUME QueueInv, QueueInv', Next
      PROVE  Abstract!Next
  <2>1. [t \in Task |-> StatusOf(tasks[t])]' \in
          [Task -> {"absent", "open", "out", "closed", "parked"}]
    BY <1>2 DEF QueueInv, TypeOK, TaskRow, TaskState, StatusOf
  <2>2. [t \in Task |-> tasks[t].attempts]' \in [Task -> Nat]
    BY <1>2, QueueAssumption DEF QueueInv, TypeOK, TaskRow
  <2>3. answer' \in [Abstract!Delivery -> {"none", "acked", "nacked", "parked"}]
    BY <1>2 DEF QueueInv, TypeOK, Delivery, Abstract!Delivery
  <2>4. QED
    BY <1>2, <2>1, <2>2, <2>3, StepRefines DEF Abstract!Next
<1>3. QueueInv /\ QueueInv' /\ [Next]_queueVars => [Abstract!Next]_(Abstract!vars)
  BY <1>2 DEF queueVars, Abstract!vars
<1>4. QED
  BY <1>1, <1>3, QueueInvariant, PTL DEF Spec, KeepsPromise, Abstract!Spec

-----------------------------------------------------------------------------
(* The workers                                                              *)


(* The delays the workers nack with are delays the queue allows.            *)
LEMMA DelaysAllowed == 0 \in 0..MaxDelay /\ NackDelay \in 0..MaxDelay
BY QueueAssumption, PoolAssumption DEF QueueAssumption, PoolAssumption

(* An action of the pool takes a step of the table, or none.                *)
LEMMA PoolStep ==
  ASSUME PoolNext
  PROVE Next \/ UNCHANGED queueVars
<1> USE DEF Next
<1>1. ASSUME NEW t \in Task, Submit(t) \/ OperatorReleases(t) PROVE Next
  BY <1>1, DelaysAllowed DEF Submit, OperatorReleases
<1>2. ASSUME NEW w \in Worker,
             \/ Start(w) \/ Launch(w) \/ Crash(w)
             \/ Stop(w) \/ Drain(w) \/ Drained(w) \/ DropStragglers(w) \/ Stopped(w)
             \/ ReleaseWorker(w)
      PROVE UNCHANGED queueVars
  BY <1>2 DEF Start, Launch, Crash, Stop, Drain, Drained, DropStragglers, Stopped,
              ReleaseWorker, queueVars
<1>3. ASSUME NEW w \in Worker, NEW S \in SUBSET Task, Poll(w, S) \/ PollFails(w, S)
      PROVE Next
  BY <1>3 DEF Poll, PollFails
<1>4. ASSUME NEW w \in Worker, NEW d \in Delivery, ReleaseUnstarted(w, d) \/ DropNack(w, d)
      PROVE Next \/ UNCHANGED queueVars
  BY <1>4, DelaysAllowed DEF ReleaseUnstarted, DropNack, queueVars
<1>5. ASSUME NEW d \in Delivery, Beat(d) \/ BeatFails(d)
      PROVE Next \/ UNCHANGED queueVars
  BY <1>5 DEF Beat, BeatFails, queueVars
<1>6. ASSUME NEW d \in Delivery,
             Returns(d) \/ Throws(d) \/ ThrowsPark(d) \/ SettleFails(d) \/ UpdateClaim(d)
      PROVE UNCHANGED queueVars
  BY <1>6 DEF Returns, Throws, ThrowsPark, HandlerEnds, SettleFails, UpdateClaim, queueVars
<1>7. ASSUME NEW d \in Delivery, Settles(d) PROVE Next
  BY <1>7, DelaysAllowed DEF Settles, SettleCall
<1>8. ASSUME NEW S \in SUBSET Task, JanitorReclaims(S) PROVE Next
  BY <1>8 DEF JanitorReclaims
<1>9. ASSUME TimePasses PROVE Next \/ UNCHANGED queueVars
  BY <1>9 DEF TimePasses
<1>10. ASSUME RunEnds PROVE Next
  <2>1. Withdraw({t \in Task : tasks[t].state = "PENDING"})
    BY <1>10 DEF RunEnds
  <2>2. {t \in Task : tasks[t].state = "PENDING"} \in SUBSET Task
    OBVIOUS
  <2>3. QED
    BY <2>1, <2>2
<1> HIDE DEF Next
<1>11. QED
  BY <1>1, <1>2, <1>3, <1>4, <1>5, <1>6, <1>7, <1>8, <1>9, <1>10 DEF PoolNext

(* The pool implements the queue's specification (worker.ts against         *)
(* task-queue.ts).                                                          *)
THEOREM PoolUsesQueue == PoolSpec => Spec
<1>1. PoolInit => Init
  BY DEF PoolInit
<1>2. [PoolNext]_vars => [Next]_queueVars
  BY PoolStep DEF vars, queueVars
<1>3. QED
  BY <1>1, <1>2, PTL DEF PoolSpec, Spec

(* In the pool too, only the newest delivery of a task can settle it, and   *)
(* an accepted ack is final.                                                *)
THEOREM PoolNewestHolds == PoolSpec => [](OnlyNewestHolds /\ AckedStaysDone)
BY PoolUsesQueue, NewestHolds, AckIsFinal, PTL

(* Workers, crashes and the janitor together keep the promise of            *)
(* TaskDelivery.                                                            *)
THEOREM PoolKeepsPromise == PoolSpec => KeepsPromise
BY PoolUsesQueue, QueueKeepsPromise, PTL

-----------------------------------------------------------------------------
(* The inductive invariant. *)

(* Who runs a delivery was handed it: a worker only works on tasks it       *)
(* leased (worker.ts pollLoop).                                             *)
RunHanded == \A d \in Delivery : run[d].phase # "none" => Handed(d)

(* A map names deliveries that were launched and are not through.           *)
EntriesRun ==
  \A w \in Worker : \A t \in Entries(w) :
    run[<<t, inFlight[w][t]>>].phase \notin {"none", "reply"}

(* stop waits for what was launched, and has aborted what it drops.         *)
DrainShape ==
  \A w \in Worker : \A d \in drain[w] :
    /\ Handed(d)
    /\ run[d].phase # "reply"
    /\ mode[w] = "dropping" => ~Beating(d)

PoolInv ==
  /\ QueueInv
  /\ PoolTypeOK
  /\ RunHanded
  /\ EntriesRun
  /\ DrainShape

-----------------------------------------------------------------------------
(* What the statements of the table do to what others know. *)

(* A token is handed out once and stays: a later statement never takes the  *)
(* delivery back.                                                           *)
LEMMA HandedStays ==
  ASSUME QueueInv, Next \/ UNCHANGED queueVars, NEW d \in Delivery, Handed(d)
  PROVE  Handed(d)'
<1>1. CASE UNCHANGED token
  BY <1>1 DEF Handed, NoLease
<1>2. ASSUME NEW S \in SUBSET Task, Dequeue(S) PROVE Handed(d)'
  <2>1. d \notin HandedOut(S)
    BY DEF HandedOut, QueueInv, TokenShape, TypeOK, TaskRow, Handed, Delivery
  <2>2. token'[d] = token[d]
    BY <1>2, <2>1 DEF Dequeue
  <2>3. QED
    BY <2>2 DEF Handed, NoLease
<1>3. (\E S \in SUBSET Task : Dequeue(S)) \/ UNCHANGED token
  BY DEF Next, Enqueue, Reclaim, Withdraw, Ack, Nack, Quarantine, Settle, Extend,
         ReleaseQuarantined, Tick, queueVars
<1>4. QED
  BY <1>1, <1>2, <1>3

(* What a dequeue hands out was never handed out before, and is now.        *)
LEMMA FreshDeliveries ==
  ASSUME QueueInv, NEW S \in SUBSET Task, Dequeue(S), NEW d \in HandedOut(S)
  PROVE  /\ d \in Delivery
         /\ ~Handed(d)
         /\ Handed(d)'
         /\ HoldsLease(d)'
         /\ tasks'[d[1]].wait = VisibilityTimeout
<1>1. PICK t \in S : d = <<t, tasks[t].attempts + 1>> /\ ~Poisoned(tasks[t])
  BY DEF HandedOut
<1>2. tasks[t] \in TaskRow /\ tasks[t].attempts < MaxDeliveries /\ tasks[t].attempts \in Nat
  BY <1>1, QueueAssumption DEF Dequeue, QueueInv, TypeOK, TaskRow
<1>3. d \in Delivery
  BY <1>1, <1>2, QueueAssumption DEF Delivery
<1>4. ~Handed(d)
  BY <1>1, <1>2, <1>3 DEF QueueInv, TokenShape, Handed
<1>5. tasks'[t] = LeasedRow(tasks[t]) /\ token'[d] = LeasedRow(tasks[t]).lease
  BY <1>1, <1>3 DEF Dequeue, Taken
<1>6. /\ tasks'[t].state = "LEASED"
      /\ tasks'[t].lease = tasks[t].attempts + 1
      /\ tasks'[t].wait = VisibilityTimeout
      /\ token'[d] = tasks[t].attempts + 1
  BY <1>2, <1>5 DEF LeasedRow, TaskRow
<1>7. QED
  BY <1>1, <1>2, <1>3, <1>4, <1>6 DEF Handed, HoldsLease, NoLease

(* The statements other parties may send while d is out.                    *)
OthersCall(d) ==
  \/ UNCHANGED queueVars
  \/ \E t \in Task, delay \in 0..MaxDelay : Enqueue(t, delay)
  \/ \E S \in SUBSET Task : Dequeue(S) \/ Reclaim(S) \/ Withdraw(S)
  \/ \E t \in Task : ReleaseQuarantined(t)
  \/ \E e \in Delivery \ {d} : Ack(e) \/ Quarantine(e) \/ Extend(e)
  \/ \E e \in Delivery \ {d}, delay \in 0..MaxDelay : Nack(e, delay)

(* A live lease is its holder's alone: until the clock moves, no statement  *)
(* of anybody else takes it away or shortens it (task-queue.ts, dequeue     *)
(* takes a leased row only when visible_at has passed).                     *)
LEMMA LeaseUntouched ==
  ASSUME QueueInv, NEW d \in Delivery, Handed(d), HoldsLease(d), tasks[d[1]].wait > 0,
         OthersCall(d)
  PROVE  HoldsLease(d)' /\ tasks'[d[1]].wait = tasks[d[1]].wait
<1> DEFINE t0 == d[1]
<1>1. /\ t0 \in Task
      /\ tasks \in [Task -> TaskRow] /\ tasks[t0].wait \in Nat
      /\ tasks[t0].state = "LEASED" /\ tasks[t0].lease = token[d]
  BY QueueAssumption, Waits DEF Delivery, QueueInv, TypeOK, TaskRow, HoldsLease
<1>2. ASSUME tasks'[t0] = tasks[t0], token'[d] = token[d]
      PROVE  HoldsLease(d)' /\ tasks'[t0].wait = tasks[t0].wait
  BY <1>1, <1>2 DEF HoldsLease
<1>3. CASE UNCHANGED queueVars
  BY <1>2, <1>3 DEF queueVars
<1>4. ASSUME NEW t \in Task, NEW delay \in 0..MaxDelay, Enqueue(t, delay)
      PROVE  tasks'[t0] = tasks[t0] /\ token'[d] = token[d]
  BY <1>1, <1>4 DEF Enqueue
<1>5. ASSUME NEW S \in SUBSET Task, Dequeue(S)
      PROVE  tasks'[t0] = tasks[t0] /\ token'[d] = token[d]
  BY <1>1, <1>5 DEF Dequeue, Claimable, HandedOut
<1>6. ASSUME NEW S \in SUBSET Task, Reclaim(S) \/ Withdraw(S)
      PROVE  tasks'[t0] = tasks[t0] /\ token'[d] = token[d]
  BY <1>1, <1>6 DEF Reclaim, Withdraw, Expired
<1>7. ASSUME NEW t \in Task, ReleaseQuarantined(t)
      PROVE  tasks'[t0] = tasks[t0] /\ token'[d] = token[d]
  BY <1>1, <1>7 DEF ReleaseQuarantined
<1>8. ASSUME NEW e \in Delivery, e # d, NEW row, NEW call, Settle(e, row, call)
      PROVE  tasks'[t0] = tasks[t0] /\ token'[d] = token[d]
  <2>1. CASE e[1] # t0
    BY <1>1, <1>8, <2>1 DEF Settle, Delivery
  <2>2. CASE e[1] = t0
    <3>1. ~HoldsLease(e)
      BY <1>8, <2>2, HolderIsNewest DEF Settle, Delivery
    <3>2. QED
      BY <1>8, <3>1 DEF Settle
  <2>3. QED
    BY <2>1, <2>2
<1>9. ASSUME NEW e \in Delivery, e # d, Extend(e)
      PROVE  tasks'[t0] = tasks[t0] /\ token'[d] = token[d]
  <2>1. e[1] # t0
    BY <1>9, HolderIsNewest DEF Extend, CanExtend, Delivery
  <2>2. QED
    BY <1>1, <1>9, <2>1 DEF Extend, Delivery
<1>10. QED
  BY <1>2, <1>3, <1>4, <1>5, <1>6, <1>7, <1>8, <1>9 DEF OthersCall, Ack, Nack, Quarantine

-----------------------------------------------------------------------------
(* What a step does to what a worker runs. *)

(* A delivery on its way through a worker: polled when it was never handed  *)
(* out, launched from the answer by a worker that still runs, and never an  *)
(* answer again.                                                            *)
Polled(d) ==
  \E w \in Worker, S \in SUBSET Task :
    Poll(w, S) /\ d \in HandedOut(S) /\ run'[d].at = w

Moves(d) ==
  \/ run'[d].phase = "none"
  \/ Polled(d) /\ ~Handed(d) /\ Handed(d)' /\ run'[d].phase = "reply"
  \/ /\ run[d].phase = "reply"
     /\ run'[d].phase = "running"
     /\ run'[d].at = run[d].at
     /\ \E w \in Worker : Launch(w) /\ run[d].at = w
  \/ /\ run[d].phase # "none"
     /\ run'[d].at = run[d].at
     /\ run'[d].phase = "reply" <=> run[d].phase = "reply"
     /\ run'[d].phase = "running" => run[d].phase = "running"
     /\ run[d].aborted => run'[d].aborted
     /\ Beating(d)' => Beating(d)

(* The state of every worker has its shape. *)
WorkersTyped ==
  /\ mode \in [Worker -> {"idle", "running", "stopping", "draining", "dropping",
                          "stopped", "crashed"}]
  /\ run \in [Delivery -> RunningTask]
  /\ inFlight \in [Worker -> [Task -> 0..MaxDeliveries]]
  /\ drain \in [Worker -> SUBSET Delivery]
  /\ claim \in StickyClaim
  /\ faults \in 0..MaxFaults
  /\ crashes \in 0..MaxCrashes
  /\ late \in BOOLEAN

LEMMA TypeSplit ==
  PoolTypeOK <=>
    /\ TypeOK
    /\ WorkersTyped
    /\ \A w \in Worker : \A t \in Entries(w) : run[<<t, inFlight[w][t]>>].at = w
BY DEF PoolTypeOK, WorkersTyped

(* Timers and flags of a RunningTask stay in their ranges. *)
LEMMA RunPart ==
  ASSUME NEW r \in RunningTask
  PROVE  /\ \A w \in Worker, p \in Phase : [[r EXCEPT !.at = w] EXCEPT !.phase = p] \in RunningTask
         /\ \A n \in 0..HeartbeatInterval : [r EXCEPT !.beat = n] \in RunningTask
         /\ \A n \in 0..VisibilityTimeout : [r EXCEPT !.fresh = n] \in RunningTask
         /\ \A p \in Phase : [r EXCEPT !.phase = p] \in RunningTask
         /\ \A a \in BOOLEAN : [r EXCEPT !.aborted = a] \in RunningTask
         /\ \A a \in BOOLEAN : [r EXCEPT !.dropped = a] \in RunningTask
<1>1. \A n \in 0..HeartbeatInterval : [r EXCEPT !.beat = n] \in RunningTask
  BY DEF RunningTask
<1>2. \A n \in 0..VisibilityTimeout : [r EXCEPT !.fresh = n] \in RunningTask
  BY DEF RunningTask
<1>3. \A p \in Phase : [r EXCEPT !.phase = p] \in RunningTask
  BY DEF RunningTask
<1>4. \A a \in BOOLEAN : [r EXCEPT !.aborted = a] \in RunningTask
  BY DEF RunningTask
<1>5. \A a \in BOOLEAN : [r EXCEPT !.dropped = a] \in RunningTask
  BY DEF RunningTask
<1>6. \A w \in Worker, p \in Phase : [[r EXCEPT !.at = w] EXCEPT !.phase = p] \in RunningTask
  <2> TAKE w \in Worker
  <2>1. [r EXCEPT !.at = w] \in RunningTask
    BY DEF RunningTask
  <2>2. QED
    BY <2>1 DEF RunningTask
<1>7. QED
  BY <1>1, <1>2, <1>3, <1>4, <1>5, <1>6

LEMMA RunParts ==
  ASSUME NEW r \in RunningTask
  PROVE  /\ \A n \in 0..HeartbeatInterval, m \in 0..VisibilityTimeout :
              [r EXCEPT !.beat = n, !.fresh = m] \in RunningTask
         /\ [r EXCEPT !.aborted = TRUE, !.beat = 0, !.fresh = 0] \in RunningTask
         /\ [r EXCEPT !.aborted = TRUE, !.dropped = TRUE, !.beat = 0, !.fresh = 0]
              \in RunningTask
         /\ \A call \in Phase : [r EXCEPT !.phase = call, !.beat = 0, !.fresh = 0] \in RunningTask
         /\ [r EXCEPT !.beat = Countdown(@), !.fresh = Countdown(@)] \in RunningTask
<1> DEFINE Timed(q, n, m) == [q EXCEPT !.beat = n, !.fresh = m]
<1>1. \A q \in RunningTask, n \in 0..HeartbeatInterval, m \in 0..VisibilityTimeout :
        Timed(q, n, m) \in RunningTask
  <2> TAKE q \in RunningTask, n \in 0..HeartbeatInterval, m \in 0..VisibilityTimeout
  <2>1. [q EXCEPT !.beat = n] \in RunningTask
    BY RunPart
  <2>2. [[q EXCEPT !.beat = n] EXCEPT !.fresh = m] \in RunningTask
    BY <2>1, RunPart
  <2>3. QED
    BY <2>2
<1>2. 0 \in 0..HeartbeatInterval /\ 0 \in 0..VisibilityTimeout
  BY PoolAssumption, QueueAssumption DEF PoolAssumption, QueueAssumption
<1>3. [r EXCEPT !.aborted = TRUE] \in RunningTask
  BY RunPart
<1>4. [[r EXCEPT !.aborted = TRUE] EXCEPT !.dropped = TRUE] \in RunningTask
  BY <1>3, RunPart
<1>5. Timed([r EXCEPT !.aborted = TRUE], 0, 0) \in RunningTask
  BY <1>1, <1>2, <1>3
<1>6. Timed([[r EXCEPT !.aborted = TRUE] EXCEPT !.dropped = TRUE], 0, 0) \in RunningTask
  BY <1>1, <1>2, <1>4
<1>7. \A call \in Phase : Timed([r EXCEPT !.phase = call], 0, 0) \in RunningTask
  BY <1>1, <1>2, RunPart
<1>8. Timed(r, Countdown(r.beat), Countdown(r.fresh)) \in RunningTask
  <2>1. /\ Countdown(r.beat) \in 0..HeartbeatInterval
        /\ Countdown(r.fresh) \in 0..VisibilityTimeout
    BY <1>2, PoolAssumption, QueueAssumption
       DEF Countdown, RunningTask, PoolAssumption, QueueAssumption
  <2>2. QED
    BY <1>1, <2>1
<1>9. QED
  BY <1>1, <1>5, <1>6, <1>7, <1>8

LEMMA RunStarts ==
  /\ NotRunning \in RunningTask
  /\ \A w \in Worker :
       /\ Started(w) \in RunningTask
       /\ [NotRunning EXCEPT !.at = w, !.phase = "reply"] \in RunningTask
<1> USE PoolAssumption, QueueAssumption DEF PoolAssumption, QueueAssumption, RunningTask, Phase
<1>1. NotRunning \in RunningTask
  BY DEF NotRunning
<1>2. \A w \in Worker : Started(w) \in RunningTask
  BY DEF Started
<1> HIDE DEF RunningTask
<1>5. \A w \in Worker : [NotRunning EXCEPT !.at = w, !.phase = "reply"] \in RunningTask
  <2> TAKE w \in Worker
  <2>1. [[NotRunning EXCEPT !.at = w] EXCEPT !.phase = "reply"] \in RunningTask
    BY <1>1, RunPart DEF Phase
  <2>2. QED
    BY <2>1
<1>4. QED
  BY <1>1, <1>2, <1>5

(* Every step keeps the shape of the workers. *)
LEMMA WorkersTypedStep ==
  ASSUME PoolInv, PoolNext
  PROVE  WorkersTyped'
<1> DEFINE Modes == {"idle", "running", "stopping", "draining", "dropping",
                     "stopped", "crashed"}
<1>1. /\ mode \in [Worker -> Modes]
      /\ run \in [Delivery -> RunningTask]
      /\ inFlight \in [Worker -> [Task -> 0..MaxDeliveries]]
      /\ drain \in [Worker -> SUBSET Delivery]
      /\ claim \in StickyClaim /\ faults \in 0..MaxFaults
      /\ crashes \in 0..MaxCrashes /\ late \in BOOLEAN
  BY DEF PoolInv, PoolTypeOK
<1> HIDE DEF Modes
<1>2. mode' \in [Worker -> Modes]
  <2>1. \/ UNCHANGED mode
        \/ \E w \in Worker, m \in Modes : mode' = [mode EXCEPT ![w] = m]
    BY DEF PoolNext, Submit, OperatorReleases, Start, Launch, Crash, Stop, Drain, Drained,
           DropStragglers, Stopped, ReleaseWorker, Poll, PollFails, ReleaseUnstarted,
           DropNack, Beat, BeatFails, Returns, Throws, ThrowsPark, HandlerEnds, Settles,
           SettleFails, UpdateClaim, JanitorReclaims, RunEnds, TimePasses, procVars, Modes
  <2>2. QED
    BY <1>1, <2>1
<1>3. run' \in [Delivery -> RunningTask]
  <2>1. ASSUME NEW d \in Delivery, NEW r \in RunningTask, run' = [run EXCEPT ![d] = r]
        PROVE  run' \in [Delivery -> RunningTask]
    BY <1>1, <2>1
  <2>2. ASSUME NEW w \in Worker, NEW S \in SUBSET Task, Poll(w, S)
        PROVE  run' \in [Delivery -> RunningTask]
    BY <1>1, <2>2, RunStarts DEF Poll
  <2>3. ASSUME NEW w \in Worker, Launch(w) \/ Crash(w)
        PROVE  run' \in [Delivery -> RunningTask]
    BY <1>1, <2>3, RunStarts DEF Launch, Crash
  <2>4. ASSUME NEW w \in Worker, DropStragglers(w)
        PROVE  run' \in [Delivery -> RunningTask]
    BY <1>1, <2>4, RunParts DEF DropStragglers
  <2>5. CASE TimePasses
    BY <1>1, <2>5, RunParts DEF TimePasses
  <2>6. ASSUME NEW w \in Worker, NEW d \in Delivery, ReleaseUnstarted(w, d)
        PROVE  run' \in [Delivery -> RunningTask]
    BY <2>1, <2>6, RunStarts DEF ReleaseUnstarted
  <2>7. ASSUME NEW d \in Delivery, Finish(d) PROVE run' \in [Delivery -> RunningTask]
    BY <2>1, <2>7, RunStarts DEF Finish
  <2>8. ASSUME NEW d \in Delivery, NEW call \in Phase, HandlerEnds(d, call)
        PROVE  run' \in [Delivery -> RunningTask]
    <3>1. \/ Finish(d)
          \/ run' = [run EXCEPT ![d] = [run[d] EXCEPT !.phase = call, !.beat = 0, !.fresh = 0]]
      BY <1>1, <2>8 DEF HandlerEnds
    <3>2. [run[d] EXCEPT !.phase = call, !.beat = 0, !.fresh = 0] \in RunningTask
      BY <1>1, RunParts
    <3>3. QED
      BY <2>1, <2>7, <3>1, <3>2
  <2>9. ASSUME NEW d \in Delivery, Beat(d) \/ BeatFails(d)
        PROVE  run' \in [Delivery -> RunningTask]
    <3>1. /\ VisibilityTimeout \in 0..VisibilityTimeout
          /\ HeartbeatInterval \in 0..HeartbeatInterval
          /\ run[d].fresh \in 0..VisibilityTimeout
      BY <1>1, PoolAssumption, QueueAssumption DEF PoolAssumption, QueueAssumption, RunningTask
    <3>2. \/ run' = [run EXCEPT ![d] = [run[d] EXCEPT !.beat = HeartbeatInterval,
                                                      !.fresh = VisibilityTimeout]]
          \/ run' = [run EXCEPT ![d] = [run[d] EXCEPT !.beat = HeartbeatInterval,
                                                      !.fresh = run[d].fresh]]
          \/ run' = [run EXCEPT ![d] = [run[d] EXCEPT !.aborted = TRUE, !.beat = 0, !.fresh = 0]]
      BY <2>9 DEF Beat, BeatFails, KeepsBeating, LosesLease
    <3>3. /\ [run[d] EXCEPT !.beat = HeartbeatInterval, !.fresh = VisibilityTimeout] \in RunningTask
          /\ [run[d] EXCEPT !.beat = HeartbeatInterval, !.fresh = run[d].fresh] \in RunningTask
          /\ [run[d] EXCEPT !.aborted = TRUE, !.beat = 0, !.fresh = 0] \in RunningTask
      BY <1>1, <3>1, RunParts
    <3>4. QED
      BY <2>1, <3>2, <3>3
  <2>10. ASSUME UNCHANGED run PROVE run' \in [Delivery -> RunningTask]
    BY <1>1, <2>10
  <2>11. {"acking", "givingUp", "nacking", "parking"} \subseteq Phase
    BY DEF Phase
  <2>12. QED
    BY <2>2, <2>3, <2>4, <2>5, <2>6, <2>7, <2>8, <2>9, <2>10, <2>11
       DEF PoolNext, Submit, OperatorReleases, Start, Stop, Drain, Drained, Stopped,
           ReleaseWorker, PollFails, DropNack, Returns, Throws, ThrowsPark, Settles,
           SettleFails, UpdateClaim, JanitorReclaims, RunEnds, procVars
<1>4. inFlight' \in [Worker -> [Task -> 0..MaxDeliveries]]
  <2>1. NoEntry \in 0..MaxDeliveries
    BY QueueAssumption DEF QueueAssumption, NoEntry
  <2>2. ASSUME NEW w, NEW t, inFlight' = [inFlight EXCEPT ![w][t] = NoEntry]
        PROVE  inFlight' \in [Worker -> [Task -> 0..MaxDeliveries]]
    BY <1>1, <2>1, <2>2
  <2>3. ASSUME NEW w \in Worker, Launch(w)
        PROVE  inFlight' \in [Worker -> [Task -> 0..MaxDeliveries]]
    <3>1. \A t \in Task : (\E d \in At(w, {"reply"}) : d[1] = t) =>
            (CHOOSE d \in At(w, {"reply"}) : d[1] = t)[2] \in 0..MaxDeliveries
      BY QueueAssumption DEF At, Delivery, QueueAssumption
    <3>2. QED
      BY <1>1, <2>3, <3>1 DEF Launch
  <2>4. ASSUME NEW w \in Worker, Crash(w)
        PROVE  inFlight' \in [Worker -> [Task -> 0..MaxDeliveries]]
    BY <1>1, <2>1, <2>4 DEF Crash
  <2>5. ASSUME UNCHANGED inFlight PROVE inFlight' \in [Worker -> [Task -> 0..MaxDeliveries]]
    BY <1>1, <2>5
  <2>6. QED
    BY <2>2, <2>3, <2>4, <2>5
       DEF PoolNext, Submit, OperatorReleases, Start, Stop, Drain, Drained, DropStragglers,
           Stopped, ReleaseWorker, Poll, PollFails, ReleaseUnstarted, DropNack, Beat,
           BeatFails, Returns, Throws, ThrowsPark, HandlerEnds, Finish, Settles,
           SettleFails, UpdateClaim, JanitorReclaims, RunEnds, TimePasses, procVars
<1>5. drain' \in [Worker -> SUBSET Delivery]
  <2>1. ASSUME NEW w \in Worker, NEW D \in SUBSET Delivery, drain' = [drain EXCEPT ![w] = D]
        PROVE  drain' \in [Worker -> SUBSET Delivery]
    BY <1>1, <2>1
  <2>2. ASSUME NEW w \in Worker, Drain(w) PROVE drain' \in [Worker -> SUBSET Delivery]
    <3>1. {<<t, inFlight[w][t]>> : t \in Entries(w)} \in SUBSET Delivery
      BY <1>1, QueueAssumption DEF Entries, NoEntry, Delivery, QueueAssumption
    <3>2. QED
      BY <2>1, <2>2, <3>1 DEF Drain
  <2>3. ASSUME NEW w \in Worker, DropStragglers(w) PROVE drain' \in [Worker -> SUBSET Delivery]
    <3>1. {d \in drain[w] : inFlight[w][d[1]] # NoEntry} \in SUBSET Delivery
      BY <1>1
    <3>2. QED
      BY <2>1, <2>3, <3>1 DEF DropStragglers
  <2>4. ASSUME NEW w \in Worker, Drained(w) \/ Crash(w)
        PROVE  drain' \in [Worker -> SUBSET Delivery]
    BY <2>1, <2>4 DEF Drained, Crash
  <2>5. ASSUME NEW w \in Worker, NEW d \in Delivery, DropNack(w, d)
        PROVE  drain' \in [Worker -> SUBSET Delivery]
    BY <1>1, <2>5 DEF DropNack
  <2>6. ASSUME UNCHANGED drain PROVE drain' \in [Worker -> SUBSET Delivery]
    BY <1>1, <2>6
  <2>7. QED
    BY <2>2, <2>3, <2>4, <2>5, <2>6
       DEF PoolNext, Submit, OperatorReleases, Start, Launch, Stop, Stopped, ReleaseWorker,
           Poll, PollFails, ReleaseUnstarted, Beat, BeatFails, Returns, Throws, ThrowsPark,
           HandlerEnds, Settles, SettleFails, UpdateClaim, JanitorReclaims, RunEnds,
           TimePasses, procVars
<1>6. claim' \in StickyClaim
  <2>1. NoClaim \in StickyClaim
    BY PoolAssumption DEF PoolAssumption, NoClaim, StickyClaim
  <2>2. ASSUME NEW w \in Worker PROVE [by |-> w, left |-> StickyTimeout] \in StickyClaim
    BY PoolAssumption DEF PoolAssumption, StickyClaim
  <2>3. [claim EXCEPT !.by = Dead] \in StickyClaim
    BY <1>1 DEF StickyClaim
  <2>4. [claim EXCEPT !.left = Countdown(@)] \in StickyClaim
    BY <1>1, PoolAssumption DEF PoolAssumption, StickyClaim, Countdown
  <2>5. ASSUME NEW d \in Delivery, UpdateClaim(d) PROVE claim' \in StickyClaim
    <3>1. run[d].at \in Worker \/ run[d].at = Nobody
      BY <1>1 DEF RunningTask
    <3>2. [by |-> Nobody, left |-> StickyTimeout] \in StickyClaim
      BY PoolAssumption DEF PoolAssumption, StickyClaim
    <3>3. QED
      BY <1>1, <2>1, <2>2, <2>5, <3>1, <3>2 DEF UpdateClaim, Claimed, ClaimReleased
  <2>6. QED
    BY <1>1, <2>1, <2>3, <2>4, <2>5
       DEF PoolNext, Submit, OperatorReleases, Start, Launch, Crash, Stop, Drain, Drained,
           DropStragglers, Stopped, ReleaseWorker, Poll, PollFails, ReleaseUnstarted,
           DropNack, Beat, BeatFails, Returns, Throws, ThrowsPark, HandlerEnds, Settles,
           SettleFails, JanitorReclaims, RunEnds, TimePasses, procVars
<1>7. faults' \in 0..MaxFaults
  <2>1. UNCHANGED faults \/ Fault
    BY DEF PoolNext, Submit, OperatorReleases, Start, Launch, Crash, Stop, Drain, Drained,
           DropStragglers, Stopped, ReleaseWorker, Poll, PollFails, ReleaseUnstarted,
           DropNack, Beat, BeatFails, Returns, Throws, ThrowsPark, HandlerEnds, Settles,
           SettleFails, UpdateClaim, JanitorReclaims, RunEnds, TimePasses
  <2>2. QED
    BY <1>1, <2>1, PoolAssumption DEF Fault, PoolAssumption
<1>8. crashes' \in 0..MaxCrashes
  <2>1. UNCHANGED crashes \/ (crashes < MaxCrashes /\ crashes' = crashes + 1)
    BY DEF PoolNext, Submit, OperatorReleases, Start, Launch, Crash, Stop, Drain, Drained,
           DropStragglers, Stopped, ReleaseWorker, Poll, PollFails, ReleaseUnstarted,
           DropNack, Beat, BeatFails, Returns, Throws, ThrowsPark, HandlerEnds, Settles,
           SettleFails, UpdateClaim, JanitorReclaims, RunEnds, TimePasses
  <2>2. QED
    BY <1>1, <2>1, PoolAssumption DEF PoolAssumption
<1>9. late' \in BOOLEAN
  <2>1. UNCHANGED late \/ late' \in BOOLEAN
    BY <1>1 DEF PoolNext, Submit, OperatorReleases, Start, Launch, Crash, Stop, Drain, Drained,
           DropStragglers, Stopped, ReleaseWorker, Poll, PollFails, ReleaseUnstarted,
           DropNack, Beat, BeatFails, Returns, Throws, ThrowsPark, HandlerEnds, Settles,
           SettleFails, UpdateClaim, JanitorReclaims, RunEnds, TimePasses
  <2>2. QED
    BY <1>1, <2>1
<1>10. QED
  BY <1>2, <1>3, <1>4, <1>5, <1>6, <1>7, <1>8, <1>9 DEF WorkersTyped, Modes

(* A heartbeat changes timers and flags, and starts no other.               *)
LEMMA BeatMoves ==
  ASSUME run \in [Delivery -> RunningTask], NEW e \in Delivery, Beat(e) \/ BeatFails(e),
         NEW d \in Delivery
  PROVE  /\ run'[d].phase = run[d].phase
         /\ run'[d].at = run[d].at
         /\ run[d].aborted => run'[d].aborted
         /\ Beating(d)' => Beating(d)
<1> DEFINE Renewed(m) == [run[e] EXCEPT !.beat = HeartbeatInterval, !.fresh = m]
           Lost == [run[e] EXCEPT !.aborted = TRUE, !.beat = 0, !.fresh = 0]
<1>1. \/ \E m : run' = [run EXCEPT ![e] = Renewed(m)]
      \/ run' = [run EXCEPT ![e] = Lost]
  BY DEF Beat, BeatFails, KeepsBeating, LosesLease
<1>2. run[e] \in RunningTask
  OBVIOUS
<1>3. /\ Lost.phase = run[e].phase /\ Lost.at = run[e].at /\ Lost.aborted = TRUE
      /\ \A m : /\ Renewed(m).phase = run[e].phase /\ Renewed(m).at = run[e].at
                /\ Renewed(m).aborted = run[e].aborted
                /\ Renewed(m).dropped = run[e].dropped
  BY <1>2 DEF RunningTask
<1> HIDE DEF Renewed, Lost
<1>4. run'[d] = run[d] \/ (d = e /\ (run'[d] = Lost \/ \E m : run'[d] = Renewed(m)))
  BY <1>1
<1>5. QED
  BY <1>3, <1>4 DEF Beating

(* Every delivery takes its way through a worker.                           *)
LEMMA MoveStep ==
  ASSUME PoolInv, PoolNext, NEW d \in Delivery
  PROVE  Moves(d)
<1>1. /\ run \in [Delivery -> RunningTask]
      /\ run[d].phase # "none" => Handed(d)
  BY DEF PoolInv, PoolTypeOK, RunHanded
<1>2. NotRunning.phase = "none"
  BY DEF NotRunning
<1>3. ASSUME run'[d] = run[d] PROVE Moves(d)
  BY <1>3 DEF Moves, Beating
<1>4. ASSUME NEW e \in Delivery, NEW r, run' = [run EXCEPT ![e] = r], e # d
      PROVE  Moves(d)
  BY <1>1, <1>3, <1>4
<1>5. ASSUME NEW e \in Delivery, Finish(e) PROVE Moves(d)
  <2>1. CASE e = d
    BY <1>1, <1>2, <1>5, <2>1 DEF Finish, Moves
  <2>2. CASE e # d
    BY <1>4, <1>5, <2>2 DEF Finish
  <2>3. QED
    BY <2>1, <2>2
<1>6. ASSUME NEW w \in Worker, NEW S \in SUBSET Task, Poll(w, S) PROVE Moves(d)
  <2>1. CASE d \in HandedOut(S)
    <3>1. run'[d].phase = "reply"
      BY <1>6, <2>1 DEF Poll, NotRunning
    <3>2. ~Handed(d) /\ Handed(d)'
      BY <1>6, <2>1, FreshDeliveries DEF Poll, PoolInv
    <3>3. run'[d].at = w
      BY <1>6, <2>1 DEF Poll, NotRunning
    <3>4. QED
      BY <1>6, <2>1, <3>1, <3>2, <3>3 DEF Moves, Polled
  <2>2. CASE d \notin HandedOut(S)
    BY <1>3, <1>6, <2>2 DEF Poll
  <2>3. QED
    BY <2>1, <2>2
<1>7. ASSUME NEW w \in Worker, Launch(w) PROVE Moves(d)
  <2>1. CASE d \in At(w, {"reply"})
    <3>1. run[d].at = w /\ run[d].phase = "reply" /\ run'[d] = Started(w)
      BY <1>7, <2>1 DEF Launch, At
    <3>2. QED
      BY <1>7, <3>1 DEF Started, Moves
  <2>2. CASE d \notin At(w, {"reply"})
    BY <1>3, <1>7, <2>2 DEF Launch
  <2>3. QED
    BY <2>1, <2>2
<1>8. ASSUME NEW w \in Worker, Crash(w) PROVE Moves(d)
  <2>1. CASE run[d].at = w
    BY <1>2, <1>8, <2>1 DEF Crash, Moves
  <2>2. CASE run[d].at # w
    BY <1>3, <1>8, <2>2 DEF Crash
  <2>3. QED
    BY <2>1, <2>2
<1>9. ASSUME NEW w \in Worker, DropStragglers(w) PROVE Moves(d)
  <2>1. \/ run'[d] = run[d]
        \/ run'[d] = [run[d] EXCEPT !.aborted = TRUE, !.dropped = TRUE, !.beat = 0, !.fresh = 0]
    BY <1>9 DEF DropStragglers
  <2>2. ASSUME run'[d] = [run[d] EXCEPT !.aborted = TRUE, !.dropped = TRUE, !.beat = 0, !.fresh = 0]
        PROVE  Moves(d)
    <3>1. run[d] \in RunningTask
      BY <1>1
    <3>2. /\ run'[d].phase = run[d].phase
          /\ run'[d].at = run[d].at
          /\ run'[d].aborted = TRUE
          /\ run'[d].dropped = TRUE
      BY <2>2, <3>1 DEF RunningTask
    <3>3. ~Beating(d)'
      BY <3>2 DEF Beating
    <3>4. QED
      BY <3>2, <3>3 DEF Moves
  <2>3. QED
    BY <1>3, <2>1, <2>2
<1>10. ASSUME TimePasses PROVE Moves(d)
  <2>1. run'[d] = [run[d] EXCEPT !.beat = Countdown(@), !.fresh = Countdown(@)]
    BY <1>10 DEF TimePasses
  <2>2. QED
    BY <1>1, <2>1 DEF Moves, Beating, RunningTask
<1>11. ASSUME NEW w \in Worker, NEW e \in Delivery, ReleaseUnstarted(w, e) PROVE Moves(d)
  <2>1. CASE e = d
    BY <1>1, <1>2, <1>11, <2>1 DEF ReleaseUnstarted, Moves
  <2>2. CASE e # d
    BY <1>4, <1>11, <2>2 DEF ReleaseUnstarted
  <2>3. QED
    BY <2>1, <2>2
<1>12. ASSUME NEW e \in Delivery, Beat(e) \/ BeatFails(e) PROVE Moves(d)
  <2>1. run[e].phase = "running"
    BY <1>12 DEF Beat, BeatFails, BeatDue, Beating
  <2>2. CASE e = d
    BY <1>1, <1>12, <2>1, <2>2, BeatMoves DEF Moves
  <2>3. CASE e # d
    BY <1>4, <1>12, <2>3 DEF Beat, BeatFails, KeepsBeating, LosesLease
  <2>4. QED
    BY <2>2, <2>3
<1>13. ASSUME NEW e \in Delivery, NEW call \in {"acking", "nacking", "parking", "givingUp"},
              HandlerEnds(e, call)
       PROVE  Moves(d)
  <2>1. \/ Finish(e)
        \/ /\ run[e].phase = "running"
           /\ run' = [run EXCEPT ![e] = [run[e] EXCEPT !.phase = call, !.beat = 0, !.fresh = 0]]
    BY <1>13 DEF HandlerEnds
  <2>2. ASSUME run[e].phase = "running",
               run' = [run EXCEPT ![e] = [run[e] EXCEPT !.phase = call, !.beat = 0, !.fresh = 0]]
        PROVE  Moves(d)
    <3>1. CASE e = d
      BY <1>1, <2>2, <3>1 DEF Moves, Beating, RunningTask
    <3>2. CASE e # d
      BY <1>4, <2>2, <3>2
    <3>3. QED
      BY <3>1, <3>2
  <2>3. QED
    BY <1>5, <2>1, <2>2
<1>14. QED
  BY <1>3, <1>5, <1>6, <1>7, <1>8, <1>9, <1>10, <1>11, <1>12, <1>13
     DEF PoolNext, Submit, OperatorReleases, Start, Stop, Drain, Drained, Stopped,
         ReleaseWorker, PollFails, DropNack, Returns, Throws, ThrowsPark, Settles,
         SettleFails, UpdateClaim, JanitorReclaims, RunEnds, procVars

LEMMA QueueStep ==
  ASSUME PoolInv, PoolNext
  PROVE  QueueInv' /\ \A d \in Delivery : Handed(d) => Handed(d)'
<1>1. QueueInv /\ (Next \/ UNCHANGED queueVars)
  BY PoolStep DEF PoolInv
<1>2. QED
  BY <1>1, QueueInvNext, HandedStays

(* Nobody runs what it was not handed. *)
LEMMA RunHandedStep ==
  ASSUME PoolInv, PoolNext
  PROVE  RunHanded'
<1>1. \A d \in Delivery : Moves(d) /\ (Handed(d) => Handed(d)')
  BY MoveStep, QueueStep
<1>2. QED
  BY <1>1 DEF Moves, PoolInv, RunHanded

(* The map of a worker names what it runs: an entry goes with its handler,  *)
(* and a launch writes the entry of what it starts.                         *)
LEMMA EntriesStep ==
  ASSUME PoolInv, PoolNext, NEW w \in Worker, NEW t \in Task, inFlight'[w][t] # NoEntry
  PROVE  /\ run'[<<t, inFlight'[w][t]>>].at = w
         /\ run'[<<t, inFlight'[w][t]>>].phase \notin {"none", "reply"}
<1> DEFINE d == <<t, inFlight[w][t]>>
           Kept == /\ inFlight'[w][t] = inFlight[w][t]
                   /\ run'[d].at = run[d].at
                   /\ run'[d].phase \notin {"none", "reply"}
<1>1. /\ run \in [Delivery -> RunningTask]
      /\ inFlight \in [Worker -> [Task -> 0..MaxDeliveries]]
  BY DEF PoolInv, PoolTypeOK
<1>2. inFlight[w][t] # NoEntry =>
        /\ d \in Delivery
        /\ run[d].at = w
        /\ run[d].phase \notin {"none", "reply"}
        /\ Handed(d)
  <2>1. inFlight[w][t] # NoEntry => d \in Delivery
    BY <1>1, QueueAssumption DEF NoEntry, Delivery, QueueAssumption
  <2>2. QED
    BY <2>1 DEF PoolInv, PoolTypeOK, EntriesRun, RunHanded, Entries
<1>3. ASSUME Kept PROVE inFlight[w][t] # NoEntry /\ run'[d].at = w
  BY <1>2, <1>3
<1>4. SUFFICES Kept \/ (/\ <<t, inFlight'[w][t]>> \in Delivery
                        /\ run'[<<t, inFlight'[w][t]>>] = Started(w))
  BY <1>2, <1>3 DEF Started
<1>5. ASSUME inFlight'[w][t] = inFlight[w][t], run'[d].phase # "none" PROVE Kept
  <2>1. Moves(d)
    BY <1>2, <1>5, MoveStep
  <2>2. QED
    BY <1>2, <1>5, <2>1 DEF Moves
<1>6. ASSUME NEW e \in Delivery, Finish(e) PROVE Kept
  <2>1. inFlight' = [inFlight EXCEPT ![run[e].at][e[1]] = NoEntry]
    BY <1>6 DEF Finish
  <2>2. ~(w = run[e].at /\ t = e[1])
    BY <1>1, <2>1
  <2>3. inFlight'[w][t] = inFlight[w][t]
    BY <1>1, <2>1, <2>2
  <2>4. d # e
    BY <1>2, <2>2, <2>3
  <2>5. run'[d] = run[d]
    BY <1>1, <1>6, <2>3, <2>4, <1>2 DEF Finish
  <2>6. QED
    BY <1>2, <2>3, <2>5
<1>7. ASSUME NEW v \in Worker, Launch(v)
      PROVE  Kept \/ (/\ <<t, inFlight'[w][t]>> \in Delivery
                      /\ run'[<<t, inFlight'[w][t]>>] = Started(w))
  <2> DEFINE got == At(v, {"reply"})
  <2>1. CASE v = w /\ \E e \in got : e[1] = t
    <3>1. PICK e \in got : e[1] = t /\ e = CHOOSE x \in got : x[1] = t
      BY <2>1
    <3>2. e \in Delivery /\ e = <<t, e[2]>>
      BY <3>1 DEF At, Delivery
    <3>3. inFlight'[w][t] = e[2]
      BY <1>1, <1>7, <2>1, <3>1 DEF Launch
    <3>4. run'[e] = Started(w)
      BY <1>7, <2>1, <3>1, <3>2 DEF Launch
    <3>5. QED
      BY <3>2, <3>3, <3>4
  <2>2. CASE ~(v = w /\ \E e \in got : e[1] = t)
    <3>1. inFlight'[w][t] = inFlight[w][t]
      BY <1>1, <1>7, <2>2 DEF Launch
    <3>2. d \in Delivery /\ run[d].phase \notin {"none", "reply"}
      BY <1>2, <3>1
    <3>3. run'[d] = run[d]
      BY <1>7, <3>2 DEF Launch, At
    <3>4. QED
      BY <3>1, <3>2, <3>3
  <2>3. QED
    BY <2>1, <2>2
<1>8. ASSUME NEW v \in Worker, Crash(v) PROVE Kept
  <2>1. v # w
    BY <1>1, <1>8 DEF Crash
  <2>2. inFlight'[w][t] = inFlight[w][t]
    BY <1>1, <1>8, <2>1 DEF Crash
  <2>3. run'[d] = run[d]
    BY <1>2, <1>8, <2>1, <2>2 DEF Crash
  <2>4. QED
    BY <1>2, <2>2, <2>3
<1>9. ASSUME NEW v \in Worker, NEW e \in Delivery, DropNack(v, e) PROVE Kept
  <2>1. inFlight' = [inFlight EXCEPT ![v][e[1]] = NoEntry] /\ run' = run
    BY <1>9 DEF DropNack
  <2>2. inFlight'[w][t] = inFlight[w][t]
    BY <1>1, <2>1
  <2>3. QED
    BY <1>2, <2>1, <2>2
<1>10. ASSUME UNCHANGED <<run, inFlight>> PROVE Kept
  BY <1>2, <1>10
<1>11. ASSUME UNCHANGED inFlight, run'[d].phase # "none" PROVE Kept
  BY <1>5, <1>11
<1>12. ASSUME NEW v \in Worker, DropStragglers(v) PROVE Kept
  <2>1. d \in Delivery /\ run[d] \in RunningTask
    BY <1>1, <1>2, <1>12 DEF DropStragglers
  <2>2. run'[d].phase = run[d].phase
    BY <1>12, <2>1 DEF DropStragglers, RunningTask
  <2>3. QED
    BY <1>2, <1>11, <1>12, <2>2 DEF DropStragglers
<1>13. CASE TimePasses
  <2>1. d \in Delivery /\ run[d] \in RunningTask
    BY <1>1, <1>2, <1>13 DEF TimePasses
  <2>2. run'[d].phase = run[d].phase
    BY <1>13, <2>1 DEF TimePasses, RunningTask
  <2>3. QED
    BY <1>2, <1>11, <1>13, <2>2 DEF TimePasses
<1>14. ASSUME NEW v \in Worker, NEW S \in SUBSET Task, Poll(v, S) PROVE Kept
  <2>1. d \in Delivery /\ Handed(d)
    BY <1>2, <1>14 DEF Poll
  <2>2. d \notin HandedOut(S)
    BY <1>14, <2>1, FreshDeliveries DEF Poll, PoolInv
  <2>3. run'[d] = run[d]
    BY <1>14, <2>1, <2>2 DEF Poll
  <2>4. QED
    BY <1>2, <1>14, <2>3 DEF Poll
<1>15. ASSUME NEW v \in Worker, NEW e \in Delivery, ReleaseUnstarted(v, e) PROVE Kept
  <2>1. d \in Delivery /\ run[d].phase # "reply"
    BY <1>2, <1>15 DEF ReleaseUnstarted
  <2>2. run'[d] = run[d]
    BY <1>1, <1>15, <2>1 DEF ReleaseUnstarted, At
  <2>3. QED
    BY <1>2, <1>15, <2>2 DEF ReleaseUnstarted
<1>16. ASSUME NEW e \in Delivery, Beat(e) \/ BeatFails(e) PROVE Kept
  <2>1. d \in Delivery /\ run[d] \in RunningTask
    BY <1>1, <1>2, <1>16 DEF Beat, BeatFails
  <2>2. run'[d].phase = run[d].phase
    BY <1>1, <1>16, <2>1, BeatMoves
  <2>3. QED
    BY <1>2, <1>11, <1>16, <2>2 DEF Beat, BeatFails
<1>17. ASSUME NEW e \in Delivery, NEW call \in {"acking", "nacking", "parking", "givingUp"},
              HandlerEnds(e, call)
       PROVE  Kept
  <2>1. CASE run[e].aborted \/ run[e].dropped
    BY <1>6, <1>17, <2>1 DEF HandlerEnds
  <2>2. CASE ~(run[e].aborted \/ run[e].dropped)
    <3>1. d \in Delivery /\ run[d] \in RunningTask
      BY <1>1, <1>2, <1>17, <2>2 DEF HandlerEnds
    <3>2. run'[d].phase # "none"
      BY <1>1, <1>2, <1>17, <2>2, <3>1 DEF HandlerEnds, RunningTask
    <3>3. QED
      BY <1>11, <1>17, <2>2, <3>2 DEF HandlerEnds
  <2>3. QED
    BY <2>1, <2>2
<1>18. QED
  BY <1>6, <1>7, <1>8, <1>9, <1>10, <1>12, <1>13, <1>14, <1>15, <1>16, <1>17
     DEF PoolNext, Submit, OperatorReleases, Start, Stop, Drain, Drained, Stopped,
         ReleaseWorker, PollFails, Returns, Throws, ThrowsPark, Settles,
         SettleFails, UpdateClaim, JanitorReclaims, RunEnds, procVars

(* stop's list: what was launched when the drain began, less what it nacked. *)
LEMMA DrainStep ==
  ASSUME PoolInv, PoolNext
  PROVE  DrainShape'
<1> SUFFICES ASSUME NEW w \in Worker, NEW d \in drain'[w]
             PROVE  /\ Handed(d)'
                    /\ run'[d].phase # "reply"
                    /\ mode'[w] = "dropping" => ~Beating(d)'
  BY DEF DrainShape
<1>1. /\ run \in [Delivery -> RunningTask]
      /\ inFlight \in [Worker -> [Task -> 0..MaxDeliveries]]
      /\ drain \in [Worker -> SUBSET Delivery] /\ DOMAIN mode = Worker
  BY DEF PoolInv, PoolTypeOK
<1>2. WorkersTyped'
  BY WorkersTypedStep
<1>3. d \in Delivery
  BY <1>2 DEF WorkersTyped
<1>4. Moves(d) /\ (Handed(d) => Handed(d)')
  BY <1>3, MoveStep, QueueStep
<1>5. ASSUME Handed(d), run[d].phase # "reply"
      PROVE  /\ Handed(d)' /\ run'[d].phase # "reply"
             /\ ~Beating(d) => ~Beating(d)'
  BY <1>4, <1>5 DEF Moves, Beating
<1>6. ASSUME d \in drain[w], mode'[w] = "dropping" => mode[w] = "dropping"
      PROVE  /\ Handed(d)'
             /\ run'[d].phase # "reply"
             /\ mode'[w] = "dropping" => ~Beating(d)'
  <2>1. Handed(d) /\ run[d].phase # "reply" /\ (mode[w] = "dropping" => ~Beating(d))
    BY <1>6 DEF PoolInv, DrainShape
  <2>2. QED
    BY <1>5, <1>6, <2>1
<1>7. ASSUME NEW v \in Worker, Drain(v)
      PROVE  /\ Handed(d)'
             /\ run'[d].phase # "reply"
             /\ mode'[w] = "dropping" => ~Beating(d)'
  <2>1. CASE v = w
    <3>1. drain'[w] = {<<t, inFlight[w][t]>> : t \in Entries(w)} /\ mode'[w] = "draining"
      BY <1>1, <1>7, <2>1 DEF Drain
    <3>2. PICK t \in Entries(w) : d = <<t, inFlight[w][t]>>
      BY <3>1
    <3>3. run[d].phase \notin {"none", "reply"}
      BY <3>2 DEF PoolInv, EntriesRun
    <3>4. Handed(d)
      BY <1>3, <3>3 DEF PoolInv, RunHanded
    <3>5. QED
      BY <1>5, <3>1, <3>3, <3>4
  <2>2. CASE v # w
    BY <1>1, <1>6, <1>7, <2>2 DEF Drain
  <2>3. QED
    BY <2>1, <2>2
<1>8. ASSUME NEW v \in Worker, DropStragglers(v)
      PROVE  /\ Handed(d)'
             /\ run'[d].phase # "reply"
             /\ mode'[w] = "dropping" => ~Beating(d)'
  <2>1. CASE v = w
    <3>1. d \in drain[w] /\ drain'[w] = {e \in drain[w] : inFlight[w][e[1]] # NoEntry}
      BY <1>1, <1>8, <2>1 DEF DropStragglers
    <3>2. Handed(d) /\ run[d].phase # "reply"
      BY <3>1 DEF PoolInv, DrainShape
    <3>3. run'[d] = [run[d] EXCEPT !.aborted = TRUE, !.dropped = TRUE, !.beat = 0, !.fresh = 0]
      BY <1>3, <1>8, <2>1, <3>1 DEF DropStragglers
    <3>4. run[d] \in RunningTask
      BY <1>1, <1>3
    <3>5. run'[d].dropped = TRUE
      BY <3>3, <3>4 DEF RunningTask
    <3>6. QED
      BY <1>5, <3>2, <3>5 DEF Beating
  <2>2. CASE v # w
    BY <1>1, <1>6, <1>8, <2>2 DEF DropStragglers
  <2>3. QED
    BY <2>1, <2>2
<1>9. ASSUME NEW v \in Worker,
             \/ Drained(v) \/ Crash(v) \/ Start(v) \/ Stop(v) \/ Stopped(v)
             \/ \E e \in Delivery : DropNack(v, e)
      PROVE  d \in drain[w] /\ (mode'[w] = "dropping" => mode[w] = "dropping")
  BY <1>1, <1>9 DEF Drained, Crash, Start, Stop, Stopped, DropNack
<1>10. ASSUME UNCHANGED <<drain, mode>>
       PROVE  d \in drain[w] /\ (mode'[w] = "dropping" => mode[w] = "dropping")
  BY <1>10
<1>11. QED
  BY <1>6, <1>7, <1>8, <1>9, <1>10
     DEF PoolNext, Submit, OperatorReleases, Launch, ReleaseWorker, Poll, PollFails,
         ReleaseUnstarted, Beat, BeatFails, Returns, Throws, ThrowsPark, HandlerEnds,
         Settles, SettleFails, UpdateClaim, JanitorReclaims, RunEnds, TimePasses, procVars

-----------------------------------------------------------------------------
LEMMA PoolInvInit == PoolInit => PoolInv
<1> SUFFICES ASSUME PoolInit PROVE PoolInv
  OBVIOUS
<1>1. QueueInv
  BY QueueInvInit DEF PoolInit
<1>2. /\ mode = [w \in Worker |-> "idle"]
      /\ run = [d \in Delivery |-> NotRunning]
      /\ inFlight = [w \in Worker |-> [t \in Task |-> NoEntry]]
      /\ drain = [w \in Worker |-> {}]
      /\ claim = NoClaim /\ faults = 0 /\ crashes = 0 /\ late = FALSE
  BY DEF PoolInit
<1>3. WorkersTyped
  <2>1. claim \in StickyClaim
    BY <1>2, PoolAssumption DEF PoolAssumption, NoClaim, StickyClaim
  <2>2. run \in [Delivery -> RunningTask]
    BY <1>2, RunStarts
  <2>3. /\ faults \in 0..MaxFaults /\ crashes \in 0..MaxCrashes
        /\ inFlight \in [Worker -> [Task -> 0..MaxDeliveries]]
    BY <1>2, PoolAssumption, QueueAssumption DEF PoolAssumption, QueueAssumption, NoEntry
  <2>4. QED
    BY <1>2, <2>1, <2>2, <2>3 DEF WorkersTyped
<1>4. \A w \in Worker : Entries(w) = {}
  BY <1>2 DEF Entries
<1>5. RunHanded /\ DrainShape
  BY <1>2 DEF RunHanded, DrainShape, NotRunning
<1>6. QED
  BY <1>1, <1>3, <1>4, <1>5, TypeSplit DEF PoolInv, QueueInv, EntriesRun

LEMMA PoolInvNext == PoolInv /\ [PoolNext]_vars => PoolInv'
<1>1. ASSUME PoolInv, PoolNext PROVE PoolInv'
  <2>1. QueueInv' /\ WorkersTyped' /\ RunHanded' /\ DrainShape'
    BY <1>1, QueueStep, WorkersTypedStep, RunHandedStep, DrainStep
  <2>2. \A w \in Worker : \A t \in Entries(w)' :
          /\ run'[<<t, inFlight'[w][t]>>].at = w
          /\ run'[<<t, inFlight'[w][t]>>].phase \notin {"none", "reply"}
    BY <1>1, EntriesStep DEF Entries
  <2>3. PoolTypeOK'
    BY <2>1, <2>2 DEF PoolTypeOK, WorkersTyped, QueueInv
  <2>4. QED
    BY <2>1, <2>2, <2>3 DEF PoolInv, EntriesRun
<1>2. ASSUME PoolInv, UNCHANGED vars PROVE PoolInv'
  <2>1. UNCHANGED queueVars
    BY <1>2 DEF vars, queueVars
  <2>2. QueueInv'
    BY <1>2, <2>1, QueueInvNext DEF PoolInv
  <2>3. QED
    BY <1>2, <2>2 DEF vars, PoolInv, PoolTypeOK, TypeOK, RunHanded, EntriesRun, DrainShape,
       Handed, Entries, Beating
<1>3. QED
  BY <1>1, <1>2

(* The pool's invariant holds of every pool, and with it the shape of the   *)
(* state: a worker's map names what that worker runs (worker.ts, inFlight). *)
THEOREM PoolInvariant == PoolSpec => []PoolInv
<1>1. QED
  BY PoolInvInit, PoolInvNext, PTL DEF PoolSpec

THEOREM PoolTypeCorrect == PoolSpec => []PoolTypeOK
<1>1. PoolInv => PoolTypeOK
  BY DEF PoolInv
<1>2. QED
  BY <1>1, PoolInvariant, PTL

-----------------------------------------------------------------------------
(* Heartbeats keep leases. *)

(* Each failed heartbeat eats one interval of the lease; a live handler has *)
(* more left than the failures still possible can eat.  An answer that is   *)
(* read on time has its whole lease length left.                            *)
Reserve == HeartbeatInterval * (MaxFaults - faults)

LeaseKept ==
  ~late => \A d \in Delivery :
    /\ run[d].phase = "reply" =>
         HoldsLease(d) /\ tasks[d[1]].wait = VisibilityTimeout
    /\ Beating(d) =>
         HoldsLease(d) /\ tasks[d[1]].wait > run[d].beat + Reserve

(* The reserve is a number, and a failure takes one interval of it.         *)
LEMMA ReserveSpent ==
  ASSUME faults \in 0..MaxFaults
  PROVE  /\ Reserve \in Nat
         /\ Reserve <= HeartbeatInterval * MaxFaults
         /\ Fault => Reserve' \in Nat /\ Reserve' + HeartbeatInterval = Reserve
         /\ UNCHANGED faults => Reserve' = Reserve
<1> DEFINE left == MaxFaults - faults
<1>1. /\ HeartbeatInterval \in Nat /\ MaxFaults \in Nat /\ faults \in Nat
      /\ left \in Nat /\ left <= MaxFaults
  BY PoolAssumption DEF PoolAssumption
<1>2. \A h, m, n \in Nat : n <= m => h * n \in Nat /\ h * n <= h * m
  OBVIOUS
<1>3. \A h, n \in Nat : n > 0 => h * (n - 1) \in Nat /\ h * (n - 1) + h = h * n
  OBVIOUS
<1>4. Reserve \in Nat /\ Reserve <= HeartbeatInterval * MaxFaults
  BY <1>1, <1>2 DEF Reserve
<1>5. ASSUME Fault PROVE Reserve' \in Nat /\ Reserve' + HeartbeatInterval = Reserve
  <2>1. left > 0 /\ MaxFaults - faults' = left - 1
    BY <1>1, <1>5 DEF Fault
  <2>2. Reserve' = HeartbeatInterval * (left - 1) /\ Reserve = HeartbeatInterval * left
    BY <2>1 DEF Reserve
  <2> HIDE DEF left
  <2>3. QED
    BY <1>1, <1>3, <2>1, <2>2
<1>6. UNCHANGED faults => Reserve' = Reserve
  BY DEF Reserve
<1>7. QED
  BY <1>4, <1>5, <1>6

(* Neither a statement of somebody else, nor a failed heartbeat, nor a tick *)
(* that passes over nothing due brings a beating handler to the end of its  *)
(* lease.                                                                   *)
LEMMA LeaseStep ==
  ASSUME (MaxFaults + 1) * HeartbeatInterval < VisibilityTimeout,
         PoolInv, LeaseKept, PoolNext
  PROVE  LeaseKept'
<1> DEFINE Goal(d) ==
      /\ run'[d].phase = "reply" =>
           HoldsLease(d)' /\ tasks'[d[1]].wait = VisibilityTimeout
      /\ Beating(d)' =>
           HoldsLease(d)' /\ tasks'[d[1]].wait > run'[d].beat + Reserve'
<1> SUFFICES ASSUME ~late', NEW d \in Delivery PROVE Goal(d)
  BY DEF LeaseKept
<1>1. /\ QueueInv /\ tasks \in [Task -> TaskRow] /\ d[1] \in Task
      /\ run \in [Delivery -> RunningTask] /\ run[d] \in RunningTask
      /\ drain \in [Worker -> SUBSET Delivery]
      /\ faults \in 0..MaxFaults
      /\ run[d].phase # "none" => Handed(d)
  BY DEF PoolInv, PoolTypeOK, TypeOK, RunHanded, Delivery
<1>2. /\ tasks[d[1]].wait \in Nat
      /\ run[d].beat \in Nat
      /\ Reserve \in Nat
      /\ VisibilityTimeout \in Nat \ {0} /\ HeartbeatInterval \in Nat
      /\ VisibilityTimeout > HeartbeatInterval + Reserve
  <2>1. tasks[d[1]].wait \in Nat /\ run[d].beat \in Nat
    BY <1>1, Waits, QueueAssumption DEF TaskRow, RunningTask
  <2>2. \A h, m \in Nat : (m + 1) * h = h + h * m
    OBVIOUS
  <2>3. QED
    BY <1>1, <2>1, <2>2, ReserveSpent, PoolAssumption, QueueAssumption
       DEF PoolAssumption, QueueAssumption
<1>3. ~late
  BY DEF PoolInv, PoolTypeOK, PoolNext, Submit, OperatorReleases, Start, Launch, Crash, Stop,
         Drain, Drained, DropStragglers, Stopped, ReleaseWorker, Poll, PollFails,
         ReleaseUnstarted, DropNack, Beat, BeatFails, Returns, Throws, ThrowsPark,
         HandlerEnds, Settles, SettleFails, UpdateClaim, JanitorReclaims, RunEnds, TimePasses
<1>4. /\ run[d].phase = "reply" =>
           Handed(d) /\ HoldsLease(d) /\ tasks[d[1]].wait = VisibilityTimeout
      /\ Beating(d) =>
           Handed(d) /\ HoldsLease(d) /\ tasks[d[1]].wait > run[d].beat + Reserve
  BY <1>1, <1>3 DEF LeaseKept, Beating
<1>5. ASSUME run'[d].phase # "reply", ~Beating(d)' PROVE Goal(d)
  BY <1>5
<1>6. ASSUME UNCHANGED faults \/ Fault PROVE Reserve' \in Nat /\ Reserve' <= Reserve
  BY <1>1, <1>2, <1>6, ReserveSpent
<1>7. ASSUME run'[d] = run[d], OthersCall(d), UNCHANGED faults \/ Fault PROVE Goal(d)
  <2>1. CASE run[d].phase = "reply"
    <3>1. HoldsLease(d)' /\ tasks'[d[1]].wait = tasks[d[1]].wait
      BY <1>1, <1>2, <1>4, <1>7, <2>1, LeaseUntouched
    <3>2. QED
      BY <1>4, <1>7, <2>1, <3>1 DEF Beating
  <2>2. CASE Beating(d)
    <3>1. HoldsLease(d)' /\ tasks'[d[1]].wait = tasks[d[1]].wait
      BY <1>1, <1>2, <1>4, <1>7, <2>2, LeaseUntouched
    <3>2. tasks'[d[1]].wait > run'[d].beat + Reserve'
      BY <1>2, <1>4, <1>6, <1>7, <2>2, <3>1
    <3>3. run'[d].phase # "reply"
      BY <1>7, <2>2 DEF Beating
    <3>4. QED
      BY <3>1, <3>2, <3>3
  <2>3. CASE run[d].phase # "reply" /\ ~Beating(d)
    BY <1>5, <1>7, <2>3 DEF Beating
  <2>4. QED
    BY <2>1, <2>2, <2>3
<1>8. ASSUME NEW w \in Worker, NEW S \in SUBSET Task, Poll(w, S) PROVE Goal(d)
  <2>1. CASE d \in HandedOut(S)
    <3>1. HoldsLease(d)' /\ tasks'[d[1]].wait = VisibilityTimeout
      BY <1>1, <1>8, <2>1, FreshDeliveries DEF Poll
    <3>2. run'[d].phase = "reply"
      BY <1>8, <2>1 DEF Poll, NotRunning
    <3>3. QED
      BY <3>1, <3>2 DEF Beating
  <2>2. CASE d \notin HandedOut(S)
    BY <1>7, <1>8, <2>2 DEF Poll, OthersCall
  <2>3. QED
    BY <2>1, <2>2
<1>9. ASSUME NEW w \in Worker, Launch(w) PROVE Goal(d)
  <2>1. CASE d \in At(w, {"reply"})
    <3>1. run[d].phase = "reply" /\ run'[d] = Started(w)
      BY <1>9, <2>1 DEF Launch, At
    <3>2. HoldsLease(d)' /\ tasks'[d[1]].wait = VisibilityTimeout /\ Reserve' = Reserve
      BY <1>4, <1>9, <3>1 DEF Launch, queueVars, HoldsLease, Reserve
    <3>3. run'[d].beat = HeartbeatInterval /\ run'[d].phase = "running"
      BY <3>1 DEF Started
    <3>4. QED
      BY <1>2, <3>2, <3>3
  <2>2. CASE d \notin At(w, {"reply"})
    BY <1>7, <1>9, <2>2 DEF Launch, OthersCall
  <2>3. QED
    BY <2>1, <2>2
<1>10. ASSUME NEW e \in Delivery, Beat(e) \/ BeatFails(e) PROVE Goal(d)
  <2>1. CASE e # d
    <3>1. run'[d] = run[d]
      BY <1>1, <1>10, <2>1 DEF Beat, BeatFails, KeepsBeating, LosesLease
    <3>2. OthersCall(d) /\ (UNCHANGED faults \/ Fault)
      BY <1>10, <2>1 DEF Beat, BeatFails, OthersCall
    <3>3. QED
      BY <1>7, <3>1, <3>2
  <2>2. CASE e = d
    <3>1. /\ Beating(d) /\ run[d].phase = "running"
          /\ Handed(d) /\ HoldsLease(d) /\ tasks[d[1]].wait > 0
          /\ tasks[d[1]].wait > Reserve
      BY <1>2, <1>4, <1>10, <2>2 DEF Beat, BeatFails, BeatDue, Beating
    <3>2. run'[d].phase # "reply"
      BY <1>1, <1>10, <2>2, <3>1, BeatMoves
    <3>3. ASSUME Beating(d)'
          PROVE  HoldsLease(d)' /\ tasks'[d[1]].wait > run'[d].beat + Reserve'
      <4>1. run' # [run EXCEPT ![d] = [run[d] EXCEPT !.aborted = TRUE, !.beat = 0, !.fresh = 0]]
        <5>1. [run[d] EXCEPT !.aborted = TRUE, !.beat = 0, !.fresh = 0].aborted = TRUE
          BY <1>1 DEF RunningTask
        <5>2. run'[d].aborted # TRUE
          BY <3>3 DEF Beating
        <5>3. QED
          BY <1>1, <5>1, <5>2
      <4>2. PICK m : run' = [run EXCEPT ![d] = [run[d] EXCEPT !.beat = HeartbeatInterval,
                                                             !.fresh = m]]
        BY <1>10, <2>2, <4>1 DEF Beat, BeatFails, KeepsBeating, LosesLease
      <4>3. run'[d].beat = HeartbeatInterval
        BY <1>1, <4>2, SMTT(20) DEF RunningTask
      <4>4. ASSUME Extend(d)
            PROVE  HoldsLease(d)' /\ tasks'[d[1]].wait = VisibilityTimeout
        BY <1>1, <3>1, <4>4 DEF Extend, HoldsLease, TaskRow
      <4>5. CASE Beat(d)
        <5>1. Extend(d) /\ UNCHANGED faults
          BY <4>1, <4>5 DEF Beat, LosesLease
        <5>2. QED
          BY <1>2, <1>6, <4>3, <4>4, <5>1
      <4>6. CASE BeatFails(d)
        <5>1. Fault /\ (Extend(d) \/ UNCHANGED queueVars)
          BY <4>6 DEF BeatFails
        <5>2. Reserve' \in Nat /\ Reserve' + HeartbeatInterval = Reserve
          BY <1>1, <5>1, ReserveSpent
        <5>3. CASE Extend(d)
          BY <1>2, <4>3, <4>4, <5>2, <5>3
        <5>4. CASE UNCHANGED queueVars
          <6>1. HoldsLease(d)' /\ tasks'[d[1]].wait = tasks[d[1]].wait
            BY <3>1, <5>4 DEF HoldsLease, queueVars
          <6>2. tasks[d[1]].wait > HeartbeatInterval + Reserve'
            <7>1. \A a, r, s, h \in Nat : a > r /\ s + h = r => a > h + s
              OBVIOUS
            <7>2. QED
              BY <1>2, <3>1, <5>2, <7>1
          <6>3. QED
            BY <4>3, <6>1, <6>2
        <5>5. QED
          BY <5>1, <5>3, <5>4
      <4>7. QED
        BY <1>10, <2>2, <4>5, <4>6
    <3>4. QED
      BY <3>2, <3>3
  <2>3. QED
    BY <2>1, <2>2
<1>11. ASSUME TimePasses PROVE Goal(d)
  <2>1. /\ run'[d] = [run[d] EXCEPT !.beat = Countdown(@), !.fresh = Countdown(@)]
        /\ ~BeatDue(d) /\ run[d].phase # "reply"
        /\ UNCHANGED <<faults, token>>
    BY <1>3, <1>11 DEF TimePasses, Tick, queueVars
  <2>2. /\ run'[d].phase = run[d].phase /\ run'[d].beat = Countdown(run[d].beat)
        /\ run'[d].aborted = run[d].aborted /\ run'[d].dropped = run[d].dropped
    BY <1>1, <2>1 DEF RunningTask
  <2>3. ASSUME Beating(d)'
        PROVE  HoldsLease(d)' /\ tasks'[d[1]].wait > run'[d].beat + Reserve'
    <3>1. Beating(d) /\ run[d].beat > 0
      BY <1>2, <2>1, <2>2, <2>3 DEF Beating, BeatDue
    <3>2. HoldsLease(d) /\ tasks[d[1]].wait > run[d].beat + Reserve
      BY <1>4, <3>1
    <3>3. Tick
      <4>1. tasks[d[1]].wait # 0
        BY <1>2, <3>2
      <4>2. QED
        BY <1>1, <1>11, <4>1 DEF TimePasses
    <3>4. /\ tasks'[d[1]].wait = tasks[d[1]].wait - 1
          /\ tasks'[d[1]].state = tasks[d[1]].state
          /\ tasks'[d[1]].lease = tasks[d[1]].lease
      <4>1. tasks'[d[1]] = [tasks[d[1]] EXCEPT !.wait = IF @ > 0 THEN @ - 1 ELSE 0]
        BY <1>1, <3>3 DEF Tick
      <4>2. tasks[d[1]] \in TaskRow /\ tasks[d[1]].wait > 0
        BY <1>1, <1>2, <3>2
      <4>3. QED
        BY <4>1, <4>2 DEF TaskRow
    <3>5. HoldsLease(d)'
      BY <2>1, <3>2, <3>4 DEF HoldsLease
    <3>6. run'[d].beat = run[d].beat - 1 /\ Reserve' = Reserve
      BY <2>1, <2>2, <3>1 DEF Countdown, Reserve
    <3>7. QED
      BY <1>2, <3>2, <3>4, <3>5, <3>6
  <2>4. QED
    BY <2>1, <2>2, <2>3
<1>12. ASSUME NEW w \in Worker, Crash(w) PROVE Goal(d)
  <2>1. run'[d] = run[d] \/ run'[d] = NotRunning
    BY <1>12 DEF Crash
  <2>2. OthersCall(d) /\ UNCHANGED faults
    BY <1>12 DEF Crash, OthersCall
  <2>3. QED
    BY <1>5, <1>7, <2>1, <2>2 DEF NotRunning, Beating
<1>13. ASSUME NEW w \in Worker, DropStragglers(w) PROVE Goal(d)
  <2>1. OthersCall(d) /\ UNCHANGED faults
    BY <1>13 DEF DropStragglers, OthersCall
  <2>2. CASE d \in drain[w] /\ inFlight[w][d[1]] # NoEntry
    <3>1. run'[d] = [run[d] EXCEPT !.aborted = TRUE, !.dropped = TRUE, !.beat = 0, !.fresh = 0]
      BY <1>13, <2>2 DEF DropStragglers
    <3>2. run'[d].phase = run[d].phase /\ run'[d].dropped = TRUE
      BY <1>1, <3>1 DEF RunningTask
    <3>3. run[d].phase # "reply"
      BY <2>2 DEF PoolInv, DrainShape
    <3>4. QED
      BY <1>5, <3>2, <3>3 DEF Beating
  <2>3. CASE ~(d \in drain[w] /\ inFlight[w][d[1]] # NoEntry)
    BY <1>7, <1>13, <2>1, <2>3 DEF DropStragglers
  <2>4. QED
    BY <2>2, <2>3
<1>14. ASSUME NEW w \in Worker, NEW e \in Delivery, ReleaseUnstarted(w, e) PROVE Goal(d)
  <2>1. CASE e = d
    BY <1>1, <1>5, <1>14, <2>1 DEF ReleaseUnstarted, NotRunning, Beating
  <2>2. CASE e # d
    <3>1. run'[d] = run[d]
      BY <1>1, <1>14, <2>2 DEF ReleaseUnstarted
    <3>2. OthersCall(d) /\ (UNCHANGED faults \/ Fault)
      BY <1>14, <2>2, DelaysAllowed DEF ReleaseUnstarted, OthersCall
    <3>3. QED
      BY <1>7, <3>1, <3>2
  <2>3. QED
    BY <2>1, <2>2
<1>15. ASSUME NEW w \in Worker, NEW e \in Delivery, DropNack(w, e) PROVE Goal(d)
  <2>1. CASE e = d
    <3>1. run[d].phase # "reply" /\ ~Beating(d) /\ run' = run
      BY <1>15, <2>1 DEF DropNack, PoolInv, DrainShape
    <3>2. QED
      BY <1>5, <3>1 DEF Beating
  <2>2. CASE e # d
    <3>1. OthersCall(d) /\ (UNCHANGED faults \/ Fault)
      BY <1>15, <2>2, DelaysAllowed DEF DropNack, OthersCall
    <3>2. QED
      BY <1>7, <1>15, <3>1 DEF DropNack
  <2>3. QED
    BY <2>1, <2>2
<1>16. ASSUME NEW e \in Delivery, Finish(e), OthersCall(d) \/ e = d,
              UNCHANGED faults \/ Fault
       PROVE  Goal(d)
  <2>1. CASE e = d
    BY <1>1, <1>5, <1>16, <2>1 DEF Finish, NotRunning, Beating
  <2>2. CASE e # d
    BY <1>1, <1>7, <1>16, <2>2 DEF Finish
  <2>3. QED
    BY <2>1, <2>2
<1>17. ASSUME NEW e \in Delivery, NEW call \in {"acking", "nacking", "parking", "givingUp"},
              HandlerEnds(e, call)
       PROVE  Goal(d)
  <2>1. OthersCall(d) /\ UNCHANGED faults
    BY <1>17 DEF HandlerEnds, OthersCall
  <2>2. CASE Finish(e)
    BY <1>16, <2>1, <2>2
  <2>3. CASE run' = [run EXCEPT ![e] = [run[e] EXCEPT !.phase = call, !.beat = 0, !.fresh = 0]]
    <3>1. CASE e = d
      <4>1. run'[d].phase = call
        BY <1>1, <2>3, <3>1 DEF RunningTask
      <4>2. QED
        BY <1>5, <4>1 DEF Beating
    <3>2. CASE e # d
      BY <1>1, <1>7, <2>1, <2>3, <3>2
    <3>3. QED
      BY <3>1, <3>2
  <2>4. QED
    BY <1>17, <2>2, <2>3 DEF HandlerEnds
<1>18. ASSUME NEW e \in Delivery, Settles(e) \/ SettleFails(e) PROVE Goal(d)
  <2>1. OthersCall(d) \/ e = d
    BY <1>18, DelaysAllowed DEF Settles, SettleCall, SettleFails, OthersCall
  <2>2. Finish(e) /\ (UNCHANGED faults \/ Fault)
    BY <1>18 DEF Settles, SettleFails
  <2>3. QED
    BY <1>16, <2>1, <2>2
<1>19. ASSUME NEW w \in Worker,
              \/ Start(w) \/ Stop(w) \/ Drain(w) \/ Drained(w) \/ Stopped(w) \/ ReleaseWorker(w)
              \/ \E S \in SUBSET Task : PollFails(w, S)
              \/ \E e \in Delivery : UpdateClaim(e)
       PROVE  Goal(d)
  <2>1. OthersCall(d) /\ (UNCHANGED faults \/ Fault) /\ run' = run
    BY <1>19 DEF Start, Stop, Drain, Drained, Stopped, ReleaseWorker, PollFails, UpdateClaim,
                 procVars, OthersCall
  <2>2. QED
    BY <1>7, <2>1
<1>20. ASSUME \/ \E t \in Task : Submit(t) \/ OperatorReleases(t)
              \/ \E S \in SUBSET Task : JanitorReclaims(S)
              \/ RunEnds
              \/ \E e \in Delivery : UpdateClaim(e)
       PROVE  Goal(d)
  <2>1. {t \in Task : tasks[t].state = "PENDING"} \in SUBSET Task
    OBVIOUS
  <2>2. OthersCall(d) /\ UNCHANGED faults /\ run' = run
    BY <1>20, <2>1, DelaysAllowed
       DEF Submit, OperatorReleases, JanitorReclaims, RunEnds, UpdateClaim, procVars, OthersCall
  <2>3. QED
    BY <1>7, <2>2
<1> HIDE DEF Goal
<1>21. QED
  BY <1>8, <1>9, <1>10, <1>11, <1>12, <1>13, <1>14, <1>15, <1>17, <1>18, <1>19, <1>20
     DEF PoolNext, Returns, Throws, ThrowsPark

(* A live handler's lease is kept by its heartbeats as long as timers and   *)
(* answers are on time, through MaxFaults failed queries, when the lease    *)
(* length leaves room for that many missed heartbeats and the next one      *)
(* (worker.ts, heartbeat; config "visibilityTimeoutMs").                    *)
THEOREM HeartbeatKeepsLease ==
  ASSUME (MaxFaults + 1) * HeartbeatInterval < VisibilityTimeout
  PROVE  PoolSpec => []BeatingKeepsLease
<1>1. PoolInit => PoolInv /\ LeaseKept
  <2>1. PoolInit => LeaseKept
    BY DEF PoolInit, LeaseKept, NotRunning, Beating
  <2>2. QED
    BY <2>1, PoolInvInit
<1>2. PoolInv /\ LeaseKept /\ [PoolNext]_vars => (PoolInv /\ LeaseKept)'
  <2>1. ASSUME LeaseKept, UNCHANGED vars PROVE LeaseKept'
    BY <2>1 DEF LeaseKept, vars, Beating, HoldsLease, Reserve
  <2>2. QED
    BY <2>1, LeaseStep, PoolInvNext
<1>3. PoolInv /\ LeaseKept => BeatingKeepsLease
  <2> SUFFICES ASSUME PoolInv, LeaseKept, ~late, NEW d \in Delivery, Beating(d)
               PROVE  HoldsLease(d) /\ tasks[d[1]].wait > 0
    BY DEF BeatingKeepsLease
  <2>1. HoldsLease(d) /\ tasks[d[1]].wait > run[d].beat + Reserve
    BY DEF LeaseKept
  <2>2. run[d].beat \in Nat /\ Reserve \in Nat /\ tasks[d[1]].wait \in Nat
    <3>1. run[d] \in RunningTask /\ tasks[d[1]] \in TaskRow /\ faults \in 0..MaxFaults
      BY DEF PoolInv, PoolTypeOK, TypeOK, Delivery
    <3>2. QED
      BY <3>1, ReserveSpent, Waits, QueueAssumption DEF RunningTask, TaskRow
  <2>3. QED
    BY <2>1, <2>2
<1>4. QED
  BY <1>1, <1>2, <1>3, PTL DEF PoolSpec

-----------------------------------------------------------------------------
(* A worker that runs one task at a time, the default of worker.ts.  With   *)
(* more slots a worker may take its own expired task again, whose launch    *)
(* takes the entry of the handler that still runs; with one slot that entry *)
(* is the slot.                                                             *)

Works(d, w) == run[d].at = w /\ run[d].phase # "none"

OneAtATime ==
  \A w \in Worker : \A d, e \in Delivery : Works(d, w) /\ Works(e, w) => d = e

(* Until stop drops them, the map has every handler.                        *)
InTheMap ==
  \A w \in Worker : \A d \in Delivery :
    /\ mode[w] \in {"running", "stopping", "draining"}
    /\ Works(d, w)
    /\ run[d].phase # "reply"
    => inFlight[w][d[1]] = d[2]

(* What a worker still has to do in each mode of its life.                  *)
WorkFitsMode ==
  \A w \in Worker : \A d \in Delivery : Works(d, w) =>
    /\ mode[w] \notin {"idle", "crashed"}
    /\ run[d].phase = "reply" => mode[w] \in {"running", "stopping"}
    /\ mode[w] = "draining" => d \in drain[w]
    /\ mode[w] \in {"dropping", "stopped"} /\ run[d].phase = "running" => run[d].aborted

OneTaskInv == OneAtATime /\ InTheMap /\ WorkFitsMode

(* With one slot, only an empty worker polls, and for one task.             *)
LEMMA PollsWhenEmpty ==
  ASSUME Concurrency = 1, PoolInv, InTheMap,
         NEW w \in Worker, NEW S \in SUBSET Task, Poll(w, S)
  PROVE  /\ \A d \in Delivery : ~Works(d, w)
         /\ \A d, e \in HandedOut(S) : d = e
<1>1. /\ mode[w] = "running" /\ At(w, {"reply"}) = {} /\ S # {}
      /\ Cardinality(S) <= Concurrency - Cardinality(Entries(w))
  BY DEF Poll, FreeSlots, Dequeue
<1>2. IsFiniteSet(S) /\ IsFiniteSet(Entries(w))
  BY PoolAssumption, FS_Subset DEF PoolAssumption, Entries
<1>3. Cardinality(S) \in Nat /\ Cardinality(Entries(w)) \in Nat /\ Cardinality(S) # 0
  BY <1>1, <1>2, FS_CardinalityType, FS_EmptySet
<1>4. Cardinality(S) = 1 /\ Cardinality(Entries(w)) = 0
  BY <1>1, <1>3
<1>5. Entries(w) = {}
  BY <1>2, <1>4, FS_EmptySet
<1>6. \E t : S = {t}
  BY <1>2, <1>4, FS_Singleton
<1>7. ASSUME NEW d \in Delivery, Works(d, w) PROVE FALSE
  <2>1. run[d].phase # "reply"
    BY <1>1, <1>7 DEF At, Works
  <2>2. inFlight[w][d[1]] = d[2]
    BY <1>1, <1>7, <2>1 DEF InTheMap
  <2>3. d[1] \in Task /\ d[2] # NoEntry
    BY QueueAssumption DEF Delivery, NoEntry, QueueAssumption
  <2>4. QED
    BY <1>5, <2>2, <2>3 DEF Entries
<1>8. QED
  BY <1>6, <1>7 DEF HandedOut

(* Work only comes to a worker by its poll, and to its hands by a launch.   *)
LEMMA WorkComesByPoll ==
  ASSUME PoolInv, PoolNext, NEW w \in Worker, NEW d \in Delivery, Works(d, w)'
  PROVE  \/ /\ Works(d, w)
            /\ \/ run'[d].phase = "reply" <=> run[d].phase = "reply"
               \/ Launch(w) /\ run[d].phase = "reply"
         \/ /\ run'[d].phase = "reply"
            /\ \E S \in SUBSET Task : Poll(w, S) /\ d \in HandedOut(S)
BY MoveStep DEF Moves, Polled, Works

(* The modes of a worker's life, and the list its stop keeps.               *)
LEMMA LifeStep ==
  ASSUME PoolInv, PoolNext, NEW w \in Worker
  PROVE  \/ mode'[w] = mode[w] /\ (drain'[w] = drain[w] \/ mode[w] = "dropping")
         \/ Start(w) \/ Stop(w) \/ Drain(w) \/ Drained(w) \/ DropStragglers(w)
         \/ Stopped(w) \/ Crash(w)
<1>1. /\ mode = [v \in Worker |-> mode[v]]
      /\ drain = [v \in Worker |-> drain[v]]
  BY DEF PoolInv, PoolTypeOK
<1>2. ASSUME UNCHANGED <<mode, drain>>
      PROVE  mode'[w] = mode[w] /\ drain'[w] = drain[w]
  BY <1>2
<1>3. ASSUME NEW v \in Worker, v # w,
             \/ Start(v) \/ Stop(v) \/ Drain(v) \/ Drained(v) \/ DropStragglers(v)
             \/ Stopped(v) \/ Crash(v)
      PROVE  mode'[w] = mode[w] /\ drain'[w] = drain[w]
  BY <1>1, <1>3 DEF Start, Stop, Drain, Drained, DropStragglers, Stopped, Crash
<1>4. ASSUME NEW v \in Worker, NEW d \in Delivery, DropNack(v, d)
      PROVE  mode'[w] = mode[w] /\ (drain'[w] = drain[w] \/ mode[w] = "dropping")
  BY <1>1, <1>4 DEF DropNack
<1>5. QED
  BY <1>2, <1>3, <1>4
     DEF PoolNext, Submit, OperatorReleases, Launch, ReleaseWorker, Poll, PollFails,
         ReleaseUnstarted, Beat, BeatFails, Returns, Throws, ThrowsPark, HandlerEnds,
         Settles, SettleFails, UpdateClaim, JanitorReclaims, RunEnds, TimePasses, procVars

(* The entry of a task goes with a handler of the task, with the process,   *)
(* or with a nack of what stop drops, and is only written by a launch.      *)
LEMMA MapStep ==
  ASSUME PoolInv, PoolNext, NEW w \in Worker, NEW t \in Task
  PROVE  \/ inFlight'[w][t] = inFlight[w][t]
         \/ Launch(w)
         \/ Crash(w)
         \/ mode[w] = "dropping" /\ UNCHANGED mode
         \/ \E e \in Delivery :
              Works(e, w) /\ e[1] = t /\ run[e].phase # "reply" /\ run'[e] = NotRunning
<1>1. /\ inFlight = [v \in Worker |-> inFlight[v]]
      /\ inFlight \in [Worker -> [Task -> 0..MaxDeliveries]]
      /\ run \in [Delivery -> RunningTask]
  BY DEF PoolInv, PoolTypeOK
<1>2. ASSUME UNCHANGED inFlight PROVE inFlight'[w][t] = inFlight[w][t]
  BY <1>2
<1>3. ASSUME NEW e \in Delivery, Finish(e), run[e].phase \notin {"none", "reply"}
      PROVE  \/ inFlight'[w][t] = inFlight[w][t]
             \/ Works(e, w) /\ e[1] = t /\ run[e].phase # "reply" /\ run'[e] = NotRunning
  <2>1. /\ inFlight' = [inFlight EXCEPT ![run[e].at][e[1]] = NoEntry]
        /\ run' = [run EXCEPT ![e] = NotRunning]
    BY <1>3 DEF Finish
  <2>2. CASE run[e].at = w /\ e[1] = t
    BY <1>1, <1>3, <2>1, <2>2 DEF Works
  <2>3. CASE ~(run[e].at = w /\ e[1] = t)
    BY <1>1, <2>1, <2>3
  <2>4. QED
    BY <2>2, <2>3
<1>4. ASSUME NEW e \in Delivery, NEW call, HandlerEnds(e, call)
      PROVE  UNCHANGED inFlight \/ (Finish(e) /\ run[e].phase \notin {"none", "reply"})
  BY <1>4 DEF HandlerEnds
<1>5. ASSUME NEW e \in Delivery, Settles(e) \/ SettleFails(e)
      PROVE  Finish(e) /\ run[e].phase \notin {"none", "reply"}
  BY <1>5 DEF Settles, SettleFails, SettleCall
<1>6. ASSUME NEW v \in Worker, v # w,
             Launch(v) \/ Crash(v) \/ \E d \in Delivery : DropNack(v, d)
      PROVE  inFlight'[w][t] = inFlight[w][t]
  BY <1>1, <1>6 DEF Launch, Crash, DropNack
<1>7. ASSUME NEW d \in Delivery, DropNack(w, d) PROVE mode[w] = "dropping" /\ UNCHANGED mode
  BY <1>7 DEF DropNack
<1>8. QED
  BY <1>2, <1>3, <1>4, <1>5, <1>6, <1>7
     DEF PoolNext, Submit, OperatorReleases, Start, Stop, Drain, Drained, DropStragglers,
         Stopped, ReleaseWorker, Poll, PollFails, ReleaseUnstarted, Beat, BeatFails,
         Returns, Throws, ThrowsPark, UpdateClaim, JanitorReclaims, RunEnds, TimePasses,
         procVars

LEMMA OneAtATimeStep ==
  ASSUME Concurrency = 1, PoolInv, OneTaskInv, PoolNext
  PROVE  OneAtATime'
<1> SUFFICES ASSUME NEW w \in Worker, NEW d \in Delivery, NEW e \in Delivery,
                    Works(d, w)', Works(e, w)'
             PROVE  d = e
  BY DEF OneAtATime
<1>1. CASE Works(d, w) /\ Works(e, w)
  BY <1>1 DEF OneTaskInv, OneAtATime
<1>2. ASSUME NEW S \in SUBSET Task, Poll(w, S) PROVE d = e
  <2>1. \A x \in Delivery : ~Works(x, w)
    BY <1>2, PollsWhenEmpty DEF OneTaskInv
  <2>2. d \in HandedOut(S) /\ e \in HandedOut(S)
    <3>1. ASSUME NEW x \in Delivery, Works(x, w)' PROVE x \in HandedOut(S)
      <4>1. CASE x \notin HandedOut(S)
        <5>1. run'[x] = run[x]
          BY <1>2, <4>1 DEF Poll
        <5>2. Works(x, w)
          BY <3>1, <5>1 DEF Works
        <5>3. QED
          BY <2>1, <5>2
      <4>2. QED
        BY <4>1
    <3>2. QED
      BY <3>1
  <2>3. QED
    BY <1>2, <2>2, PollsWhenEmpty DEF OneTaskInv
<1>3. QED
  BY <1>1, <1>2, WorkComesByPoll

LEMMA InTheMapStep ==
  ASSUME Concurrency = 1, PoolInv, OneTaskInv, PoolNext
  PROVE  InTheMap'
<1> SUFFICES ASSUME NEW w \in Worker, NEW d \in Delivery,
                    mode'[w] \in {"running", "stopping", "draining"},
                    Works(d, w)', run'[d].phase # "reply"
             PROVE  inFlight'[w][d[1]] = d[2]
  BY DEF InTheMap
<1>1. /\ Works(d, w)
      /\ d[1] \in Task
      /\ inFlight \in [Worker -> [Task -> 0..MaxDeliveries]]
      /\ run \in [Delivery -> RunningTask]
      /\ mode = [v \in Worker |-> mode[v]]
      /\ \A e \in Delivery : Works(e, w) => e = d
  BY WorkComesByPoll DEF Delivery, PoolInv, PoolTypeOK, OneTaskInv, OneAtATime
<1>2. ASSUME Launch(w), run[d].phase = "reply" PROVE inFlight'[w][d[1]] = d[2]
  <2>1. d \in At(w, {"reply"}) /\ \A e \in At(w, {"reply"}) : e = d
    BY <1>1, <1>2 DEF At, Works
  <2>2. (CHOOSE e \in At(w, {"reply"}) : e[1] = d[1]) = d
    BY <2>1
  <2>3. QED
    BY <1>1, <1>2, <2>1, <2>2 DEF Launch
<1>3. ASSUME run[d].phase # "reply" PROVE inFlight'[w][d[1]] = d[2]
  <2>1. ~Crash(w)
    BY DEF Crash, Works, NotRunning
  <2>2. mode[w] \in {"running", "stopping", "draining"}
    <3>1. mode[w] \notin {"idle", "crashed"}
      BY <1>1 DEF OneTaskInv, WorkFitsMode
    <3>2. QED
      BY <1>1, <2>1, <3>1, LifeStep
         DEF Start, Stop, Drain, LoopEnded, Drained, DropStragglers, Stopped
  <2>3. inFlight[w][d[1]] = d[2]
    BY <1>1, <1>3, <2>2 DEF OneTaskInv, InTheMap
  <2>4. ~Launch(w)
    BY <1>1, <1>3 DEF Launch, At, Works
  <2>5. ~\E e \in Delivery :
           Works(e, w) /\ e[1] = d[1] /\ run[e].phase # "reply" /\ run'[e] = NotRunning
    BY <1>1 DEF Works, NotRunning
  <2>6. QED
    BY <1>1, <2>1, <2>2, <2>3, <2>4, <2>5, MapStep
<1>4. QED
  BY <1>2, <1>3, WorkComesByPoll

LEMMA WorkFitsModeStep ==
  ASSUME Concurrency = 1, PoolInv, OneTaskInv, PoolNext
  PROVE  WorkFitsMode'
<1> SUFFICES ASSUME NEW w \in Worker, NEW d \in Delivery, Works(d, w)'
             PROVE  /\ mode'[w] \notin {"idle", "crashed"}
                    /\ run'[d].phase = "reply" => mode'[w] \in {"running", "stopping"}
                    /\ mode'[w] = "draining" => d \in drain'[w]
                    /\ mode'[w] \in {"dropping", "stopped"} /\ run'[d].phase = "running"
                         => run'[d].aborted
  BY DEF WorkFitsMode
<1>1. /\ d[1] \in Task
      /\ inFlight \in [Worker -> [Task -> 0..MaxDeliveries]]
      /\ run \in [Delivery -> RunningTask]
      /\ mode = [v \in Worker |-> mode[v]]
      /\ drain = [v \in Worker |-> drain[v]]
  BY DEF Delivery, PoolInv, PoolTypeOK
<1>2. ASSUME NEW S \in SUBSET Task, Poll(w, S) PROVE mode'[w] = "running"
  BY <1>2 DEF Poll
<1>3. ASSUME Launch(w) PROVE mode'[w] = "running"
  BY <1>3 DEF Launch
<1>4. ASSUME Works(d, w), run'[d].phase = "reply" <=> run[d].phase = "reply"
      PROVE  /\ mode'[w] \notin {"idle", "crashed"}
             /\ run'[d].phase = "reply" => mode'[w] \in {"running", "stopping"}
             /\ mode'[w] = "draining" => d \in drain'[w]
             /\ mode'[w] \in {"dropping", "stopped"} /\ run'[d].phase = "running"
                  => run'[d].aborted
  <2>1. /\ mode[w] \notin {"idle", "crashed"}
        /\ run[d].phase = "reply" => mode[w] \in {"running", "stopping"}
        /\ mode[w] = "draining" => d \in drain[w]
        /\ mode[w] \in {"dropping", "stopped"} /\ run[d].phase = "running" => run[d].aborted
    BY <1>4 DEF OneTaskInv, WorkFitsMode
  <2>2. run'[d].phase = "running" =>
          run[d].phase = "running" /\ (run[d].aborted => run'[d].aborted)
    BY <1>4, MoveStep DEF Moves
  <2>3. ~Crash(w) /\ ~Start(w)
    BY <2>1 DEF Crash, Works, NotRunning, Start
  <2>4. CASE mode'[w] = mode[w] /\ (drain'[w] = drain[w] \/ mode[w] = "dropping")
    BY <1>4, <2>1, <2>2, <2>4
  <2>5. CASE Stop(w)
    BY <1>1, <1>4, <2>1, <2>5 DEF Stop
  <2>6. CASE Drain(w)
    <3>1. mode[w] = "stopping" /\ mode'[w] = "draining" /\ run[d].phase # "reply"
      BY <1>1, <1>4, <2>6 DEF Drain, LoopEnded, At, Works
    <3>2. inFlight[w][d[1]] = d[2]
      BY <1>4, <3>1 DEF OneTaskInv, InTheMap
    <3>3. d = <<d[1], inFlight[w][d[1]]>> /\ d[1] \in Entries(w)
      BY <1>1, <3>2, QueueAssumption DEF Delivery, Entries, NoEntry, QueueAssumption
    <3>4. drain'[w] = {<<t, inFlight[w][t]>> : t \in Entries(w)}
      BY <1>1, <2>6 DEF Drain
    <3>5. d \in drain'[w]
      BY <3>3, <3>4
    <3>6. QED
      BY <1>4, <3>1, <3>5
  <2>7. CASE Drained(w)
    BY <1>4, <2>1, <2>7 DEF Drained, Works
  <2>8. CASE DropStragglers(w)
    <3>1. mode[w] = "draining" /\ mode'[w] = "dropping" /\ d \in drain[w]
      BY <1>1, <2>1, <2>8 DEF DropStragglers
    <3>2. inFlight[w][d[1]] = d[2]
      BY <1>4, <2>1, <3>1 DEF OneTaskInv, InTheMap
    <3>3. inFlight[w][d[1]] # NoEntry
      BY <3>2, QueueAssumption DEF Delivery, NoEntry, QueueAssumption
    <3>4. run'[d] = [run[d] EXCEPT !.aborted = TRUE, !.dropped = TRUE, !.beat = 0, !.fresh = 0]
      BY <2>8, <3>1, <3>3 DEF DropStragglers
    <3>5. run'[d].aborted = TRUE
      BY <1>1, <3>4 DEF RunningTask
    <3>6. QED
      BY <1>4, <2>1, <3>1, <3>5
  <2>9. CASE Stopped(w)
    BY <1>1, <1>4, <2>1, <2>2, <2>9 DEF Stopped
  <2>10. QED
    BY <2>3, <2>4, <2>5, <2>6, <2>7, <2>8, <2>9, LifeStep
<1>5. ASSUME mode'[w] = "running"
      PROVE  /\ mode'[w] \notin {"idle", "crashed"}
             /\ run'[d].phase = "reply" => mode'[w] \in {"running", "stopping"}
             /\ mode'[w] = "draining" => d \in drain'[w]
             /\ mode'[w] \in {"dropping", "stopped"} /\ run'[d].phase = "running"
                  => run'[d].aborted
  BY <1>5
<1>6. QED
  BY <1>2, <1>3, <1>4, <1>5, WorkComesByPoll

LEMMA OneTaskInvariant ==
  ASSUME Concurrency = 1
  PROVE  PoolSpec => [](PoolInv /\ OneTaskInv)
<1>1. PoolInit => PoolInv /\ OneTaskInv
  <2>1. PoolInit => OneTaskInv
    BY DEF PoolInit, OneTaskInv, OneAtATime, InTheMap, WorkFitsMode, Works, NotRunning
  <2>2. QED
    BY <2>1, PoolInvInit
<1>2. PoolInv /\ OneTaskInv /\ [PoolNext]_vars => (PoolInv /\ OneTaskInv)'
  <2>1. ASSUME OneTaskInv, UNCHANGED vars PROVE OneTaskInv'
    BY <2>1 DEF OneTaskInv, OneAtATime, InTheMap, WorkFitsMode, Works, vars
  <2>2. ASSUME PoolInv, OneTaskInv, PoolNext PROVE OneTaskInv'
    BY <2>2, OneAtATimeStep, InTheMapStep, WorkFitsModeStep DEF OneTaskInv
  <2>3. QED
    BY <2>1, <2>2, PoolInvNext
<1>3. QED
  BY <1>1, <1>2, PTL DEF PoolSpec

(* A worker with one slot never runs two handlers, not even with an aborted *)
(* one still going on (worker.ts, "concurrency": how many tasks run at      *)
(* once, default 1).                                                        *)
THEOREM OneSlotOneHandler ==
  ASSUME Concurrency = 1
  PROVE  PoolSpec => []ConcurrencyRespected
<1>1. ASSUME OneTaskInv PROVE ConcurrencyRespected
  <2> SUFFICES ASSUME NEW w \in Worker
               PROVE  Cardinality(At(w, Phase \ {"none", "reply"})) <= 1
    BY DEF ConcurrencyRespected
  <2> DEFINE busy == At(w, Phase \ {"none", "reply"})
  <2>1. \A d, e \in busy : d = e
    BY <1>1 DEF OneTaskInv, OneAtATime, Works, At
  <2>2. busy = {} \/ \E d : busy = {d}
    BY <2>1
  <2> HIDE DEF busy
  <2>3. Cardinality(busy) = 0 \/ Cardinality(busy) = 1
    BY <2>2, FS_EmptySet, FS_Singleton
  <2>4. QED
    BY <2>3 DEF busy
<1>2. QED
  BY <1>1, OneTaskInvariant, PTL

(* When the stop of a worker with one slot resolves, what it had started is *)
(* through or aborted, and no leased task waits to be started (worker.ts,   *)
(* stop and shutDown).                                                      *)
THEOREM OneSlotStopsClean ==
  ASSUME Concurrency = 1
  PROVE  PoolSpec => []StopLeavesNothing
<1>1. ASSUME OneTaskInv PROVE StopLeavesNothing
  BY <1>1 DEF OneTaskInv, WorkFitsMode, StopLeavesNothing, At, Works
<1>2. QED
  BY <1>1, OneTaskInvariant, PTL
=============================================================================
