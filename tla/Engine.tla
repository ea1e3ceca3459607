-------------------------------- MODULE Engine --------------------------------
(***************************************************************************)
(* One workflow run and everything that changes it: the task handler of    *)
(* worker/src/engine/task-handler.ts with the recorder, the attempt log,   *)
(* the dead letters and the step processor of core, the janitor's stalled  *)
(* run recovery, and the clients that signal, cancel and terminate.        *)
(*                                                                         *)
(* A transaction is one action; between two transactions of a handler any  *)
(* other handler, a client, the janitor or a crash may come.  The queue is *)
(* taken at its word (module TaskDelivery): a delivery may be taken away   *)
(* from a slow handler, and only the newest delivery that is out settles   *)
(* its task.                                                               *)
(*                                                                         *)
(* The workflow is sequential: it runs its steps in order, waiting for a   *)
(* signal after SignalAt of them, and an uncaught step failure fails it.   *)
(* The history is the run's event log, a step's result row and the events  *)
(* that decide it included.                                                *)
(***************************************************************************)
EXTENDS Integers, Sequences, FiniteSets

CONSTANTS
  Steps,          \* the number of steps the workflow runs
  SignalAt,       \* steps before the workflow waits for a signal; Steps + 1: it never does
  Modes,          \* how a worker may decide: "live" session, "full" replay
  MaxAttempts,    \* the retry policy of every step
  Failures,       \* how a step body may fail: "retryable", "fatal"
  Requests,       \* what clients may do: "signal", "cancel", "terminate"
  Slots,          \* tasks all workers together work on at once
  MaxWakes,       \* bound on the workflow tasks of the run
  MaxDeliveries,  \* bound on the deliveries of one task
  MaxCrashes,     \* bound on handlers that vanish
  MaxLosses,      \* bound on leases lost by live handlers
  MaxFaults,      \* bound on queries of the step processor that fail
  Parks           \* TRUE: tasks may be quarantined, and operators release them

ASSUME EngineAssumption ==
  /\ Steps \in Nat \ {0}
  /\ SignalAt \in 0..(Steps + 1)
  /\ Modes \subseteq {"live", "full"}
  /\ MaxAttempts \in Nat \ {0}
  /\ Failures \subseteq {"retryable", "fatal"}
  /\ Requests \subseteq {"signal", "cancel", "terminate"}
  /\ Slots \in Nat \ {0}
  /\ MaxWakes \in Nat \ {0}
  /\ MaxDeliveries \in Nat \ {0}
  /\ MaxCrashes \in Nat
  /\ MaxLosses \in Nat
  /\ MaxFaults \in Nat
  /\ Parks \in BOOLEAN

VARIABLES
  history,   \* the events of the run, oldest first
  status,    \* task -> "absent", "open", "out", "closed" or "parked"
  made,      \* task -> deliveries made of it
  job,       \* delivery -> where its handler is
  decided,   \* the workflow tasks with a row in workflow_task_results
  results,   \* the steps with a row in step_results
  attempts,  \* step -> attempts in step_attempts
  letters,   \* step -> its dead letter
  waiting,   \* the waiting marker of the run
  crashes, losses, faults

queueVars == <<status, made>>
runVars == <<history, decided, results, attempts, letters, waiting>>
counters == <<crashes, losses, faults>>
vars == <<runVars, queueVars, job, counters>>

Step == 1..Steps

(* The workflow tasks, the task of each scheduled step, and the task of its *)
(* requeued dead letter.                                                    *)
WorkflowTask == {"decide"} \X (1..MaxWakes)
StepTask == {"step", "again"} \X Step
TaskId == WorkflowTask \cup StepTask
Delivery == TaskId \X (1..MaxDeliveries)

-----------------------------------------------------------------------------
(* The event log *)

Event(type, s) == [type |-> type, step |-> s]

ClosingTypes == {"run_completed", "run_failed", "run_cancelled", "run_terminated"}

Has(h, type, s) == \E i \in DOMAIN h : h[i] = Event(type, s)

Closed(h) == \E i \in DOMAIN h : h[i].type \in ClosingTypes

Scheduled(h) == {s \in Step : Has(h, "step_scheduled", s)}

Completed(h) == {s \in Step : Has(h, "step_completed", s)}

Finished(h) == Completed(h) \cup {s \in Step : Has(h, "step_failed", s)}

Signalled(h) == Has(h, "signal_received", 0)

CancelRequested(h) == Has(h, "cancel_requested", 0)

(* openStepIds *)
OpenSteps(h) == Scheduled(h) \ Finished(h)

-----------------------------------------------------------------------------
(* The decision: what the workflow code does when fed the history h. *)

(* The steps the code calls before it waits or ends. *)
Issued(h) ==
  {s \in Step : /\ 1..(s - 1) \subseteq Completed(h)
                /\ s > SignalAt => Signalled(h)}

(* The order in which the history recorded its commands is the order in     *)
(* which the code issues them.                                              *)
Matches(h) ==
  LET recorded == SelectSeq(h, LAMBDA e : e.type = "step_scheduled") IN
  \A i \in DOMAIN recorded : recorded[i].step = i /\ i \in Issued(h)

(* A replay gives a step that has a result its result; a live session also  *)
(* schedules it when the history never did.                                 *)
NewSteps(h, mode) ==
  IF CancelRequested(h) THEN {}
  ELSE Issued(h) \ (Scheduled(h) \cup (IF mode = "full" THEN Finished(h) ELSE {}))

Outcome(h) ==
  IF CancelRequested(h)
    THEN IF Issued(h) \cap OpenSteps(h) = {} THEN "run_cancelled" ELSE "suspended"
    ELSE IF Issued(h) \cap (Finished(h) \ Completed(h)) # {} THEN "run_failed"
    ELSE IF Step \subseteq Completed(h) /\ (SignalAt <= Steps => Signalled(h))
      THEN "run_completed"
      ELSE "suspended"

(* The i-th of the steps S in the order of the code. *)
Nth(S, i) == CHOOSE s \in S : Cardinality({u \in S : u <= s}) = i

(* The decision's events: its schedules in the order of the code, then the  *)
(* event that closes the run.                                               *)
Schedules(S) == [i \in 1..Cardinality(S) |-> Event("step_scheduled", Nth(S, i))]

Ending(h) == IF Outcome(h) = "suspended" THEN << >> ELSE <<Event(Outcome(h), 0)>>

DecisionEvents(h, mode) == Schedules(NewSteps(h, mode)) \o Ending(h)

-----------------------------------------------------------------------------
(* The tables *)

LeaseOf(d) == status[d[1]] = "out" /\ made[d[1]] = d[2]

Idle == [pc |-> "none", seen |-> 0, mode |-> "none", rec |-> FALSE,
         mark |-> "none", attempt |-> 0, err |-> "none"]

NoLetter == [state |-> "none", attempts |-> 0]

Busy == {d \in Delivery : job[d] # Idle}

StepOf(d) == d[1][2]

AbsentWakes == {t \in WorkflowTask : status[t] = "absent"}

(* The next workflow task row. *)
NewWake == CHOOSE t \in AbsentWakes : \A u \in AbsentWakes : t[2] <= u[2]

WithWake(st) == [st EXCEPT ![NewWake] = "open"]

(* enqueueStepTaskOnClient: unless the step has a task row already. *)
WithStepTasks(st, S) ==
  [t \in TaskId |->
     IF t[1] = "step" /\ t[2] \in S /\ st[t] = "absent" THEN "open" ELSE st[t]]

(* closeRunIfTerminal: the tasks nobody holds are withdrawn. *)
WithoutWaiting(st) == [t \in TaskId |-> IF st[t] = "open" THEN "closed" ELSE st[t]]

Goto(d, pc) == job' = [job EXCEPT ![d].pc = pc]

End(d) == job' = [job EXCEPT ![d] = Idle]

At(d, pc) == job[d].pc = pc

Fault == faults < MaxFaults /\ faults' = faults + 1 /\ UNCHANGED <<crashes, losses>>

-----------------------------------------------------------------------------
(* The first event and the first workflow task are written together.        *)
Init ==
  /\ history = <<Event("run_started", 0)>>
  /\ status = [t \in TaskId |-> IF t = <<"decide", 1>> THEN "open" ELSE "absent"]
  /\ made = [t \in TaskId |-> 0]
  /\ job = [d \in Delivery |-> Idle]
  /\ decided = {}
  /\ results = {}
  /\ attempts = [s \in Step |-> 0]
  /\ letters = [s \in Step |-> NoLetter]
  /\ waiting = "none"
  /\ crashes = 0 /\ losses = 0 /\ faults = 0

-----------------------------------------------------------------------------
(* Deliveries *)

Deliver(t) ==
  /\ status[t] = "open"
  /\ made[t] < MaxDeliveries
  /\ Cardinality(Busy) < Slots
  /\ status' = [status EXCEPT ![t] = "out"]
  /\ made' = [made EXCEPT ![t] = @ + 1]
  /\ Goto(<<t, made[t] + 1>>, "start")
  /\ UNCHANGED <<runVars, counters>>

(* An expired lease is taken away; a poisoned task is set aside. *)
TakeAway(t) ==
  /\ \E to \in {"open"} \cup (IF Parks THEN {"parked"} ELSE {}) :
       status' = [status EXCEPT ![t] = to]
  /\ UNCHANGED <<runVars, made, job, crashes, faults>>

Orphaned(t) == status[t] = "out" /\ job[<<t, made[t]>>] = Idle

ReclaimOrphan(t) == Orphaned(t) /\ TakeAway(t) /\ UNCHANGED losses

(* The handler is slow: its lease is lost, and it goes on. *)
LoseLease(t) ==
  /\ status[t] = "out" /\ ~Orphaned(t)
  /\ losses < MaxLosses
  /\ losses' = losses + 1
  /\ TakeAway(t)

Release(t) ==
  /\ status[t] = "parked"
  /\ status' = [status EXCEPT ![t] = "open"]
  /\ UNCHANGED <<runVars, made, job, counters>>

(* The process of a handler dies, or the handler is told to abort. *)
Vanish(d) ==
  /\ d \in Busy
  /\ crashes < MaxCrashes
  /\ crashes' = crashes + 1
  /\ End(d)
  /\ UNCHANGED <<runVars, queueVars, losses, faults>>

-----------------------------------------------------------------------------
(* The workflow task handler *)

ReadRun(d) ==
  /\ At(d, "start") /\ d[1] \in WorkflowTask
  /\ Goto(d, IF Closed(history) THEN "ack" ELSE "load")
  /\ UNCHANGED <<runVars, queueVars, counters>>

(* store.read, and the decision on what it returned.  A history the code    *)
(* does not reproduce parks the task, as does a worker without the code.    *)
Load(d) ==
  /\ At(d, "load")
  /\ \/ /\ Matches(history)
        /\ \E mode \in IF CancelRequested(history) THEN {"full"} ELSE Modes :
             job' = [job EXCEPT ![d] = [Idle EXCEPT !.pc = "record", !.mode = mode,
                                                    !.seen = Len(history)]]
     \/ /\ Parks \/ ~Matches(history)
        /\ Goto(d, "park")
  /\ UNCHANGED <<runVars, queueVars, counters>>

Seen(d) == SubSeq(history, 1, job[d].seen)

Decision(d) == DecisionEvents(Seen(d), job[d].mode)

Suspended(d) == Outcome(Seen(d)) = "suspended"

(* What the handler takes the history to be once its decision is recorded.  *)
Believed(d) == Seen(d) \o Decision(d)

AfterDecision(d) == IF Suspended(d) THEN "ensure" ELSE "ack"

StaleUnchecked(d) == job[d].seen > Len(history)

(* The history has moved on since it was read. *)
Stale(d) == job[d].seen # Len(history)

(* recordWorkflowTaskResult: a key that was recorded before, a closed run   *)
(* and a stale history, in this order, keep it from being recorded.         *)
RecordDecision(d) ==
  /\ At(d, "record") /\ d[1] \in WorkflowTask
  /\ IF d[1] \in decided \/ Closed(history)
       THEN Goto(d, AfterDecision(d)) /\ UNCHANGED <<history, status, decided>>
     ELSE IF Stale(d)
       THEN Goto(d, "ack") /\ UNCHANGED <<history, status, decided>>
     ELSE /\ history' = history \o Decision(d)
          /\ decided' = decided \cup {d[1]}
          /\ status' = LET st == WithStepTasks(status, NewSteps(Seen(d), job[d].mode))
                       IN IF Suspended(d) THEN st ELSE WithoutWaiting(st)
          /\ job' = [job EXCEPT ![d].pc = "mark", ![d].rec = TRUE]
  /\ UNCHANGED <<made, results, attempts, letters, waiting, counters>>

(* waitingOnFor: the dead letters are read now, the open steps are the      *)
(* decision's.                                                              *)
WaitingOn(d) ==
  LET open == OpenSteps(Believed(d)) IN
  CASE ~Suspended(d) -> "none"
    [] Suspended(d) /\ open = {} -> "external"
    [] OTHER -> IF \A s \in open : letters[s].state = "open" THEN "dead_letter" ELSE "none"

FindMark(d) ==
  /\ At(d, "mark")
  /\ job' = [job EXCEPT ![d].pc = "marking", ![d].mark = WaitingOn(d)]
  /\ UNCHANGED <<runVars, queueVars, counters>>

MarkWaiting(d) ==
  /\ At(d, "marking")
  /\ waiting' = job[d].mark
  /\ Goto(d, AfterDecision(d))
  /\ UNCHANGED <<history, decided, results, attempts, letters, queueVars, counters>>

(* ensureStepTasks goes by the handler's own view of the history, recorded  *)
(* or not.                                                                  *)
EnsureStepTasks(d) ==
  /\ At(d, "ensure")
  /\ status' = WithStepTasks(status, OpenSteps(Believed(d)))
  /\ Goto(d, "ack")
  /\ UNCHANGED <<runVars, made, counters>>

Settled(d, to) ==
  status' = IF LeaseOf(d) THEN [status EXCEPT ![d[1]] = to] ELSE status

(* The worker acks, or parks, what the handler is through with. *)
AckDecision(d) ==
  /\ At(d, "ack") /\ d[1] \in WorkflowTask
  /\ Settled(d, "closed")
  /\ End(d)
  /\ UNCHANGED <<runVars, made, counters>>

ParkDecision(d) ==
  /\ At(d, "park")
  /\ Settled(d, "parked")
  /\ End(d)
  /\ UNCHANGED <<runVars, made, counters>>

-----------------------------------------------------------------------------
(* The step processor *)

(* hasRecordedResult: the row, whether or not the run is still open. *)
CheckResult(d) ==
  /\ At(d, "start") /\ d[1] \in StepTask
  /\ Goto(d, IF StepOf(d) \in results THEN "ackKnown" ELSE "attempt")
  /\ UNCHANGED <<runVars, queueVars, counters>>

NextAttempt(d) ==
  /\ At(d, "attempt")
  /\ job' = [job EXCEPT ![d].pc = "run", ![d].attempt = attempts[StepOf(d)] + 1]
  /\ UNCHANGED <<runVars, queueVars, counters>>

StepSucceeds(d) ==
  /\ At(d, "run")
  /\ Goto(d, "record")
  /\ UNCHANGED <<runVars, queueVars, counters>>

(* The attempts that do not count: those before the requeue. *)
Offset(d) == IF d[1][1] = "again" THEN letters[StepOf(d)].attempts ELSE 0

(* decideRetry *)
GivenUp(d, err) ==
  CASE err = "fatal" -> "fatal"
    [] err # "fatal" /\ job[d].attempt - Offset(d) >= MaxAttempts -> "exhausted"
    [] OTHER -> "retry"

Failing(d, err) ==
  job' = [job EXCEPT ![d].pc = "logFailure", ![d].err = GivenUp(d, err)]

StepFails(d) ==
  /\ At(d, "run")
  /\ \E err \in Failures : Failing(d, err)
  /\ UNCHANGED <<runVars, queueVars, counters>>

RecordableOverwriting(d) == ~Closed(history)

(* The recorder's part of recordStepResult: a closed run or a result that   *)
(* is there already keeps it from being recorded.                           *)
Recordable(d) == ~Closed(history) /\ StepOf(d) \notin results

RecordResult(d, type) ==
  IF Recordable(d)
    THEN /\ results' = results \cup {StepOf(d)}
         /\ history' = Append(history, Event(type, StepOf(d)))
    ELSE UNCHANGED <<results, history>>

RecordSuccess(d) ==
  /\ At(d, "record") /\ d[1] \in StepTask
  /\ RecordResult(d, "step_completed")
  /\ Goto(d, "ackResult")
  /\ UNCHANGED <<decided, attempts, letters, waiting, queueVars, counters>>

(* A query that fails after the body succeeded is taken for a failure of    *)
(* the body, whether or not the database applied it.                        *)
RecordErrs(d) ==
  /\ At(d, "record") /\ d[1] \in StepTask
  /\ Fault
  /\ RecordResult(d, "step_completed") \/ UNCHANGED <<results, history>>
  /\ Failing(d, "retryable")
  /\ UNCHANGED <<decided, attempts, letters, waiting, queueVars>>

(* The ack of a step whose result this delivery recorded.  Without the      *)
(* lease the delivery ends here, and enqueues nothing.                      *)
AckResult(d) ==
  /\ At(d, "ackResult")
  /\ Settled(d, "closed")
  /\ IF LeaseOf(d) THEN Goto(d, "wake") ELSE End(d)
  /\ UNCHANGED <<runVars, made, counters>>

AckErrs(d) ==
  /\ At(d, "ackResult")
  /\ Fault
  /\ Settled(d, "closed") \/ UNCHANGED status
  /\ Failing(d, "retryable")
  /\ UNCHANGED <<runVars, made>>

(* The acks whose answer is not looked at. *)
AckAnyway(d) ==
  /\ At(d, "ackKnown") \/ At(d, "ackFailure")
  /\ Settled(d, "closed")
  /\ Goto(d, "wake")
  /\ UNCHANGED <<runVars, made, counters>>

(* recordFailure: the first row of an attempt wins; the run may be closed.  *)
LogFailure(d) ==
  /\ At(d, "logFailure")
  /\ IF job[d].attempt > attempts[StepOf(d)]
       THEN /\ attempts' = [attempts EXCEPT ![StepOf(d)] = job[d].attempt]
            /\ history' = Append(history, Event("step_attempt_failed", StepOf(d)))
       ELSE UNCHANGED <<attempts, history>>
  /\ Goto(d, CASE job[d].err = "retry" -> "nack"
                [] job[d].err = "fatal" -> "recordFatal"
                [] job[d].err = "exhausted" -> "bury")
  /\ UNCHANGED <<decided, results, letters, waiting, queueVars, counters>>

NackRetryAcked(d) ==
  /\ At(d, "nack")
  /\ Settled(d, "closed")
  /\ End(d)
  /\ UNCHANGED <<runVars, made, counters>>

NackRetry(d) ==
  /\ At(d, "nack")
  /\ Settled(d, "open")
  /\ End(d)
  /\ UNCHANGED <<runVars, made, counters>>

RecordFatal(d) ==
  /\ At(d, "recordFatal")
  /\ RecordResult(d, "step_failed")
  /\ Goto(d, "ackFailure")
  /\ UNCHANGED <<decided, attempts, letters, waiting, queueVars, counters>>

BuryUnrecorded(d) ==
  /\ At(d, "bury")
  /\ IF LeaseOf(d)
       THEN /\ letters' = [letters EXCEPT ![StepOf(d)] =
                             IF @.state = "open" THEN @
                             ELSE [state |-> "open", attempts |-> job[d].attempt]]
            /\ Settled(d, "closed")
       ELSE UNCHANGED <<letters, status>>
  /\ End(d)
  /\ UNCHANGED <<history, results, decided, attempts, waiting, made, counters>>

(* addAndAck: the result, the ack and the dead letter, all or nothing. *)
Bury(d) ==
  /\ At(d, "bury")
  /\ IF LeaseOf(d)
       THEN /\ RecordResult(d, "step_failed")
            /\ letters' = [letters EXCEPT ![StepOf(d)] =
                             IF @.state = "open" THEN @
                             ELSE [state |-> "open", attempts |-> job[d].attempt]]
            /\ Settled(d, "closed")
       ELSE UNCHANGED <<history, results, letters, status>>
  /\ End(d)
  /\ UNCHANGED <<decided, attempts, waiting, made, counters>>

Wake(d) ==
  /\ At(d, "wake")
  /\ AbsentWakes # {}
  /\ status' = WithWake(status)
  /\ End(d)
  /\ UNCHANGED <<runVars, made, counters>>

-----------------------------------------------------------------------------
(* Clients, operators and the janitor *)

(* An event for an open run and the workflow task that sees it. *)
Tell(event) ==
  /\ ~Closed(history)
  /\ AbsentWakes # {}
  /\ history' = Append(history, event)
  /\ status' = WithWake(status)
  /\ UNCHANGED <<decided, results, attempts, letters, waiting, made, job, counters>>

SignalRun ==
  "signal" \in Requests /\ ~Signalled(history) /\ Tell(Event("signal_received", 0))

CancelRun ==
  "cancel" \in Requests /\ ~CancelRequested(history) /\ Tell(Event("cancel_requested", 0))

TerminateRun ==
  /\ "terminate" \in Requests
  /\ ~Closed(history)
  /\ history' = Append(history, Event("run_terminated", 0))
  /\ status' = WithoutWaiting(status)
  /\ UNCHANGED <<decided, results, attempts, letters, waiting, made, job, counters>>

Requeue(s) ==
  /\ letters[s].state = "open"
  /\ status[<<"again", s>>] = "absent"
  /\ letters' = [letters EXCEPT ![s].state = "requeued"]
  /\ status' = [status EXCEPT ![<<"again", s>>] = "open"]
  /\ UNCHANGED <<history, decided, results, attempts, waiting, made, job, counters>>

StalledWithOpenStep ==
  /\ ~Closed(history)
  /\ OpenSteps(history) # {}
  /\ waiting = "none"
  /\ \A t \in TaskId : status[t] \notin {"open", "out", "parked"}

Stalled ==
  /\ ~Closed(history)
  /\ waiting = "none"
  /\ \A t \in TaskId : status[t] \notin {"open", "out", "parked"}

(* recoverStalledRuns; the grace and the backoff may pass at any time. *)
RecoverStalled ==
  /\ Stalled
  /\ AbsentWakes # {}
  /\ status' = WithWake(status)
  /\ UNCHANGED <<runVars, made, job, counters>>

HandlerStep(d) ==
  \/ ReadRun(d) \/ Load(d) \/ RecordDecision(d) \/ FindMark(d) \/ MarkWaiting(d)
  \/ EnsureStepTasks(d) \/ AckDecision(d) \/ ParkDecision(d)
  \/ CheckResult(d) \/ NextAttempt(d) \/ StepSucceeds(d) \/ StepFails(d)
  \/ RecordSuccess(d) \/ AckResult(d) \/ AckAnyway(d)
  \/ LogFailure(d) \/ NackRetry(d) \/ RecordFatal(d) \/ Bury(d) \/ Wake(d)

Next ==
  \/ \E t \in TaskId :
       Deliver(t) \/ ReclaimOrphan(t) \/ LoseLease(t) \/ Release(t)
  \/ \E d \in Delivery : HandlerStep(d) \/ RecordErrs(d) \/ AckErrs(d) \/ Vanish(d)
  \/ \E s \in Step : Requeue(s)
  \/ SignalRun \/ CancelRun \/ TerminateRun \/ RecoverStalled

Spec == Init /\ [][Next]_vars

(* Live processes go on: a handler's queries are answered and step bodies   *)
(* end, open tasks are delivered, the janitor sweeps.  Nobody has to        *)
(* signal, cancel, terminate, release or requeue anything.  It is enough    *)
(* that some handler goes on: a handler has no loop.                        *)
Fairness ==
  /\ WF_vars(\E t \in TaskId : Deliver(t))
  /\ WF_vars(\E t \in TaskId : ReclaimOrphan(t))
  /\ WF_vars(\E d \in Delivery : HandlerStep(d))
  /\ WF_vars(RecoverStalled)

FairSpec == Spec /\ Fairness

-----------------------------------------------------------------------------
(* The invariant checker's queries, for this run.                           *)

Verdicts(s) ==
  {i \in DOMAIN history :
     history[i] \in {Event("step_completed", s), Event("step_failed", s)}}

(* stalledRuns: an open run that nothing moves. *)
StalledRun ==
  /\ ~Closed(history)
  /\ \A t \in TaskId : status[t] \notin {"open", "out", "parked"}
  /\ \A s \in Step : letters[s].state # "open"

(* lostTasks: step tasks acked without an outcome, a failed attempt or a    *)
(* dead letter; a run that failed or was ended from outside may have them.  *)
LostTasks ==
  IF Closed(history) /\ ~Has(history, "run_completed", 0) THEN {}
  ELSE {t \in StepTask : /\ status[t] = "closed"
                         /\ Verdicts(t[2]) = {}
                         /\ ~Has(history, "step_attempt_failed", t[2])
                         /\ letters[t[2]].state = "none"}

(* duplicateSteps: two terminal events, or a result row without one.        *)
DuplicateSteps ==
  {s \in Step : \/ Cardinality(Verdicts(s)) > 1
                \/ s \in results /\ Verdicts(s) = {}}

-----------------------------------------------------------------------------
(* Properties *)

Pc == {"none", "start", "load", "record", "mark", "marking", "ensure", "ack", "park",
       "attempt", "run", "ackResult", "ackKnown", "logFailure", "nack", "recordFatal",
       "ackFailure", "bury", "wake"}

EventType == ClosingTypes \cup
  {"run_started", "step_scheduled", "step_completed", "step_failed",
   "step_attempt_failed", "signal_received", "cancel_requested"}

(* The tables and the handlers have their shape, and no handler runs for a  *)
(* delivery that was never made.                                            *)
TypeOK ==
  /\ history \in Seq([type : EventType, step : 0..Steps])
  /\ status \in [TaskId -> {"absent", "open", "out", "closed", "parked"}]
  /\ made \in [TaskId -> 0..MaxDeliveries]
  /\ \A d \in Delivery :
       /\ job[d].pc \in Pc
       /\ job[d].seen \in 0..Len(history)
       /\ job[d].mark \in {"none", "external", "dead_letter"}
       /\ job[d].attempt \in Nat
  /\ \A d \in Busy : d[2] <= made[d[1]]
  /\ decided \subseteq WorkflowTask
  /\ results \subseteq Step
  /\ attempts \in [Step -> Nat]
  /\ letters \in [Step -> [state : {"none", "open", "requeued"}, attempts : Nat]]
  /\ waiting \in {"none", "external", "dead_letter"}
  /\ <<crashes, losses, faults>> \in (0..MaxCrashes) \X (0..MaxLosses) \X (0..MaxFaults)

(* A step has at most one terminal event however many deliveries of its     *)
(* task ran, and its result row stands exactly when the event does          *)
(* (recorder.ts, recordStepResult): what the invariant checker calls        *)
(* step-result-written-once, and that no event stands without its row.      *)
OneVerdict ==
  /\ DuplicateSteps = {}
  /\ \A s \in Step : Verdicts(s) # {} => s \in results

(* Racing workflow tasks never schedule a step twice: a decision computed   *)
(* from a history that has moved on is not recorded (recorder.ts,           *)
(* expectedSeq).                                                            *)
ScheduledOnce ==
  \A i, j \in DOMAIN history :
    history[i].type = "step_scheduled" /\ history[i] = history[j] => i = j

(* The event that closes a run is its last, but for the failed attempts of  *)
(* steps that were running: no result, signal, cancellation, decision or    *)
(* second closing event follows it, however they race.                      *)
ClosedIsFinal ==
  \A i \in DOMAIN history : history[i].type \in ClosingTypes =>
    \A j \in (i + 1)..Len(history) : history[j].type = "step_attempt_failed"

(* While the run is open, a scheduled step without a result has a task that *)
(* can still give it one, whatever was lost or raced since the decision was *)
(* recorded (recorder.ts, enqueueStepTaskOnClient), and the invariant       *)
(* checker finds no acked step task that left nothing behind                *)
(* (task-not-lost).                                                         *)
OpenStepHasTask ==
  /\ ~Closed(history) =>
       \A s \in OpenSteps(history) :
         \E t \in StepTask : t[2] = s /\ status[t] \in {"open", "out", "parked"}
  /\ LostTasks = {}

(* A dead letter never stands for a step that is still to be decided, so    *)
(* acking a requeued one without running it loses nothing                   *)
(* (dead-letters.ts, addAndAck).                                            *)
BuriedIsDecided ==
  \A s \in Step : letters[s].state # "none" => s \in results \/ Closed(history)

(* What a log says of the run: how it ended, and how each step did.         *)
OutcomeOf(h) ==
  IF Closed(h)
    THEN (CHOOSE e \in {h[i] : i \in DOMAIN h} : e.type \in ClosingTypes).type
    ELSE "open"

VerdictOf(h) ==
  [s \in Step |-> IF s \in Completed(h) THEN "completed"
                  ELSE IF s \in Finished(h) THEN "failed" ELSE "none"]

Promise ==
  INSTANCE RunPromise WITH
    outcome <- OutcomeOf(history),
    verdict <- VerdictOf(history),
    asked <- CancelRequested(history)

(* The engine keeps the promise of RunPromise: the outcome a run closes     *)
(* with is accounted for by the verdicts at that moment, although it was    *)
(* computed from an earlier reading of the history.                         *)
KeepsRunPromise == Promise!Spec

(* A run whose steps never exhaust their attempts closes in the end,        *)
(* through crashes, lost leases and failed queries, given workers and a     *)
(* janitor (CONCEPTS.md, "A run makes progress after any worker dies").     *)
RunCloses == <>Closed(history)

-----------------------------------------------------------------------------
(* What the documentation says and the code does not do. *)

(* No event follows the one that closes the run. *)
NothingAfterClose ==
  \A i \in DOMAIN history : history[i].type \in ClosingTypes => i = Len(history)

(* Redelivered tasks change nothing (task-handler.ts): a result follows the *)
(* decision that scheduled its step.                                        *)
ResultFollowsSchedule ==
  \A i \in DOMAIN history :
    history[i].type \in {"step_completed", "step_failed"} =>
      \E j \in 1..(i - 1) : history[j] = Event("step_scheduled", history[i].step)

(* Once no handler is at work, a run the invariant checker calls stalled is *)
(* one the janitor recovers, or waits for a signal (janitor.ts,             *)
(* recoverStalledRuns): a crash between the ack of a requeued dead letter   *)
(* and its wake-up leaves one whose marker keeps the janitor away.          *)
StalledIsRecovered ==
  Busy = {} /\ StalledRun => Stalled \/ waiting = "external"

(* A step in the dead letter queue of an open run has failed                *)
(* (step-task-processor.ts, process).                                       *)
DeadLetterMeansFailure ==
  \A s \in Step : letters[s].state = "open" => s \notin Completed(history)

(* A step that used all its attempts reaches the workflow (CONCEPTS.md).    *)
DeadLetterReachesWorkflow ==
  \A s \in Step : letters[s].state = "open" ~> Closed(history)
=============================================================================
