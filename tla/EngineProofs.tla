----------------------------- MODULE EngineProofs -----------------------------
(***************************************************************************)
(* What the engine keeps for every number of steps, tasks and deliveries   *)
(* and however handlers, clients, the janitor and faults interleave.  The  *)
(* proofs go by what a step does to the event log (HistoryStep) and to the *)
(* task table (TaskStep): all the engine's actions are one of a few of     *)
(* each.                                                                   *)
(***************************************************************************)
EXTENDS Engine, OrderLemmas, FiniteSetTheorems, SequenceTheorems, TLAPS

-----------------------------------------------------------------------------
(* The order of the steps in a decision *)

(* A run has finitely many steps. *)
LEMMA StepsFinite == IsFiniteSet(Step) /\ Steps \in Nat
BY FS_Interval, EngineAssumption DEF Step, EngineAssumption

(* The places are taken by different steps.                                 *)
LEMMA NthOf ==
  ASSUME NEW S \in SUBSET Step
  PROVE  /\ \A i \in 1..Cardinality(S) : Nth(S, i) \in S
         /\ \A i, j \in 1..Cardinality(S) : Nth(S, i) = Nth(S, j) => i = j
         /\ Cardinality(S) \in Nat
<1>1. \A i \in 1..Cardinality(S) : /\ Nth(S, i) \in S
                                   /\ Cardinality({u \in S : u <= Nth(S, i)}) = i
  <2>1. \A i \in 1..Cardinality(S) : \E s \in S : Cardinality({u \in S : u <= s}) = i
    BY StepsFinite, PlaceTaken DEF Step
  <2>2. QED
    BY <2>1 DEF Nth
<1>2. Cardinality(S) \in Nat
    BY StepsFinite, FS_Subset, FS_CardinalityType
<1>3. QED
  BY <1>1, <1>2

-----------------------------------------------------------------------------
(* Event logs *)

EventRow == [type : EventType, step : 0..Steps]

Log == Seq(EventRow)

(* What a longer log has: the events it had, and the new one.               *)
LEMMA AppendHas ==
  ASSUME NEW h \in Log, NEW e \in EventRow
  PROVE  /\ Append(h, e) \in Log
         /\ \A type, s : Has(Append(h, e), type, s) <=> Has(h, type, s) \/ e = Event(type, s)
         /\ Closed(Append(h, e)) <=> Closed(h) \/ e.type \in ClosingTypes
<1>1. /\ Append(h, e) \in Log
      /\ DOMAIN h = 1..Len(h) /\ Len(h) \in Nat
      /\ DOMAIN Append(h, e) = 1..(Len(h) + 1)
      /\ \A i \in 1..Len(h) : Append(h, e)[i] = h[i]
      /\ Append(h, e)[Len(h) + 1] = e
  BY AppendProperties, LenProperties DEF Log
<1>2. ASSUME NEW type, NEW s
      PROVE  Has(Append(h, e), type, s) <=> Has(h, type, s) \/ e = Event(type, s)
  BY <1>1 DEF Has
<1>3. Closed(Append(h, e)) <=> Closed(h) \/ e.type \in ClosingTypes
  BY <1>1 DEF Closed
<1>4. QED
  BY <1>1, <1>2, <1>3

(* Where the events of two logs in a row stand.                             *)
LEMMA ConcatPlaces ==
  ASSUME NEW h \in Log, NEW k \in Log
  PROVE  /\ h \o k \in Log
         /\ Len(h) \in Nat /\ DOMAIN h = 1..Len(h)
         /\ Len(k) \in Nat /\ DOMAIN k = 1..Len(k)
         /\ Len(h \o k) = Len(h) + Len(k)
         /\ DOMAIN (h \o k) = 1..(Len(h) + Len(k))
         /\ \A i \in 1..Len(h) : (h \o k)[i] = h[i]
         /\ \A i \in 1..Len(k) : (h \o k)[Len(h) + i] = k[i]
         /\ \A i \in 1..(Len(h) + Len(k)) :
              \/ i \in 1..Len(h)
              \/ \E j \in 1..Len(k) : i = Len(h) + j
<1>1. /\ h \o k \in Log
      /\ DOMAIN h = 1..Len(h) /\ Len(h) \in Nat
      /\ DOMAIN k = 1..Len(k) /\ Len(k) \in Nat
      /\ Len(h \o k) = Len(h) + Len(k)
      /\ DOMAIN (h \o k) = 1..(Len(h) + Len(k))
      /\ \A i \in 1..Len(h) : (h \o k)[i] = h[i]
      /\ \A i \in 1..Len(k) : (h \o k)[Len(h) + i] = k[i]
  BY ConcatProperties, LenProperties DEF Log
<1>2. ASSUME NEW i \in 1..(Len(h) + Len(k)), i \notin 1..Len(h)
      PROVE  i - Len(h) \in 1..Len(k) /\ i = Len(h) + (i - Len(h))
  BY <1>1, <1>2
<1>3. QED
  BY <1>1, <1>2

(* What two logs in a row have.                                             *)
LEMMA ConcatHas ==
  ASSUME NEW h \in Log, NEW k \in Log
  PROVE  /\ \A type, s : Has(h \o k, type, s) <=> Has(h, type, s) \/ Has(k, type, s)
         /\ Closed(h \o k) <=> Closed(h) \/ Closed(k)
<1> DEFINE c == h \o k
<1>1. /\ Len(h) \in Nat /\ DOMAIN h = 1..Len(h)
      /\ Len(k) \in Nat /\ DOMAIN k = 1..Len(k)
      /\ DOMAIN c = 1..(Len(h) + Len(k))
      /\ \A i \in 1..Len(h) : c[i] = h[i]
      /\ \A i \in 1..Len(k) : c[Len(h) + i] = k[i]
      /\ \A i \in 1..(Len(h) + Len(k)) :
           i \in 1..Len(h) \/ \E j \in 1..Len(k) : i = Len(h) + j
  BY ConcatPlaces
<1> HIDE DEF c
<1>2. /\ \A i \in 1..Len(k) : Len(h) + i \in DOMAIN c
      /\ \A i \in 1..Len(h) : i \in DOMAIN c
  BY <1>1
<1>3. \A i \in DOMAIN c :
        \/ i \in DOMAIN h /\ h[i] = c[i]
        \/ \E j \in DOMAIN k : k[j] = c[i]
  <2> SUFFICES ASSUME NEW i \in DOMAIN c
               PROVE  \/ i \in DOMAIN h /\ h[i] = c[i]
                      \/ \E j \in DOMAIN k : k[j] = c[i]
    OBVIOUS
  <2>1. CASE i \in 1..Len(h)
    BY <2>1, <1>1
  <2>2. CASE \E j \in 1..Len(k) : i = Len(h) + j
    <3>1. PICK j \in 1..Len(k) : i = Len(h) + j
      BY <2>2
    <3>2. j \in DOMAIN k /\ k[j] = c[i]
      BY <3>1, <1>1
    <3>3. QED
      BY <3>2
  <2>3. QED
    BY <2>1, <2>2, <1>1
<1>4. /\ \A i \in DOMAIN h : \E j \in DOMAIN c : c[j] = h[i]
      /\ \A i \in DOMAIN k : \E j \in DOMAIN c : c[j] = k[i]
  BY <1>1, <1>2
<1>5. ASSUME NEW type, NEW s
      PROVE  Has(c, type, s) <=> Has(h, type, s) \/ Has(k, type, s)
  BY <1>3, <1>4, ZenonT(30) DEF Has
<1>6. Closed(c) <=> Closed(h) \/ Closed(k)
  BY <1>3, <1>4, Zenon DEF Closed
<1>7. QED
  BY <1>5, <1>6 DEF c

(* The code ends, waits or is cancelled.                                    *)
LEMMA OutcomeType ==
  ASSUME NEW h
  PROVE  Outcome(h) \in {"run_completed", "run_failed", "run_cancelled", "suspended"}
BY DEF Outcome

(* What a decision records: schedules of steps that are new to the log, all *)
(* different, and last the outcome, if there is one.                        *)
LEMMA DecisionHas ==
  ASSUME NEW h \in Log, NEW mode
  PROVE  /\ DecisionEvents(h, mode) \in Log
         /\ \A i \in DOMAIN DecisionEvents(h, mode) :
              \/ \E s \in NewSteps(h, mode) :
                   DecisionEvents(h, mode)[i] = Event("step_scheduled", s)
              \/ /\ Outcome(h) # "suspended"
                 /\ i = Len(DecisionEvents(h, mode))
                 /\ DecisionEvents(h, mode)[i] = Event(Outcome(h), 0)
         /\ \A i, j \in DOMAIN DecisionEvents(h, mode) :
              /\ DecisionEvents(h, mode)[i].type = "step_scheduled"
              /\ DecisionEvents(h, mode)[i] = DecisionEvents(h, mode)[j]
              => i = j
         /\ Outcome(h) # "suspended" => Has(DecisionEvents(h, mode), Outcome(h), 0)
<1> DEFINE S == NewSteps(h, mode)
           n == Cardinality(S)
           a == Schedules(S)
           b == Ending(h)
<1>1. S \in SUBSET Step
  BY DEF NewSteps, Issued
<1> HIDE DEF S
<1>2. /\ \A i \in 1..n : Nth(S, i) \in S
      /\ \A i, j \in 1..n : Nth(S, i) = Nth(S, j) => i = j
      /\ n \in Nat
  BY <1>1, NthOf
<1> HIDE DEF n
<1>3. \A s \in Step : Event("step_scheduled", s) \in EventRow
  BY StepsFinite DEF Event, EventRow, EventType, Step
<1>4. a = [i \in 1..n |-> Event("step_scheduled", Nth(S, i))]
  BY DEF Schedules, n
<1>5. a \in Seq(EventRow) /\ Len(a) = n /\ DOMAIN a = 1..n
      /\ \A i \in 1..n : a[i] = Event("step_scheduled", Nth(S, i))
  <2>1. a \in [1..n -> EventRow]
    BY <1>1, <1>2, <1>3, <1>4
  <2>2. a \in Seq(EventRow)
    BY <2>1, <1>2, SeqDef
  <2>3. QED
    BY <2>1, <2>2, <1>2, <1>4
<1>6. Event(Outcome(h), 0) \in EventRow \/ Outcome(h) = "suspended"
  BY OutcomeType, StepsFinite DEF Event, EventRow, EventType, ClosingTypes
<1>7. /\ b \in Seq(EventRow)
      /\ Outcome(h) = "suspended" => Len(b) = 0
      /\ Outcome(h) # "suspended" => Len(b) = 1 /\ b[1] = Event(Outcome(h), 0)
  BY <1>6 DEF Ending
<1>8. DecisionEvents(h, mode) = a \o b
  BY DEF DecisionEvents, S
<1> HIDE DEF a, b
<1> DEFINE c == a \o b
<1>9. /\ c \in Log
      /\ Len(c) = n + Len(b)
      /\ DOMAIN c = 1..(n + Len(b))
      /\ \A i \in 1..n : c[i] = Event("step_scheduled", Nth(S, i))
      /\ \A i \in 1..Len(b) : c[n + i] = b[i]
      /\ \A i \in DOMAIN c : i \in 1..n \/ \E j \in 1..Len(b) : i = n + j
      /\ Len(b) \in Nat
  <2>1. a \in Log /\ b \in Log
    BY <1>5, <1>7 DEF Log
  <2>2. /\ c \in Log
        /\ Len(b) \in Nat
        /\ Len(c) = Len(a) + Len(b)
        /\ DOMAIN c = 1..(Len(a) + Len(b))
        /\ \A i \in 1..Len(a) : c[i] = a[i]
        /\ \A i \in 1..Len(b) : c[Len(a) + i] = b[i]
        /\ \A i \in 1..(Len(a) + Len(b)) :
             i \in 1..Len(a) \/ \E j \in 1..Len(b) : i = Len(a) + j
    BY <2>1, ConcatPlaces
  <2> HIDE DEF c
  <2>3. QED
    BY <2>2, <1>5
<1> HIDE DEF c
<1>10. \A i \in DOMAIN c :
         \/ i \in 1..n /\ Nth(S, i) \in S /\ c[i] = Event("step_scheduled", Nth(S, i))
         \/ /\ Outcome(h) # "suspended"
            /\ i = Len(c)
            /\ c[i] = Event(Outcome(h), 0)
  <2>1. ASSUME NEW i \in DOMAIN c, NEW j \in 1..Len(b), i = n + j
        PROVE  Outcome(h) # "suspended" /\ j = 1 /\ i = Len(c) /\ c[i] = Event(Outcome(h), 0)
    BY <2>1, <1>2, <1>7, <1>9
  <2>2. QED
    BY <2>1, <1>2, <1>9
<1>11. \A i, j \in DOMAIN c : c[i].type = "step_scheduled" /\ c[i] = c[j] => i = j
  <2>1. Event(Outcome(h), 0).type # "step_scheduled"
    BY OutcomeType DEF Event
  <2>2. \A i \in DOMAIN c : c[i].type = "step_scheduled" =>
          i \in 1..n /\ c[i] = Event("step_scheduled", Nth(S, i))
    BY <1>10, <2>1
  <2>3. \A x, y : Event("step_scheduled", x) = Event("step_scheduled", y) => x = y
    BY DEF Event
  <2>4. QED
    BY <2>2, <2>3, <1>2
<1>12. Outcome(h) # "suspended" => Has(c, Outcome(h), 0)
  <2>1. Outcome(h) # "suspended" =>
          n + 1 \in DOMAIN c /\ c[n + 1] = Event(Outcome(h), 0)
    <3>1. Outcome(h) # "suspended" =>
            Len(b) = 1 /\ 1 \in 1..Len(b) /\ b[1] = Event(Outcome(h), 0)
      BY <1>7
    <3>2. QED
      BY <3>1, <1>2, <1>9
  <2>2. QED
    BY <2>1 DEF Has
<1>13. QED
  BY <1>8, <1>9, <1>10, <1>11, <1>12 DEF c, S

-----------------------------------------------------------------------------
(* The inductive invariant *)

Handler ==
  [pc : Pc, seen : Nat, mode : {"none", "live", "full"}, rec : BOOLEAN,
   mark : {"none", "external", "dead_letter"}, attempt : Nat,
   err : {"none", "retry", "fatal", "exhausted"}]

TypeInv == TypeOK /\ job \in [Delivery -> Handler]

WorkflowPc == {"load", "mark", "marking", "ensure", "ack", "park"}

StepPc == {"attempt", "run", "ackResult", "ackKnown", "logFailure", "nack", "recordFatal",
           "ackFailure", "bury", "wake"}

(* A handler does the work of its kind of task, knows how a failed body is  *)
(* judged, and acks a step for its result only once the step has one, or    *)
(* its run is closed.                                                       *)
ShapeOf(d) ==
  /\ job[d].pc \in WorkflowPc => d[1] \in WorkflowTask
  /\ job[d].pc \in StepPc => d[1] \in StepTask
  /\ job[d].pc = "logFailure" => job[d].err # "none"
  /\ job[d].pc = "ackKnown" => StepOf(d) \in results
  /\ job[d].pc \in {"ackResult", "ackFailure"} =>
       StepOf(d) \in results \/ Closed(history)

HandlerShape == \A d \in Delivery : ShapeOf(d)

(* A step has a result row exactly when it has a verdict, and only one.     *)
VerdictRows ==
  \A s \in Step :
    /\ s \in results <=> Verdicts(s) # {}
    /\ \A i, j \in Verdicts(s) : i = j

(* A run that completed has completed all its steps. *)
CompletedInFull == Has(history, "run_completed", 0) => Step \subseteq Completed(history)

(* A step task is closed only when its step is decided, and a step on       *)
(* record as scheduled has its task.                                        *)
TasksOfSteps ==
  /\ \A t \in StepTask : status[t] = "closed" => t[2] \in results \/ Closed(history)
  /\ ~Closed(history) => \A s \in Scheduled(history) : status[<<"step", s>>] # "absent"

EngineInv ==
  /\ TypeInv
  /\ HandlerShape
  /\ VerdictRows
  /\ ScheduledOnce
  /\ ClosedIsFinal
  /\ CompletedInFull
  /\ TasksOfSteps
  /\ BuriedIsDecided

-----------------------------------------------------------------------------
(* What a step does to the event log *)

Keeps == UNCHANGED <<history, results>>

Logs == \E s \in Step : /\ history' = Append(history, Event("step_attempt_failed", s))
                        /\ results' = results

Hears ==
  /\ ~Closed(history)
  /\ \E type \in {"signal_received", "cancel_requested", "run_terminated"} :
       history' = Append(history, Event(type, 0))
  /\ results' = results

Concludes ==
  /\ ~Closed(history)
  /\ \E s \in Step, type \in {"step_completed", "step_failed"} :
       /\ s \notin results
       /\ history' = Append(history, Event(type, s))
       /\ results' = results \cup {s}

Decides ==
  /\ ~Closed(history)
  /\ \E mode \in {"none", "live", "full"} :
       /\ history' = history \o DecisionEvents(history, mode)
       /\ \A s \in NewSteps(history, mode) : status'[<<"step", s>>] # "absent"
  /\ results' = results

HistoryStep == Keeps \/ Logs \/ Hears \/ Concludes \/ Decides

(* The parts of a delivery. *)
LEMMA DeliveryParts ==
  ASSUME NEW d \in Delivery
  PROVE  /\ d[1] \in TaskId
         /\ d[1] \in StepTask => StepOf(d) \in Step
         /\ d[1] \in StepTask <=> d[1] \notin WorkflowTask
BY DEF Delivery, TaskId, StepTask, WorkflowTask, StepOf

(* A step's result is recorded for an open run, once.                       *)
LEMMA RecordResultKeepsOrConcludes ==
  ASSUME NEW d \in Delivery, d[1] \in StepTask,
         NEW type \in {"step_completed", "step_failed"},
         RecordResult(d, type)
  PROVE  Keeps \/ Concludes
BY DeliveryParts DEF RecordResult, Recordable, Keeps, Concludes

(* A decision is recorded only while the history is the one it was computed *)
(* from (recorder.ts, expectedSeq).                                         *)
LEMMA RecordDecisionKeepsOrDecides ==
  ASSUME TypeInv, NEW d \in Delivery, RecordDecision(d)
  PROVE  Keeps \/ Decides
<1>1. CASE d[1] \in decided \/ Closed(history) \/ Stale(d)
  BY <1>1 DEF RecordDecision, Keeps
<1>2. CASE ~(d[1] \in decided \/ Closed(history) \/ Stale(d))
  <2>1. /\ history' = history \o Decision(d)
        /\ ~Closed(history)
        /\ results' = results
        /\ job[d].seen = Len(history)
    BY <1>2 DEF RecordDecision, Stale
  <2>2. Seen(d) = history
    BY <2>1, SubSeqFull DEF Seen, TypeInv, TypeOK
  <2>3. job[d].mode \in {"none", "live", "full"}
    BY DEF TypeInv, Handler
  <2>4. ASSUME NEW s \in NewSteps(history, job[d].mode)
        PROVE  status'[<<"step", s>>] # "absent"
    <3>1. <<"step", s>> \in TaskId
      BY DEF NewSteps, Issued, TaskId, StepTask
    <3>2. QED
      BY <1>2, <2>2, <3>1 DEF RecordDecision, WithStepTasks, WithoutWaiting
  <2>5. QED
    BY <2>1, <2>2, <2>3, <2>4 DEF Decision, Decides
<1>3. QED
  BY <1>1, <1>2

(* Every step is one of the few things that can happen to the log.          *)
LEMMA LogStep ==
  ASSUME TypeInv, HandlerShape, [Next]_vars
  PROVE  HistoryStep
<1> USE DEF HistoryStep
<1>1. ASSUME NEW t \in TaskId, Deliver(t) \/ ReclaimOrphan(t) \/ LoseLease(t) \/ Release(t)
      PROVE  Keeps
  BY <1>1 DEF Deliver, ReclaimOrphan, LoseLease, TakeAway, Release, runVars, Keeps
<1>2. ASSUME NEW d \in Delivery,
             \/ ReadRun(d) \/ Load(d) \/ FindMark(d) \/ MarkWaiting(d)
             \/ EnsureStepTasks(d) \/ AckDecision(d) \/ ParkDecision(d)
             \/ CheckResult(d) \/ NextAttempt(d) \/ StepSucceeds(d) \/ StepFails(d)
             \/ AckResult(d) \/ AckAnyway(d) \/ NackRetry(d) \/ Wake(d)
             \/ AckErrs(d) \/ Vanish(d)
      PROVE  Keeps
  BY <1>2 DEF ReadRun, Load, FindMark, MarkWaiting, EnsureStepTasks, AckDecision,
              ParkDecision, CheckResult, NextAttempt, StepSucceeds, StepFails, AckResult,
              AckAnyway, NackRetry, Wake, AckErrs, Vanish, runVars, Keeps
<1>3. ASSUME NEW d \in Delivery, RecordDecision(d)
      PROVE  Keeps \/ Decides
  BY <1>3, RecordDecisionKeepsOrDecides
<1>4. ASSUME NEW d \in Delivery, RecordSuccess(d) \/ RecordErrs(d)
      PROVE  Keeps \/ Concludes
  <2>1. d[1] \in StepTask
    BY <1>4 DEF RecordSuccess, RecordErrs
  <2>2. RecordResult(d, "step_completed") \/ Keeps
    BY <1>4 DEF RecordSuccess, RecordErrs, Keeps
  <2>3. QED
    BY <2>1, <2>2, RecordResultKeepsOrConcludes
<1>5. ASSUME NEW d \in Delivery, RecordFatal(d) \/ Bury(d)
      PROVE  Keeps \/ Concludes
  <2>1. d[1] \in StepTask
    BY <1>5 DEF RecordFatal, Bury, At, HandlerShape, ShapeOf, StepPc
  <2>2. RecordResult(d, "step_failed") \/ Keeps
    BY <1>5 DEF RecordFatal, Bury, Keeps
  <2>3. QED
    BY <2>1, <2>2, RecordResultKeepsOrConcludes
<1>6. ASSUME NEW d \in Delivery, LogFailure(d)
      PROVE  Keeps \/ Logs
  <2>1. StepOf(d) \in Step
    BY <1>6, DeliveryParts DEF LogFailure, At, HandlerShape, ShapeOf, StepPc
  <2>2. QED
    BY <1>6, <2>1 DEF LogFailure, Keeps, Logs
<1>7. ASSUME NEW s \in Step, Requeue(s)
      PROVE  Keeps
  BY <1>7 DEF Requeue, Keeps
<1>8. ASSUME SignalRun \/ CancelRun \/ TerminateRun
      PROVE  Hears
  BY <1>8 DEF SignalRun, CancelRun, TerminateRun, Tell, Hears
<1>9. ASSUME RecoverStalled \/ UNCHANGED vars
      PROVE  Keeps
  BY <1>9 DEF RecoverStalled, vars, runVars, Keeps
<1>10. QED
  BY <1>1, <1>2, <1>3, <1>4, <1>5, <1>6, <1>7, <1>8, <1>9 DEF Next, HandlerStep

-----------------------------------------------------------------------------
(* What the log keeps *)

(* An event a step adds: it logs a failed attempt, tells an open run         *)
(* something, gives a step without one its verdict, schedules a new step or  *)
(* closes the run, as the last event added.                                  *)
Added(i) ==
  \/ \E s \in Step : history'[i] = Event("step_attempt_failed", s)
  \/ /\ ~Closed(history)
     /\ \/ \E type \in {"signal_received", "cancel_requested"} :
             history'[i] = Event(type, 0)
        \/ \E s \in Step \ results, type \in {"step_completed", "step_failed"} :
             /\ history'[i] = Event(type, s)
             /\ results' = results \cup {s}
             /\ i = Len(history) + 1
             /\ Len(history') = Len(history) + 1
        \/ \E s \in Step \ Scheduled(history) : history'[i] = Event("step_scheduled", s)
        \/ \E type \in ClosingTypes :
             /\ history'[i] = Event(type, 0)
             /\ i = Len(history')

(* The event types are different. *)
LEMMA EventsDiffer ==
  /\ \A type1, type2, s1, s2 :
       Event(type1, s1) = Event(type2, s2) => type1 = type2 /\ s1 = s2
  /\ \A type, s : Event(type, s).type = type /\ Event(type, s).step = s
BY DEF Event

(* The events a step may append are rows of the log.                        *)
LEMMA EventRows ==
  /\ \A s \in Step, type \in {"step_scheduled", "step_completed", "step_failed",
                             "step_attempt_failed"} : Event(type, s) \in EventRow
  /\ \A type \in ClosingTypes \cup {"signal_received", "cancel_requested"} :
       Event(type, 0) \in EventRow
BY StepsFinite DEF Event, EventRow, EventType, ClosingTypes, Step

(* Where the events of a log and of one that is longer by an event stand.   *)
LEMMA AppendPlaces ==
  ASSUME history \in Log, NEW e \in EventRow, history' = Append(history, e)
  PROVE  /\ history' \in Log
         /\ Len(history) \in Nat /\ DOMAIN history = 1..Len(history)
         /\ Len(history') = Len(history) + 1 /\ DOMAIN history' = 1..Len(history')
         /\ \A i \in 1..Len(history) : history'[i] = history[i]
         /\ history'[Len(history) + 1] = e
BY AppendProperties, LenProperties DEF Log

(* The log only grows, and by events of these kinds.                        *)
LEMMA LogGrows ==
  ASSUME TypeInv, HistoryStep
  PROVE  /\ history \in Log /\ history' \in Log
         /\ Len(history) \in Nat /\ DOMAIN history = 1..Len(history)
         /\ Len(history') \in Nat /\ DOMAIN history' = 1..Len(history')
         /\ Len(history) <= Len(history')
         /\ \A i \in 1..Len(history) : history'[i] = history[i]
         /\ results \subseteq results'
         /\ \A i \in (Len(history) + 1)..Len(history') : Added(i)
<1>1. history \in Log /\ Len(history) \in Nat /\ DOMAIN history = 1..Len(history)
  BY LenProperties DEF TypeInv, TypeOK, Log, EventRow
<1>2. CASE Keeps
  BY <1>1, <1>2 DEF Keeps
<1>3. CASE Logs
  <2>1. PICK s \in Step : history' = Append(history, Event("step_attempt_failed", s))
                          /\ results' = results
    BY <1>3 DEF Logs
  <2>2. Event("step_attempt_failed", s) \in EventRow
    BY EventRows
  <2>3. /\ history' \in Log
        /\ Len(history') = Len(history) + 1 /\ DOMAIN history' = 1..Len(history')
        /\ \A i \in 1..Len(history) : history'[i] = history[i]
        /\ history'[Len(history) + 1] = Event("step_attempt_failed", s)
    BY <1>1, <2>1, <2>2, AppendPlaces
  <2>4. Added(Len(history) + 1)
    BY <2>3 DEF Added
  <2>5. QED
    BY <1>1, <2>1, <2>3, <2>4
<1>4. CASE Hears
  <2>1. PICK type \in {"signal_received", "cancel_requested", "run_terminated"} :
               history' = Append(history, Event(type, 0))
    BY <1>4 DEF Hears
  <2>2. Event(type, 0) \in EventRow /\ ~Closed(history) /\ results' = results
    BY <1>4, EventRows DEF Hears, ClosingTypes
  <2>3. type \in {"signal_received", "cancel_requested"} \/ type \in ClosingTypes
    BY DEF ClosingTypes
  <2>4. /\ history' \in Log
        /\ Len(history') = Len(history) + 1 /\ DOMAIN history' = 1..Len(history')
        /\ \A i \in 1..Len(history) : history'[i] = history[i]
        /\ history'[Len(history) + 1] = Event(type, 0)
    BY <1>1, <2>1, <2>2, AppendPlaces
  <2>5. Added(Len(history) + 1)
    BY <2>2, <2>3, <2>4 DEF Added
  <2>6. QED
    BY <1>1, <2>2, <2>4, <2>5
<1>5. CASE Concludes
  <2>1. PICK s \in Step, type \in {"step_completed", "step_failed"} :
               /\ s \notin results
               /\ history' = Append(history, Event(type, s))
               /\ results' = results \cup {s}
    BY <1>5 DEF Concludes
  <2>2. Event(type, s) \in EventRow /\ ~Closed(history)
    BY <1>5, EventRows DEF Concludes
  <2>3. /\ history' \in Log
        /\ Len(history') = Len(history) + 1 /\ DOMAIN history' = 1..Len(history')
        /\ \A i \in 1..Len(history) : history'[i] = history[i]
        /\ history'[Len(history) + 1] = Event(type, s)
    BY <1>1, <2>1, <2>2, AppendPlaces
  <2>4. Added(Len(history) + 1)
    BY <2>1, <2>2, <2>3 DEF Added
  <2>5. QED
    BY <1>1, <2>1, <2>3, <2>4
<1>6. CASE Decides
  <2>1. PICK mode \in {"none", "live", "full"} :
               history' = history \o DecisionEvents(history, mode)
    BY <1>6 DEF Decides
  <2> DEFINE k == DecisionEvents(history, mode)
  <2>2. /\ k \in Log
        /\ \A i \in DOMAIN k :
             \/ \E s \in NewSteps(history, mode) : k[i] = Event("step_scheduled", s)
             \/ Outcome(history) # "suspended" /\ i = Len(k) /\ k[i] = Event(Outcome(history), 0)
    BY <1>1, DecisionHas
  <2> HIDE DEF k
  <2>3. /\ history' \in Log
        /\ Len(k) \in Nat /\ DOMAIN k = 1..Len(k)
        /\ Len(history') = Len(history) + Len(k) /\ DOMAIN history' = 1..(Len(history) + Len(k))
        /\ \A i \in 1..Len(history) : history'[i] = history[i]
        /\ \A i \in 1..Len(k) : history'[Len(history) + i] = k[i]
    BY <1>1, <2>1, <2>2, ConcatPlaces DEF k
  <2>4. NewSteps(history, mode) \subseteq Step \ Scheduled(history)
    BY DEF NewSteps, Issued
  <2>5. Outcome(history) # "suspended" => Outcome(history) \in ClosingTypes
    BY OutcomeType DEF ClosingTypes
  <2>6. ~Closed(history) /\ results' = results
    BY <1>6 DEF Decides
  <2>7. \A j \in 1..Len(k) : Added(Len(history) + j)
    BY <1>1, <2>2, <2>3, <2>4, <2>5, <2>6 DEF Added
  <2>8. \A i \in (Len(history) + 1)..Len(history') : Added(i)
    <3>1. ASSUME NEW i \in (Len(history) + 1)..Len(history')
          PROVE  i - Len(history) \in 1..Len(k) /\ i = Len(history) + (i - Len(history))
      BY <1>1, <2>3
    <3>2. QED
      BY <3>1, <2>7
  <2>9. QED
    BY <1>1, <2>3, <2>6, <2>8
<1>7. QED
  BY <1>2, <1>3, <1>4, <1>5, <1>6 DEF HistoryStep

(* What was on record stays on record. *)
LEMMA LogRemembers ==
  ASSUME TypeInv, HistoryStep
  PROVE  /\ \A type, s : Has(history, type, s) => Has(history', type, s)
         /\ Closed(history) => Closed(history')
BY LogGrows DEF Has, Closed

(* A step gets one verdict, and its result row with it.                     *)
LEMMA VerdictRowsStep ==
  ASSUME TypeInv, VerdictRows, HistoryStep
  PROVE  VerdictRows'
<1> SUFFICES ASSUME NEW s \in Step
             PROVE  /\ s \in results' <=> Verdicts(s)' # {}
                    /\ \A i, j \in Verdicts(s)' : i = j
  BY DEF VerdictRows
<1> DEFINE Rows == {Event("step_completed", s), Event("step_failed", s)}
<1>1. /\ s \in results <=> Verdicts(s) # {}
      /\ \A i, j \in Verdicts(s) : i = j
  BY DEF VerdictRows
<1>2. /\ Verdicts(s) = {i \in DOMAIN history : history[i] \in Rows}
      /\ Verdicts(s)' = {i \in DOMAIN history' : history'[i] \in Rows}
  BY DEF Verdicts
<1>3. CASE \E i \in (Len(history) + 1)..Len(history') : history'[i] \in Rows
  <2>1. PICK i \in (Len(history) + 1)..Len(history') : history'[i] \in Rows
    BY <1>3
  <2>2. \E u \in Step \ results, type \in {"step_completed", "step_failed"} :
          /\ history'[i] = Event(type, u)
          /\ results' = results \cup {u}
          /\ i = Len(history) + 1
          /\ Len(history') = Len(history) + 1
    <3>1. Added(i)
      BY <2>1, LogGrows
    <3>2. history'[i].type \in {"step_completed", "step_failed"}
      BY <2>1, EventsDiffer
    <3>3. QED
      BY <3>1, <3>2, EventsDiffer DEF Added, ClosingTypes
  <2>3. s \notin results /\ s \in results' /\ i = Len(history) + 1
        /\ Len(history') = Len(history) + 1
    BY <2>1, <2>2, EventsDiffer
  <2>4. Verdicts(s) = {}
    BY <2>3, <1>1
  <2>5. \A j \in Verdicts(s)' : j = i
    BY <2>3, <2>4, <1>2, LogGrows
  <2>6. i \in Verdicts(s)'
    BY <2>1, <1>2, LogGrows
  <2>7. QED
    BY <2>3, <2>5, <2>6
<1>4. CASE \A i \in (Len(history) + 1)..Len(history') : history'[i] \notin Rows
  <2>1. Verdicts(s)' = Verdicts(s)
    BY <1>2, <1>4, LogGrows
  <2>2. s \in results' <=> s \in results
    <3>1. CASE Concludes
      <4>1. PICK u \in Step, type \in {"step_completed", "step_failed"} :
                   /\ history' = Append(history, Event(type, u))
                   /\ results' = results \cup {u}
        BY <3>1 DEF Concludes
      <4>2. Len(history') = Len(history) + 1 /\ history'[Len(history) + 1] = Event(type, u)
        BY <4>1, EventRows, AppendPlaces, LogGrows
      <4>3. u # s
        BY <4>2, <1>4, LogGrows
      <4>4. QED
        BY <4>1, <4>3
    <3>2. CASE ~Concludes
      BY <3>2 DEF HistoryStep, Keeps, Logs, Hears, Decides
    <3>3. QED
      BY <3>1, <3>2
  <2>3. QED
    BY <2>1, <2>2, <1>1
<1>5. QED
  BY <1>3, <1>4

(* A step is scheduled when it is new to the log, and only once then.       *)
LEMMA ScheduledOnceStep ==
  ASSUME TypeInv, ScheduledOnce, HistoryStep
  PROVE  ScheduledOnce'
<1> SUFFICES ASSUME NEW i \in DOMAIN history', NEW j \in DOMAIN history',
                    history'[i].type = "step_scheduled", history'[i] = history'[j]
             PROVE  i = j
  BY DEF ScheduledOnce
<1>1. CASE i \in DOMAIN history /\ j \in DOMAIN history
  BY <1>1, LogGrows DEF ScheduledOnce
<1>2. ASSUME NEW m \in DOMAIN history, NEW n \in (Len(history) + 1)..Len(history'),
             history'[n].type = "step_scheduled", history'[m] = history'[n]
      PROVE  FALSE
  <2>1. PICK s \in Step \ Scheduled(history) : history'[n] = Event("step_scheduled", s)
    <3>1. Added(n)
      BY <1>2, LogGrows
    <3>2. QED
      BY <1>2, <3>1, EventsDiffer DEF Added, ClosingTypes
  <2>2. history[m] = Event("step_scheduled", s)
    BY <1>2, <2>1, LogGrows
  <2>3. s \in Scheduled(history)
    BY <2>2 DEF Scheduled, Has
  <2>4. QED
    BY <2>1, <2>3
<1>3. CASE i \notin DOMAIN history /\ j \notin DOMAIN history
  <2>1. CASE Decides
    <3>1. PICK mode : history' = history \o DecisionEvents(history, mode)
      BY <2>1 DEF Decides
    <3> DEFINE k == DecisionEvents(history, mode)
    <3>2. /\ k \in Log
          /\ \A m, n \in DOMAIN k : k[m].type = "step_scheduled" /\ k[m] = k[n] => m = n
      BY LogGrows, DecisionHas
    <3> HIDE DEF k
    <3>3. /\ Len(k) \in Nat /\ DOMAIN k = 1..Len(k)
          /\ DOMAIN history' = 1..(Len(history) + Len(k))
          /\ \A m \in 1..Len(k) : history'[Len(history) + m] = k[m]
      BY <3>1, <3>2, LogGrows, ConcatPlaces DEF k
    <3> DEFINE x == i - Len(history)
               y == j - Len(history)
    <3>4. x \in DOMAIN k /\ y \in DOMAIN k /\ i = Len(history) + x /\ j = Len(history) + y
      BY <1>3, <3>3, LogGrows
    <3> HIDE DEF x, y
    <3>5. k[x].type = "step_scheduled" /\ k[x] = k[y]
      BY <3>3, <3>4
    <3>6. QED
      BY <3>2, <3>4, <3>5
  <2>2. CASE ~Decides
    <3>1. Len(history') <= Len(history) + 1
      BY <2>2, LogGrows, EventRows, AppendPlaces
         DEF HistoryStep, Keeps, Logs, Hears, Concludes, ClosingTypes
    <3>2. QED
      BY <1>3, <3>1, LogGrows
  <2>3. QED
    BY <2>1, <2>2
<1>4. QED
  BY <1>1, <1>2, <1>3, LogGrows

(* Only failed attempts follow the event that closes the run.               *)
LEMMA ClosedIsFinalStep ==
  ASSUME TypeInv, ClosedIsFinal, HistoryStep
  PROVE  ClosedIsFinal'
<1> SUFFICES ASSUME NEW i \in DOMAIN history', history'[i].type \in ClosingTypes,
                    NEW j \in (i + 1)..Len(history')
             PROVE  history'[j].type = "step_attempt_failed"
  BY DEF ClosedIsFinal
<1>1. CASE i \in DOMAIN history /\ j \in DOMAIN history
  BY <1>1, LogGrows DEF ClosedIsFinal
<1>2. CASE i \in DOMAIN history /\ j \notin DOMAIN history
  <2>1. Closed(history)
    BY <1>2, LogGrows DEF Closed
  <2>2. j \in (Len(history) + 1)..Len(history')
    BY <1>2, LogGrows
  <2>3. QED
    BY <2>1, <2>2, LogGrows, EventsDiffer DEF Added
<1>3. CASE i \notin DOMAIN history
  <2>1. Added(i)
    BY <1>3, LogGrows
  <2>2. i = Len(history')
    BY <2>1, EventsDiffer DEF Added, ClosingTypes
  <2>3. QED
    BY <2>2, LogGrows
<1>4. QED
  BY <1>1, <1>2, <1>3

(* The outcome "completed" is computed from the log it is appended to.      *)
LEMMA CompletedInFullStep ==
  ASSUME TypeInv, CompletedInFull, HistoryStep
  PROVE  CompletedInFull'
<1> SUFFICES ASSUME Has(history', "run_completed", 0)
             PROVE  Step \subseteq Completed(history')
  BY DEF CompletedInFull
<1>1. Completed(history) \subseteq Completed(history')
  BY LogRemembers DEF Completed
<1>2. CASE Has(history, "run_completed", 0)
  BY <1>1, <1>2 DEF CompletedInFull
<1>3. CASE ~Has(history, "run_completed", 0)
  <2>1. Decides
    <3>1. PICK i \in DOMAIN history' : history'[i] = Event("run_completed", 0)
      BY DEF Has
    <3>2. i \notin DOMAIN history
      BY <1>3, <3>1, LogGrows DEF Has
    <3>3. ~Keeps
      BY <3>2 DEF Keeps
    <3>4. ASSUME NEW e \in EventRow, history' = Append(history, e)
          PROVE  e = Event("run_completed", 0)
      BY <3>1, <3>2, <3>4, AppendPlaces, LogGrows
    <3>5. QED
      BY <3>3, <3>4, EventsDiffer, EventRows
         DEF HistoryStep, Logs, Hears, Concludes, ClosingTypes
  <2>2. PICK mode : history' = history \o DecisionEvents(history, mode)
    BY <2>1 DEF Decides
  <2>3. Has(DecisionEvents(history, mode), "run_completed", 0)
    BY <1>3, <2>2, LogGrows, DecisionHas, ConcatHas
  <2>4. Outcome(history) = "run_completed"
    BY <2>3, LogGrows, DecisionHas, EventsDiffer DEF Has
  <2>5. Step \subseteq Completed(history)
    BY <2>4 DEF Outcome
  <2>6. QED
    BY <1>1, <2>5
<1>4. QED
  BY <1>2, <1>3

-----------------------------------------------------------------------------
(* What a step does to the task table *)

(* A task row stays; a step task that a step closes belongs to a step that  *)
(* is decided, or to a closed run.                                          *)
TasksMove ==
  \A t \in TaskId :
    /\ status[t] # "absent" => status'[t] # "absent"
    /\ t \in StepTask /\ status[t] # "closed" /\ status'[t] = "closed" =>
         t[2] \in results' \/ Closed(history')

(* A decision is recorded whole: its events, the tasks of its steps, and    *)
(* the withdrawal of what waits when it closes the run.                     *)
Recorded(d) ==
  /\ history' = history \o DecisionEvents(history, job[d].mode)
  /\ status' = LET st == WithStepTasks(status, NewSteps(history, job[d].mode))
               IN IF Outcome(history) = "suspended" THEN st ELSE WithoutWaiting(st)

LEMMA RecordedOrLeft ==
  ASSUME TypeInv, NEW d \in Delivery, RecordDecision(d)
  PROVE  Recorded(d) \/ UNCHANGED <<history, status>>
<1>1. CASE d[1] \in decided \/ Closed(history) \/ Stale(d)
  BY <1>1 DEF RecordDecision
<1>2. CASE ~(d[1] \in decided \/ Closed(history) \/ Stale(d))
  <2>1. Seen(d) = history
    BY <1>2, SubSeqFull DEF Stale, Seen, TypeInv, TypeOK
  <2>2. QED
    BY <1>2, <2>1 DEF RecordDecision, Recorded, Decision, Suspended
<1>3. QED
  BY <1>1, <1>2

(* A delivery settles its task only in its own hands. *)
LEMMA SettledMoves ==
  ASSUME TypeInv, NEW d \in Delivery, NEW to, to # "absent", Settled(d, to),
         to = "closed" /\ d[1] \in StepTask => StepOf(d) \in results' \/ Closed(history')
  PROVE  TasksMove
<1>1. \A t \in TaskId : (t = d[1] /\ status'[t] = to) \/ status'[t] = status[t]
  BY DEF Settled, TypeInv, TypeOK
<1>2. QED
  BY <1>1 DEF TasksMove, StepOf

(* Opening the row of a wake-up closes nothing. *)
LEMMA WakeMoves ==
  ASSUME TypeInv, status' = WithWake(status)
  PROVE  TasksMove
<1> DEFINE w == NewWake
<1>1. status' = [status EXCEPT ![w] = "open"]
  BY DEF WithWake
<1> HIDE DEF w
<1>2. \A t \in TaskId : status'[t] = status[t] \/ status'[t] = "open"
  BY <1>1 DEF TypeInv, TypeOK
<1>3. QED
  BY <1>2 DEF TasksMove

(* Every step treats the task table this way.                               *)
LEMMA TaskStep ==
  ASSUME TypeInv, HandlerShape, [Next]_vars
  PROVE  TasksMove
<1>1. ASSUME NEW t \in TaskId, Deliver(t) \/ ReclaimOrphan(t) \/ LoseLease(t) \/ Release(t)
      PROVE  TasksMove
  BY <1>1 DEF Deliver, ReclaimOrphan, LoseLease, TakeAway, Release, TypeInv, TypeOK, TasksMove
<1>2. ASSUME NEW d \in Delivery,
             \/ ReadRun(d) \/ Load(d) \/ FindMark(d) \/ MarkWaiting(d)
             \/ CheckResult(d) \/ NextAttempt(d) \/ StepSucceeds(d) \/ StepFails(d)
             \/ RecordSuccess(d) \/ RecordErrs(d) \/ LogFailure(d) \/ RecordFatal(d)
             \/ Vanish(d)
      PROVE  TasksMove
  BY <1>2 DEF ReadRun, Load, FindMark, MarkWaiting, CheckResult, NextAttempt, StepSucceeds,
              StepFails, RecordSuccess, RecordErrs, LogFailure, RecordFatal, Vanish,
              queueVars, TasksMove
<1>3. ASSUME NEW d \in Delivery, RecordDecision(d)
      PROVE  TasksMove
  <2>1. CASE UNCHANGED <<history, status>>
    BY <2>1 DEF TasksMove
  <2>2. CASE Recorded(d)
    <3>1. CASE Outcome(history) = "suspended"
      BY <2>2, <3>1 DEF Recorded, WithStepTasks, TasksMove
    <3>2. CASE Outcome(history) # "suspended"
      <4>1. Closed(history')
        <5>1. history \in Log
          BY DEF TypeInv, TypeOK, Log, EventRow
        <5>2. Has(DecisionEvents(history, job[d].mode), Outcome(history), 0)
          BY <5>1, <3>2, DecisionHas
        <5>3. Closed(DecisionEvents(history, job[d].mode))
          BY <5>2, <3>2, OutcomeType, EventsDiffer DEF Has, Closed, ClosingTypes
        <5>4. QED
          BY <2>2, <5>1, <5>3, DecisionHas, ConcatHas DEF Recorded
      <4>2. \A t \in TaskId : status[t] # "absent" => status'[t] # "absent"
        BY <2>2, <3>2 DEF Recorded, WithStepTasks, WithoutWaiting
      <4>3. QED
        BY <4>1, <4>2 DEF TasksMove
    <3>3. QED
      BY <3>1, <3>2
  <2>3. QED
    BY <1>3, <2>1, <2>2, RecordedOrLeft
<1>4. ASSUME NEW d \in Delivery, EnsureStepTasks(d)
      PROVE  TasksMove
  BY <1>4 DEF EnsureStepTasks, WithStepTasks, TasksMove
<1>5. ASSUME NEW d \in Delivery, AckDecision(d) \/ ParkDecision(d) \/ NackRetry(d)
      PROVE  TasksMove
  <2>1. \/ Settled(d, "closed") /\ d[1] \notin StepTask
        \/ Settled(d, "parked")
        \/ Settled(d, "open")
    BY <1>5, DeliveryParts DEF AckDecision, ParkDecision, NackRetry
  <2>2. QED
    BY <2>1, SettledMoves
<1>6. ASSUME NEW d \in Delivery, AckResult(d) \/ AckErrs(d) \/ AckAnyway(d)
      PROVE  TasksMove
  <2>1. StepOf(d) \in results' \/ Closed(history')
    BY <1>6 DEF AckResult, AckErrs, AckAnyway, At, HandlerShape, ShapeOf, runVars
  <2>2. Settled(d, "closed") \/ UNCHANGED status
    BY <1>6 DEF AckResult, AckErrs, AckAnyway
  <2>3. QED
    BY <2>1, <2>2, SettledMoves DEF TasksMove
<1>7. ASSUME NEW d \in Delivery, Bury(d)
      PROVE  TasksMove
  <2>1. CASE LeaseOf(d)
    <3>1. StepOf(d) \in results' \/ Closed(history')
      BY <1>7, <2>1 DEF Bury, RecordResult, Recordable
    <3>2. QED
      BY <1>7, <2>1, <3>1, SettledMoves DEF Bury
  <2>2. CASE ~LeaseOf(d)
    BY <1>7, <2>2 DEF Bury, TasksMove
  <2>3. QED
    BY <2>1, <2>2
<1>8. ASSUME \/ \E d \in Delivery : Wake(d)
             \/ SignalRun \/ CancelRun \/ RecoverStalled
      PROVE  TasksMove
  BY <1>8, WakeMoves DEF Wake, SignalRun, CancelRun, Tell, RecoverStalled
<1>9. ASSUME TerminateRun
      PROVE  TasksMove
  <2>1. Closed(history')
    <3>1. history \in Log /\ history' = Append(history, Event("run_terminated", 0))
      BY <1>9 DEF TerminateRun, TypeInv, TypeOK, Log, EventRow
    <3>2. QED
      BY <3>1, EventRows, EventsDiffer, AppendHas DEF ClosingTypes
  <2>2. QED
    BY <1>9, <2>1 DEF TerminateRun, WithoutWaiting, TasksMove
<1>10. ASSUME NEW s \in Step, Requeue(s)
       PROVE  TasksMove
  BY <1>10 DEF Requeue, TypeInv, TypeOK, TasksMove
<1>11. ASSUME UNCHANGED vars
       PROVE  TasksMove
  BY <1>11 DEF vars, queueVars, TasksMove
<1>12. QED
  BY <1>1, <1>2, <1>3, <1>4, <1>5, <1>6, <1>7, <1>8, <1>9, <1>10, <1>11
     DEF Next, HandlerStep

-----------------------------------------------------------------------------
(* What a step does to the handlers *)

(* Only the handler of d moves; it knows no more of the history than there  *)
(* is.                                                                      *)
Moves(d) ==
  /\ job' \in [Delivery -> Handler]
  /\ \A e \in Delivery : e # d => job'[e] = job[e]
  /\ job'[d].seen \in 0..Len(history')

(* Where a handler goes next, with what it has found out, is a handler.     *)
LEMMA HandlerGoes ==
  ASSUME NEW h \in Handler
  PROVE  /\ [h EXCEPT !.pc = "mark", !.rec = TRUE] \in Handler
         /\ [h EXCEPT !.pc = "mark", !.rec = TRUE].pc = "mark"
         /\ [h EXCEPT !.pc = "mark", !.rec = TRUE].seen = h.seen
         /\ \A mark \in {"none", "external", "dead_letter"} :
              /\ [h EXCEPT !.pc = "marking", !.mark = mark] \in Handler
              /\ [h EXCEPT !.pc = "marking", !.mark = mark].pc = "marking"
              /\ [h EXCEPT !.pc = "marking", !.mark = mark].seen = h.seen
         /\ \A n \in Nat :
              /\ [h EXCEPT !.pc = "run", !.attempt = n] \in Handler
              /\ [h EXCEPT !.pc = "run", !.attempt = n].pc = "run"
              /\ [h EXCEPT !.pc = "run", !.attempt = n].seen = h.seen
<1>1. /\ [h EXCEPT !.pc = "mark", !.rec = TRUE] \in Handler
      /\ [h EXCEPT !.pc = "mark", !.rec = TRUE].pc = "mark"
      /\ [h EXCEPT !.pc = "mark", !.rec = TRUE].seen = h.seen
  BY DEF Handler, Pc
<1>2. ASSUME NEW mark \in {"none", "external", "dead_letter"}
      PROVE  /\ [h EXCEPT !.pc = "marking", !.mark = mark] \in Handler
             /\ [h EXCEPT !.pc = "marking", !.mark = mark].pc = "marking"
             /\ [h EXCEPT !.pc = "marking", !.mark = mark].seen = h.seen
  BY DEF Handler, Pc
<1>3. ASSUME NEW n \in Nat
      PROVE  /\ [h EXCEPT !.pc = "run", !.attempt = n] \in Handler
             /\ [h EXCEPT !.pc = "run", !.attempt = n].pc = "run"
             /\ [h EXCEPT !.pc = "run", !.attempt = n].seen = h.seen
  BY DEF Handler, Pc
<1>4. QED
  BY <1>1, <1>2, <1>3

LEMMA GotoMoves ==
  ASSUME TypeInv, HistoryStep, NEW d \in Delivery, NEW pc \in Pc, Goto(d, pc)
  PROVE  /\ Moves(d)
         /\ job'[d].pc = pc /\ job'[d].err = job[d].err
<1>1. job[d] \in Handler /\ job[d].seen \in 0..Len(history')
  BY LogGrows, SMTT(20) DEF TypeInv, TypeOK
<1>2. job' = [job EXCEPT ![d] = [job[d] EXCEPT !.pc = pc]]
  BY DEF Goto
<1>3. [job[d] EXCEPT !.pc = pc] \in Handler
  BY <1>1 DEF Handler
<1>4. QED
  BY <1>1, <1>2, <1>3 DEF Moves, TypeInv, Handler

LEMMA EndMoves ==
  ASSUME TypeInv, HistoryStep, NEW d \in Delivery, End(d)
  PROVE  /\ Moves(d)
         /\ job'[d].pc = "none"
<1>1. Idle \in Handler
  BY DEF Idle, Handler, Pc
<1>2. QED
  BY <1>1, LogGrows DEF End, Moves, TypeInv, Idle

LEMMA FailingMoves ==
  ASSUME TypeInv, HistoryStep, NEW d \in Delivery, NEW err, Failing(d, err)
  PROVE  /\ Moves(d)
         /\ job'[d].pc = "logFailure" /\ job'[d].err # "none"
<1>1. job[d] \in Handler /\ job[d].seen \in 0..Len(history')
  BY LogGrows, SMTT(20) DEF TypeInv, TypeOK
<1> DEFINE g == GivenUp(d, err)
<1>2. g \in {"retry", "fatal", "exhausted"}
  BY DEF GivenUp
<1>3. job' = [job EXCEPT ![d] = [job[d] EXCEPT !.pc = "logFailure", !.err = g]]
  BY DEF Failing
<1> HIDE DEF g
<1>4. [job[d] EXCEPT !.pc = "logFailure", !.err = g] \in Handler
  BY <1>1, <1>2 DEF Handler, Pc
<1>5. QED
  BY <1>1, <1>2, <1>3, <1>4 DEF Moves, TypeInv, Handler

(* A handler that does not move keeps its shape. *)
LEMMA ShapeStays ==
  ASSUME TypeInv, HandlerShape, HistoryStep, NEW d \in Delivery, job'[d] = job[d]
  PROVE  ShapeOf(d)'
<1>1. results \subseteq results' /\ (Closed(history) => Closed(history'))
  BY LogGrows, LogRemembers
<1>2. QED
  BY <1>1 DEF HandlerShape, ShapeOf

JobMoves == UNCHANGED job \/ \E d \in Delivery : Moves(d) /\ ShapeOf(d)'

(* Every step moves one handler at most, to a place that suits it.          *)
LEMMA JobStep ==
  ASSUME TypeInv, HandlerShape, HistoryStep, [Next]_vars
  PROVE  JobMoves
<1> USE DEF JobMoves
<1>1. ASSUME NEW t \in TaskId, Deliver(t)
      PROVE  \E d \in Delivery : Moves(d) /\ ShapeOf(d)'
  <2> DEFINE d == <<t, made[t] + 1>>
  <2>1. d \in Delivery
    BY <1>1, EngineAssumption DEF Deliver, Delivery, TypeInv, TypeOK, EngineAssumption
  <2>2. Goto(d, "start") /\ "start" \in Pc
    BY <1>1 DEF Deliver, Pc
  <2> HIDE DEF d
  <2>3. Moves(d) /\ job'[d].pc = "start"
    BY <2>1, <2>2, GotoMoves
  <2>4. QED
    BY <2>1, <2>3 DEF ShapeOf, WorkflowPc, StepPc
<1>2. ASSUME NEW t \in TaskId, ReclaimOrphan(t) \/ LoseLease(t) \/ Release(t)
      PROVE  UNCHANGED job
  BY <1>2 DEF ReclaimOrphan, LoseLease, TakeAway, Release
<1>3. ASSUME NEW d \in Delivery,
             \/ Vanish(d) \/ AckDecision(d) \/ ParkDecision(d) \/ NackRetry(d) \/ Bury(d)
             \/ Wake(d)
      PROVE  Moves(d) /\ ShapeOf(d)'
  <2>1. End(d)
    BY <1>3 DEF Vanish, AckDecision, ParkDecision, NackRetry, Bury, Wake
  <2>2. QED
    BY <2>1, EndMoves DEF ShapeOf, WorkflowPc, StepPc
<1>4. ASSUME NEW d \in Delivery, ReadRun(d)
      PROVE  Moves(d) /\ ShapeOf(d)'
  <2>1. d[1] \in WorkflowTask /\ \E pc \in {"ack", "load"} : Goto(d, pc)
    BY <1>4 DEF ReadRun
  <2>2. \E pc \in {"ack", "load"} : Moves(d) /\ job'[d].pc = pc
    BY <2>1, GotoMoves DEF Pc
  <2>3. QED
    BY <2>1, <2>2 DEF ShapeOf, WorkflowPc, StepPc
<1>5. ASSUME NEW d \in Delivery, Load(d)
      PROVE  Moves(d) /\ ShapeOf(d)'
  <2>1. d[1] \in WorkflowTask
    BY <1>5 DEF Load, At, HandlerShape, ShapeOf, WorkflowPc
  <2>2. CASE Goto(d, "park")
    BY <2>1, <2>2, GotoMoves DEF ShapeOf, WorkflowPc, StepPc, Pc
  <2>3. CASE ~Goto(d, "park")
    <3>1. PICK mode \in {"full"} \cup Modes :
                 job' = [job EXCEPT ![d] = [Idle EXCEPT !.pc = "record", !.mode = mode,
                                                        !.seen = Len(history)]]
      BY <1>5, <2>3 DEF Load
    <3>2. mode \in {"live", "full"}
      BY EngineAssumption DEF EngineAssumption
    <3> DEFINE x == [Idle EXCEPT !.pc = "record", !.mode = mode, !.seen = Len(history)]
    <3>3. x \in Handler /\ x.pc = "record" /\ x.seen = Len(history)
      BY <3>2, LogGrows DEF Idle, Handler, Pc
    <3> HIDE DEF x
    <3>4. job' = [job EXCEPT ![d] = x]
      BY <3>1 DEF x
    <3>5. QED
      BY <3>3, <3>4, LogGrows DEF Moves, TypeInv, ShapeOf, WorkflowPc, StepPc
  <2>4. QED
    BY <2>2, <2>3
<1>6. ASSUME NEW d \in Delivery, RecordDecision(d)
      PROVE  Moves(d) /\ ShapeOf(d)'
  <2>1. d[1] \in WorkflowTask /\ d[1] \notin StepTask
    BY <1>6, DeliveryParts DEF RecordDecision
  <2>2. CASE \E pc \in {"ensure", "ack"} : Goto(d, pc)
    <3>1. \E pc \in {"ensure", "ack"} : Moves(d) /\ job'[d].pc = pc
      BY <2>2, GotoMoves DEF Pc
    <3>2. QED
      BY <2>1, <3>1 DEF ShapeOf, WorkflowPc, StepPc
  <2>3. CASE job' = [job EXCEPT ![d].pc = "mark", ![d].rec = TRUE]
    <3> DEFINE x == [job[d] EXCEPT !.pc = "mark", !.rec = TRUE]
    <3>1. x \in Handler /\ x.pc = "mark" /\ x.seen = job[d].seen
      <4>1. job[d] \in Handler
        BY DEF TypeInv
      <4>2. QED
        BY <4>1, HandlerGoes, Zenon
    <3>2. job' = [job EXCEPT ![d] = x]
      BY <2>3
    <3>3. job[d].seen \in 0..Len(history')
      BY LogGrows DEF TypeInv, TypeOK
    <3> HIDE DEF x
    <3>4. QED
      BY <2>1, <3>1, <3>2, <3>3 DEF Moves, TypeInv, ShapeOf, WorkflowPc, StepPc
  <2>4. QED
    BY <1>6, <2>2, <2>3 DEF RecordDecision, AfterDecision
<1>7. ASSUME NEW d \in Delivery, FindMark(d)
      PROVE  Moves(d) /\ ShapeOf(d)'
  <2>1. d[1] \in WorkflowTask
    BY <1>7 DEF FindMark, At, HandlerShape, ShapeOf, WorkflowPc
  <2> DEFINE mark == WaitingOn(d)
             x == [job[d] EXCEPT !.pc = "marking", !.mark = mark]
  <2>2. mark \in {"none", "external", "dead_letter"}
    BY DEF WaitingOn
  <2>3. job' = [job EXCEPT ![d] = x]
    BY <1>7 DEF FindMark
  <2> HIDE DEF mark
  <2>4. x \in Handler /\ x.pc = "marking" /\ x.seen = job[d].seen
    <3>1. job[d] \in Handler
      BY DEF TypeInv
    <3>2. QED
      BY <2>2, <3>1, HandlerGoes, Zenon
  <2>5. job[d].seen \in 0..Len(history')
    BY LogGrows DEF TypeInv, TypeOK
  <2> HIDE DEF x
  <2>6. QED
    BY <2>1, <2>3, <2>4, <2>5 DEF Moves, TypeInv, ShapeOf, WorkflowPc, StepPc
<1>8. ASSUME NEW d \in Delivery, MarkWaiting(d) \/ EnsureStepTasks(d)
      PROVE  Moves(d) /\ ShapeOf(d)'
  <2>1. d[1] \in WorkflowTask
    BY <1>8 DEF MarkWaiting, EnsureStepTasks, At, HandlerShape, ShapeOf, WorkflowPc
  <2>2. \E pc \in {"ensure", "ack"} : Goto(d, pc)
    BY <1>8 DEF MarkWaiting, EnsureStepTasks, AfterDecision
  <2>3. \E pc \in {"ensure", "ack"} : Moves(d) /\ job'[d].pc = pc
    BY <2>2, GotoMoves DEF Pc
  <2>4. QED
    BY <2>1, <2>3 DEF ShapeOf, WorkflowPc, StepPc
<1>9. ASSUME NEW d \in Delivery, CheckResult(d)
      PROVE  Moves(d) /\ ShapeOf(d)'
  <2>1. /\ d[1] \in StepTask /\ results' = results
        /\ \/ StepOf(d) \in results /\ Goto(d, "ackKnown")
           \/ Goto(d, "attempt")
    BY <1>9 DEF CheckResult, runVars
  <2>2. /\ Moves(d)
        /\ \/ StepOf(d) \in results /\ job'[d].pc = "ackKnown"
           \/ job'[d].pc = "attempt"
    BY <2>1, GotoMoves DEF Pc
  <2>3. QED
    BY <2>1, <2>2 DEF ShapeOf, WorkflowPc, StepPc
<1>10. ASSUME NEW d \in Delivery, NextAttempt(d)
       PROVE  Moves(d) /\ ShapeOf(d)'
  <2>1. d[1] \in StepTask
    BY <1>10 DEF NextAttempt, At, HandlerShape, ShapeOf, StepPc
  <2> DEFINE n == attempts[StepOf(d)] + 1
             x == [job[d] EXCEPT !.pc = "run", !.attempt = n]
  <2>2. n \in Nat
    BY <2>1, DeliveryParts DEF TypeInv, TypeOK
  <2>3. job' = [job EXCEPT ![d] = x]
    BY <1>10 DEF NextAttempt
  <2> HIDE DEF n
  <2>4. x \in Handler /\ x.pc = "run" /\ x.seen = job[d].seen
    <3>1. job[d] \in Handler
      BY DEF TypeInv
    <3>2. QED
      BY <2>2, <3>1, HandlerGoes, Zenon
  <2>5. job[d].seen \in 0..Len(history')
    BY LogGrows DEF TypeInv, TypeOK
  <2> HIDE DEF x
  <2>6. QED
    BY <2>1, <2>3, <2>4, <2>5 DEF Moves, TypeInv, ShapeOf, WorkflowPc, StepPc
<1>11. ASSUME NEW d \in Delivery, StepSucceeds(d)
       PROVE  Moves(d) /\ ShapeOf(d)'
  <2>1. Moves(d) /\ job'[d].pc = "record"
    BY <1>11, GotoMoves DEF StepSucceeds, Pc
  <2>2. QED
    BY <2>1 DEF ShapeOf, WorkflowPc, StepPc
<1>12. ASSUME NEW d \in Delivery, StepFails(d) \/ RecordErrs(d) \/ AckErrs(d)
       PROVE  Moves(d) /\ ShapeOf(d)'
  <2>1. d[1] \in StepTask
    BY <1>12 DEF StepFails, RecordErrs, AckErrs, At, HandlerShape, ShapeOf, StepPc
  <2>2. \E err : Failing(d, err)
    BY <1>12 DEF StepFails, RecordErrs, AckErrs
  <2>3. Moves(d) /\ job'[d].pc = "logFailure" /\ job'[d].err # "none"
    BY <2>2, FailingMoves
  <2>4. QED
    BY <2>1, <2>3 DEF ShapeOf, WorkflowPc, StepPc
<1>13. ASSUME NEW d \in Delivery, RecordSuccess(d) \/ RecordFatal(d)
       PROVE  Moves(d) /\ ShapeOf(d)'
  <2>1. d[1] \in StepTask
    BY <1>13 DEF RecordSuccess, RecordFatal, At, HandlerShape, ShapeOf, StepPc
  <2>2. StepOf(d) \in results' \/ Closed(history')
    BY <1>13 DEF RecordSuccess, RecordFatal, RecordResult, Recordable
  <2>3. \E pc \in {"ackResult", "ackFailure"} : Goto(d, pc)
    BY <1>13 DEF RecordSuccess, RecordFatal
  <2>4. \E pc \in {"ackResult", "ackFailure"} : Moves(d) /\ job'[d].pc = pc
    BY <2>3, GotoMoves DEF Pc
  <2>5. QED
    BY <2>1, <2>2, <2>4 DEF ShapeOf, WorkflowPc, StepPc
<1>14. ASSUME NEW d \in Delivery, AckResult(d) \/ AckAnyway(d)
       PROVE  Moves(d) /\ ShapeOf(d)'
  <2>1. d[1] \in StepTask
    BY <1>14 DEF AckResult, AckAnyway, At, HandlerShape, ShapeOf, StepPc
  <2>2. Goto(d, "wake") \/ End(d)
    BY <1>14 DEF AckResult, AckAnyway
  <2>3. Moves(d) /\ job'[d].pc \in {"wake", "none"}
    BY <2>2, GotoMoves, EndMoves DEF Pc
  <2>4. QED
    BY <2>1, <2>3 DEF ShapeOf, WorkflowPc, StepPc
<1>15. ASSUME NEW d \in Delivery, LogFailure(d)
       PROVE  Moves(d) /\ ShapeOf(d)'
  <2>1. d[1] \in StepTask /\ job[d].err \in {"retry", "fatal", "exhausted"}
    BY <1>15 DEF LogFailure, At, HandlerShape, ShapeOf, StepPc, TypeInv, Handler
  <2>2. \E pc \in {"nack", "recordFatal", "bury"} : Goto(d, pc)
    BY <1>15, <2>1 DEF LogFailure
  <2>3. \E pc \in {"nack", "recordFatal", "bury"} : Moves(d) /\ job'[d].pc = pc
    BY <2>2, GotoMoves DEF Pc
  <2>4. QED
    BY <2>1, <2>3 DEF ShapeOf, WorkflowPc, StepPc
<1>16. ASSUME \/ \E s \in Step : Requeue(s)
              \/ SignalRun \/ CancelRun \/ TerminateRun \/ RecoverStalled \/ UNCHANGED vars
       PROVE  UNCHANGED job
  BY <1>16 DEF Requeue, SignalRun, CancelRun, TerminateRun, Tell, RecoverStalled, vars
<1>17. QED
  BY <1>1, <1>2, <1>3, <1>4, <1>5, <1>6, <1>7, <1>8, <1>9, <1>10, <1>11, <1>12, <1>13,
     <1>14, <1>15, <1>16 DEF Next, HandlerStep

(* Handlers keep their shape. *)
LEMMA HandlerShapeStep ==
  ASSUME TypeInv, HandlerShape, HistoryStep, JobMoves
  PROVE  HandlerShape'
BY ShapeStays DEF JobMoves, Moves, HandlerShape

-----------------------------------------------------------------------------
(* Types *)

States == {"absent", "open", "out", "closed", "parked"}

StatusTyped == status' \in [TaskId -> States]

LEMMA SettledTyped ==
  ASSUME TypeInv, NEW d \in Delivery, NEW to \in States, Settled(d, to)
  PROVE  StatusTyped
BY DEF Settled, TypeInv, TypeOK, StatusTyped, States

LEMMA WakeTyped ==
  ASSUME TypeInv, status' = WithWake(status)
  PROVE  StatusTyped
<1> DEFINE w == NewWake
<1>1. status' = [status EXCEPT ![w] = "open"]
  BY DEF WithWake
<1> HIDE DEF w
<1>2. QED
  BY <1>1 DEF TypeInv, TypeOK, StatusTyped, States

(* The task table stays a table of tasks. *)
LEMMA StatusStep ==
  ASSUME TypeInv, [Next]_vars
  PROVE  StatusTyped
<1>1. ASSUME NEW t \in TaskId, Deliver(t) \/ ReclaimOrphan(t) \/ LoseLease(t) \/ Release(t)
      PROVE  StatusTyped
  BY <1>1 DEF Deliver, ReclaimOrphan, LoseLease, TakeAway, Release, TypeInv, TypeOK,
              StatusTyped, States
<1>2. ASSUME NEW d \in Delivery,
             \/ ReadRun(d) \/ Load(d) \/ FindMark(d) \/ MarkWaiting(d)
             \/ CheckResult(d) \/ NextAttempt(d) \/ StepSucceeds(d) \/ StepFails(d)
             \/ RecordSuccess(d) \/ RecordErrs(d) \/ LogFailure(d) \/ RecordFatal(d)
             \/ Vanish(d)
      PROVE  StatusTyped
  BY <1>2 DEF ReadRun, Load, FindMark, MarkWaiting, CheckResult, NextAttempt, StepSucceeds,
              StepFails, RecordSuccess, RecordErrs, LogFailure, RecordFatal, Vanish,
              queueVars, TypeInv, TypeOK, StatusTyped, States
<1>3. ASSUME NEW d \in Delivery, RecordDecision(d)
      PROVE  StatusTyped
  BY <1>3, RecordedOrLeft
     DEF Recorded, WithStepTasks, WithoutWaiting, TypeInv, TypeOK, StatusTyped, States
<1>4. ASSUME NEW d \in Delivery, EnsureStepTasks(d)
      PROVE  StatusTyped
  BY <1>4 DEF EnsureStepTasks, WithStepTasks, TypeInv, TypeOK, StatusTyped, States
<1>5. ASSUME NEW d \in Delivery,
             \/ AckDecision(d) \/ ParkDecision(d) \/ NackRetry(d) \/ AckResult(d)
             \/ AckErrs(d) \/ AckAnyway(d) \/ Bury(d)
      PROVE  StatusTyped
  <2>1. (\E to \in States : Settled(d, to)) \/ UNCHANGED status
    BY <1>5 DEF AckDecision, ParkDecision, NackRetry, AckResult, AckErrs, AckAnyway, Bury,
                States
  <2>2. QED
    BY <2>1, SettledTyped DEF TypeInv, TypeOK, StatusTyped, States
<1>6. ASSUME \/ \E d \in Delivery : Wake(d)
             \/ SignalRun \/ CancelRun \/ RecoverStalled
      PROVE  StatusTyped
  BY <1>6, WakeTyped DEF Wake, SignalRun, CancelRun, Tell, RecoverStalled
<1>7. ASSUME TerminateRun
      PROVE  StatusTyped
  BY <1>7 DEF TerminateRun, WithoutWaiting, TypeInv, TypeOK, StatusTyped, States
<1>8. ASSUME (\E s \in Step : Requeue(s)) \/ UNCHANGED vars
      PROVE  StatusTyped
  BY <1>8 DEF Requeue, vars, queueVars, TypeInv, TypeOK, StatusTyped, States
<1>9. QED
  BY <1>1, <1>2, <1>3, <1>4, <1>5, <1>6, <1>7, <1>8 DEF Next, HandlerStep

(* The other tables. *)
TablesTyped ==
  /\ made' \in [TaskId -> 0..MaxDeliveries]
  /\ \A t \in TaskId : made[t] <= made'[t]
  /\ decided' \subseteq WorkflowTask
  /\ attempts' \in [Step -> Nat]
  /\ letters' \in [Step -> [state : {"none", "open", "requeued"}, attempts : Nat]]
  /\ waiting' \in {"none", "external", "dead_letter"}
  /\ crashes' \in 0..MaxCrashes /\ losses' \in 0..MaxLosses /\ faults' \in 0..MaxFaults

Tables == <<made, decided, attempts, letters, waiting, crashes, losses, faults>>

(* The counters of what goes wrong stay within their bounds. *)
LEMMA CountersTyped ==
  ASSUME TypeInv
  PROVE  /\ crashes \in 0..MaxCrashes /\ losses \in 0..MaxLosses /\ faults \in 0..MaxFaults
         /\ MaxCrashes \in Nat /\ MaxLosses \in Nat /\ MaxFaults \in Nat
<1>1. <<crashes, losses, faults>> \in (0..MaxCrashes) \X (0..MaxLosses) \X (0..MaxFaults)
  BY DEF TypeInv, TypeOK
<1>2. QED
  BY <1>1, EngineAssumption DEF EngineAssumption

(* The tables have their types, and a count is not below itself.            *)
LEMMA TablesNow ==
  ASSUME TypeInv
  PROVE  /\ made \in [TaskId -> 0..MaxDeliveries]
         /\ \A t \in TaskId : made[t] <= made[t]
         /\ decided \subseteq WorkflowTask
         /\ attempts \in [Step -> Nat]
         /\ letters \in [Step -> [state : {"none", "open", "requeued"}, attempts : Nat]]
         /\ waiting \in {"none", "external", "dead_letter"}
<1>1. /\ made \in [TaskId -> 0..MaxDeliveries]
      /\ decided \subseteq WorkflowTask
      /\ attempts \in [Step -> Nat]
      /\ letters \in [Step -> [state : {"none", "open", "requeued"}, attempts : Nat]]
      /\ waiting \in {"none", "external", "dead_letter"}
  BY DEF TypeInv, TypeOK
<1>2. \A t \in TaskId : made[t] <= made[t]
  BY <1>1, EngineAssumption DEF EngineAssumption
<1>3. QED
  BY <1>1, <1>2

(* A step whose body failed for good gets a dead letter, unless one is open. *)
LEMMA BuryTyped ==
  ASSUME TypeInv, HandlerShape, NEW d \in Delivery, Bury(d)
  PROVE  TablesTyped
<1>1. StepOf(d) \in Step
  BY DeliveryParts DEF Bury, At, HandlerShape, ShapeOf, StepPc
<1>2. letters' \in [Step -> [state : {"none", "open", "requeued"}, attempts : Nat]]
  <2> DEFINE Letter == [state : {"none", "open", "requeued"}, attempts : Nat]
  <2>1. [state |-> "open", attempts |-> job[d].attempt] \in Letter
    BY DEF TypeInv, Handler
  <2> DEFINE x == [state |-> "open", attempts |-> job[d].attempt]
             y == IF letters[StepOf(d)].state = "open" THEN letters[StepOf(d)] ELSE x
  <2>2. letters \in [Step -> Letter]
    BY DEF TypeInv, TypeOK
  <2>3. letters' = [letters EXCEPT ![StepOf(d)] = y] \/ letters' = letters
    BY DEF Bury
  <2>4. y \in Letter
    BY <1>1, <2>1, <2>2
  <2> HIDE DEF Letter, y
  <2>5. letters' \in [Step -> Letter]
    BY <2>2, <2>3, <2>4
  <2>6. QED
    BY <2>5 DEF Letter
<1>3. QED
  BY <1>2, TablesNow, CountersTyped DEF Bury, TablesTyped, counters

LEMMA TablesStep ==
  ASSUME TypeInv, HandlerShape, [Next]_vars
  PROVE  TablesTyped
<1>1. ASSUME UNCHANGED Tables
      PROVE  TablesTyped
  BY <1>1, TablesNow, CountersTyped DEF Tables, TablesTyped
<1>2. ASSUME NEW t \in TaskId, Deliver(t)
      PROVE  TablesTyped
  <2>1. made \in [TaskId -> 0..MaxDeliveries] /\ MaxDeliveries \in Nat
    BY EngineAssumption DEF TypeInv, TypeOK, EngineAssumption
  <2>2. made' = [made EXCEPT ![t] = made[t] + 1] /\ made[t] + 1 \in 0..MaxDeliveries
    BY <1>2, <2>1 DEF Deliver
  <2>3. made' \in [TaskId -> 0..MaxDeliveries] /\ \A u \in TaskId : made[u] <= made'[u]
    BY <2>1, <2>2
  <2>4. QED
    BY <1>2, <2>3, TablesNow, CountersTyped DEF Deliver, runVars, counters, TablesTyped
<1>3. ASSUME NEW t \in TaskId, ReclaimOrphan(t) \/ LoseLease(t) \/ Release(t)
      PROVE  TablesTyped
  <2>1. /\ UNCHANGED <<made, decided, attempts, letters, waiting, crashes, faults>>
        /\ losses' = losses \/ (losses < MaxLosses /\ losses' = losses + 1)
    BY <1>3 DEF ReclaimOrphan, LoseLease, TakeAway, Release, runVars, counters
  <2>2. QED
    BY <2>1, TablesNow, CountersTyped DEF TablesTyped
<1>4. ASSUME NEW d \in Delivery, Vanish(d) \/ RecordErrs(d) \/ AckErrs(d)
      PROVE  TablesTyped
  <2>1. UNCHANGED <<made, decided, attempts, letters, waiting>>
    BY <1>4 DEF Vanish, RecordErrs, AckErrs, runVars, queueVars
  <2>2. \/ crashes < MaxCrashes /\ crashes' = crashes + 1 /\ UNCHANGED <<losses, faults>>
        \/ faults < MaxFaults /\ faults' = faults + 1 /\ UNCHANGED <<crashes, losses>>
    BY <1>4 DEF Vanish, RecordErrs, AckErrs, Fault
  <2>3. crashes' \in 0..MaxCrashes /\ losses' \in 0..MaxLosses /\ faults' \in 0..MaxFaults
    BY <2>2, CountersTyped
  <2>4. QED
    BY <2>1, <2>3, TablesNow DEF TablesTyped
<1>5. ASSUME NEW d \in Delivery, RecordDecision(d)
      PROVE  TablesTyped
  BY <1>5, TablesNow, CountersTyped DEF RecordDecision, counters, TablesTyped
<1>6. ASSUME NEW d \in Delivery, MarkWaiting(d)
      PROVE  TablesTyped
  <2>1. /\ UNCHANGED <<made, decided, attempts, letters, crashes, losses, faults>>
        /\ waiting' = waiting \/ waiting' = job[d].mark
    BY <1>6 DEF MarkWaiting, queueVars, counters
  <2>2. job[d].mark \in {"none", "external", "dead_letter"}
    BY DEF TypeInv, Handler
  <2>3. QED
    BY <2>1, <2>2, TablesNow, CountersTyped DEF TablesTyped
<1>7. ASSUME NEW d \in Delivery, LogFailure(d)
      PROVE  TablesTyped
  <2>1. attempts \in [Step -> Nat] /\ job[d].attempt \in Nat
    BY DEF TypeInv, TypeOK
  <2>2. \/ attempts' = [attempts EXCEPT ![StepOf(d)] = job[d].attempt]
        \/ attempts' = attempts
    BY <1>7 DEF LogFailure
  <2>3. attempts' \in [Step -> Nat]
    BY <2>1, <2>2
  <2>4. QED
    BY <1>7, <2>3, TablesNow, CountersTyped DEF LogFailure, queueVars, counters, TablesTyped
<1>8. ASSUME NEW d \in Delivery,
             \/ ReadRun(d) \/ Load(d) \/ FindMark(d) \/ EnsureStepTasks(d)
             \/ AckDecision(d) \/ ParkDecision(d) \/ CheckResult(d) \/ NextAttempt(d)
             \/ StepSucceeds(d) \/ StepFails(d) \/ RecordSuccess(d) \/ AckResult(d)
             \/ AckAnyway(d) \/ NackRetry(d) \/ RecordFatal(d) \/ Wake(d)
      PROVE  UNCHANGED Tables
  BY <1>8 DEF ReadRun, Load, FindMark, EnsureStepTasks, AckDecision, ParkDecision,
              CheckResult, NextAttempt, StepSucceeds, StepFails, RecordSuccess, AckResult,
              AckAnyway, NackRetry, RecordFatal, Wake, runVars, queueVars, counters, Tables
<1>9. ASSUME NEW s \in Step, Requeue(s)
      PROVE  TablesTyped
  <2> DEFINE Letter == [state : {"none", "open", "requeued"}, attempts : Nat]
             x == [letters[s] EXCEPT !.state = "requeued"]
  <2>1. letters \in [Step -> Letter] /\ letters' = [letters EXCEPT ![s] = x]
    BY <1>9 DEF Requeue, TypeInv, TypeOK
  <2>2. x \in Letter
    BY <2>1
  <2> HIDE DEF Letter, x
  <2>3. letters' \in [Step -> Letter]
    BY <2>1, <2>2
  <2>4. QED
    BY <1>9, <2>3, TablesNow, CountersTyped DEF Letter, Requeue, counters, TablesTyped
<1>10. ASSUME SignalRun \/ CancelRun \/ TerminateRun \/ RecoverStalled \/ UNCHANGED vars
       PROVE  UNCHANGED Tables
  BY <1>10 DEF SignalRun, CancelRun, TerminateRun, Tell, RecoverStalled, vars, runVars,
               queueVars, counters, Tables
<1>11. QED
  BY <1>1, <1>2, <1>3, <1>4, <1>5, <1>6, <1>7, <1>8, <1>9, <1>10, BuryTyped
     DEF Next, HandlerStep

(* A handler runs only for a delivery that was made.                        *)
LEMMA BusyWasMade ==
  ASSUME TypeInv, HandlerShape, HistoryStep, [Next]_vars
  PROVE  \A d \in Busy' : d[2] <= made'[d[1]]
<1> SUFFICES ASSUME NEW d \in Delivery, job'[d] # Idle
             PROVE  d[2] <= made'[d[1]]
  BY DEF Busy
<1>1. d[1] \in TaskId /\ d[2] \in Int /\ made[d[1]] \in Int /\ made'[d[1]] \in Int
      /\ made[d[1]] <= made'[d[1]]
  BY TablesStep DEF Delivery, TypeInv, TypeOK, TablesTyped
<1>2. CASE job[d] # Idle
  <2>1. d[2] <= made[d[1]]
    BY <1>2 DEF Busy, TypeInv, TypeOK
  <2>2. QED
    BY <1>1, <2>1
<1>3. CASE job[d] = Idle
  <2>1. job[d].pc = "none"
    BY <1>3 DEF Idle
  <2>2. ASSUME NEW t \in TaskId, Deliver(t)
        PROVE  d = <<t, made[t] + 1>> /\ made'[t] = made[t] + 1
    <3> DEFINE e == <<t, made[t] + 1>>
    <3>1. e \in Delivery /\ made[t] \in Int
      BY <2>2, EngineAssumption DEF Deliver, Delivery, TypeInv, TypeOK, EngineAssumption
    <3>2. Goto(e, "start") /\ "start" \in Pc
      BY <2>2 DEF Deliver, Pc
    <3> HIDE DEF e
    <3>3. Moves(e)
      BY <3>1, <3>2, GotoMoves
    <3>4. d = e
      BY <1>3, <3>3 DEF Moves
    <3>5. QED
      BY <2>2, <3>4 DEF Deliver, e, TypeInv, TypeOK
  <2>3. ASSUME NEW e \in Delivery,
               \/ HandlerStep(e) \/ RecordErrs(e) \/ AckErrs(e) \/ Vanish(e)
        PROVE  job'[d] = Idle
    <3>1. CASE e = d
      <4>1. Vanish(d)
        BY <2>1, <2>3, <3>1
           DEF HandlerStep, ReadRun, Load, RecordDecision, FindMark, MarkWaiting,
               EnsureStepTasks, AckDecision, ParkDecision, CheckResult, NextAttempt,
               StepSucceeds, StepFails, RecordSuccess, AckResult, AckAnyway, LogFailure,
               NackRetry, RecordFatal, Bury, Wake, RecordErrs, AckErrs, At
      <4>2. QED
        BY <4>1, <1>3 DEF Vanish, Busy
    <3>2. CASE e # d
      <4>1. job' = [job EXCEPT ![e] = job'[e]]
        BY <2>3 DEF HandlerStep, ReadRun, Load, RecordDecision, FindMark, MarkWaiting,
               EnsureStepTasks, AckDecision, ParkDecision, CheckResult, NextAttempt,
               StepSucceeds, StepFails, RecordSuccess, AckResult, AckAnyway, LogFailure,
               NackRetry, RecordFatal, Bury, Wake, RecordErrs, AckErrs, Vanish, Goto, End,
               Failing, TypeInv
      <4>2. QED
        BY <4>1, <3>2, <1>3 DEF TypeInv
    <3>3. QED
      BY <3>1, <3>2
  <2>4. ASSUME \/ \E t \in TaskId : ReclaimOrphan(t) \/ LoseLease(t) \/ Release(t)
               \/ \E s \in Step : Requeue(s)
               \/ SignalRun \/ CancelRun \/ TerminateRun \/ RecoverStalled \/ UNCHANGED vars
        PROVE  UNCHANGED job
    BY <2>4 DEF ReclaimOrphan, LoseLease, TakeAway, Release, Requeue, SignalRun, CancelRun,
                TerminateRun, Tell, RecoverStalled, vars
  <2>5. QED
    BY <1>1, <1>3, <2>2, <2>3, <2>4 DEF Next
<1>4. QED
  BY <1>2, <1>3

(* Every step leaves the engine's state well-typed. *)
LEMMA TypeInvStep ==
  ASSUME TypeInv, HandlerShape, HistoryStep, [Next]_vars
  PROVE  TypeInv'
<1>1. history' \in Seq([type : EventType, step : 0..Steps]) /\ Len(history') \in Nat
  BY LogGrows DEF Log, EventRow
<1>2. job' \in [Delivery -> Handler] /\ \A d \in Delivery : job'[d].seen \in 0..Len(history')
  <2>1. \A d \in Delivery : job[d].seen \in 0..Len(history')
    BY LogGrows DEF TypeInv, TypeOK
  <2>2. JobMoves
    BY JobStep
  <2>3. QED
    BY <2>1, <2>2 DEF JobMoves, Moves, TypeInv
<1>3. \A d \in Delivery : /\ job'[d].pc \in Pc
                          /\ job'[d].mark \in {"none", "external", "dead_letter"}
                          /\ job'[d].attempt \in Nat
  BY <1>2 DEF Handler
<1>4. results' \subseteq Step
  BY LogStep DEF HistoryStep, Keeps, Logs, Hears, Concludes, Decides, TypeInv, TypeOK
<1>5. TablesTyped /\ StatusTyped
  BY TablesStep, StatusStep
<1>6. <<crashes, losses, faults>>' \in (0..MaxCrashes) \X (0..MaxLosses) \X (0..MaxFaults)
  BY <1>5 DEF TablesTyped
<1>7. \A d \in Busy' : d[2] <= made'[d[1]]
  BY BusyWasMade
<1>8. TypeOK'
  BY <1>1, <1>2, <1>3, <1>4, <1>5, <1>6, <1>7 DEF TypeOK, TablesTyped, StatusTyped, States
<1>9. QED
  BY <1>2, <1>8 DEF TypeInv

-----------------------------------------------------------------------------
(* Steps, their tasks and their dead letters *)

(* A step task is closed for a decided step only, and a scheduled step has  *)
(* its task.                                                                *)
LEMMA TasksOfStepsStep ==
  ASSUME TypeInv, TasksOfSteps, HistoryStep, TasksMove
  PROVE  TasksOfSteps'
<1>1. results \subseteq results' /\ (Closed(history) => Closed(history'))
  BY LogGrows, LogRemembers
<1>2. ASSUME NEW t \in StepTask, status'[t] = "closed"
      PROVE  t[2] \in results' \/ Closed(history')
  BY <1>1, <1>2 DEF TasksMove, TasksOfSteps, TaskId
<1>3. ASSUME ~Closed(history'), NEW s \in Scheduled(history')
      PROVE  status'[<<"step", s>>] # "absent"
  <2>1. ~Closed(history) /\ s \in Step /\ <<"step", s>> \in TaskId
    BY <1>1, <1>3 DEF Scheduled, TaskId, StepTask
  <2>2. CASE s \in Scheduled(history)
    BY <2>1, <2>2 DEF TasksOfSteps, TasksMove
  <2>3. CASE s \notin Scheduled(history)
    <3>1. Has(history', "step_scheduled", s) /\ ~Has(history, "step_scheduled", s)
      BY <1>3, <2>1, <2>3 DEF Scheduled
    <3>2. ASSUME NEW e \in EventRow, history' = Append(history, e)
          PROVE  e = Event("step_scheduled", s)
      BY <3>1, <3>2, AppendHas, LogGrows
    <3>3. Decides
      BY <3>1, <3>2, EventsDiffer, EventRows
         DEF HistoryStep, Keeps, Logs, Hears, Concludes, ClosingTypes
    <3>4. PICK mode : /\ history' = history \o DecisionEvents(history, mode)
                      /\ \A u \in NewSteps(history, mode) : status'[<<"step", u>>] # "absent"
      BY <3>3 DEF Decides
    <3>5. Has(DecisionEvents(history, mode), "step_scheduled", s)
      BY <3>1, <3>4, LogGrows, DecisionHas, ConcatHas
    <3>6. s \in NewSteps(history, mode)
      BY <3>5, LogGrows, DecisionHas, OutcomeType, EventsDiffer DEF Has
    <3>7. QED
      BY <3>4, <3>6
  <2>4. QED
    BY <2>2, <2>3
<1>4. QED
  BY <1>2, <1>3 DEF TasksOfSteps

(* A dead letter is written in the transaction that decides its step        *)
(* (dead-letters.ts, addAndAck).                                            *)
LEMMA BuriedIsDecidedStep ==
  ASSUME TypeInv, BuriedIsDecided, HistoryStep, [Next]_vars
  PROVE  BuriedIsDecided'
<1>1. results \subseteq results' /\ (Closed(history) => Closed(history'))
  BY LogGrows, LogRemembers
<1>2. CASE UNCHANGED letters
  BY <1>1, <1>2 DEF BuriedIsDecided
<1>3. ASSUME NEW s \in Step, Requeue(s)
      PROVE  BuriedIsDecided'
  BY <1>1, <1>3 DEF Requeue, BuriedIsDecided, TypeInv, TypeOK
<1>4. ASSUME NEW d \in Delivery, Bury(d)
      PROVE  BuriedIsDecided'
  <2>1. CASE LeaseOf(d)
    <3>1. StepOf(d) \in results' \/ Closed(history')
      BY <1>4, <2>1 DEF Bury, RecordResult, Recordable
    <3>2. \A s \in Step : s # StepOf(d) => letters'[s] = letters[s]
      BY <1>4, <2>1 DEF Bury, TypeInv, TypeOK
    <3>3. QED
      BY <1>1, <3>1, <3>2 DEF BuriedIsDecided
  <2>2. CASE ~LeaseOf(d)
    BY <1>2, <1>4, <2>2 DEF Bury
  <2>3. QED
    BY <2>1, <2>2
<1>5. ASSUME NEW d \in Delivery,
             HandlerStep(d) \/ RecordErrs(d) \/ AckErrs(d) \/ Vanish(d), ~Bury(d)
      PROVE  UNCHANGED letters
  BY <1>5 DEF HandlerStep, ReadRun, Load, RecordDecision, FindMark, MarkWaiting,
         EnsureStepTasks, AckDecision, ParkDecision, CheckResult, NextAttempt,
         StepSucceeds, StepFails, RecordSuccess, AckResult, AckAnyway, LogFailure,
         NackRetry, RecordFatal, Wake, RecordErrs, AckErrs, Vanish, runVars
<1>6. ASSUME \/ \E t \in TaskId : Deliver(t) \/ ReclaimOrphan(t) \/ LoseLease(t) \/ Release(t)
             \/ SignalRun \/ CancelRun \/ TerminateRun \/ RecoverStalled \/ UNCHANGED vars
      PROVE  UNCHANGED letters
  BY <1>6 DEF Deliver, ReclaimOrphan, LoseLease, TakeAway, Release, SignalRun, CancelRun,
              TerminateRun, Tell, RecoverStalled, vars, runVars
<1>7. QED
  BY <1>2, <1>3, <1>4, <1>5, <1>6 DEF Next

-----------------------------------------------------------------------------
(* The invariant *)

LEMMA EngineInvInit ==
  ASSUME Init
  PROVE  EngineInv
<1> USE EngineAssumption DEF EngineAssumption
<1> DEFINE first == Event("run_started", 0)
<1>1. history = <<first>> /\ first.type = "run_started"
  BY DEF Init, Event
<1>2. first \in EventRow
  BY DEF Event, EventRow, EventType
<1> HIDE DEF first
<1>3. history \in Log /\ Len(history) = 1 /\ DOMAIN history = {1} /\ history[1] = first
  BY <1>1, <1>2 DEF Log
<1>4. /\ \A type, s : Has(history, type, s) => type = "run_started"
      /\ ~Closed(history)
  BY <1>1, <1>3, EventsDiffer DEF Has, Closed, ClosingTypes
<1>5. job = [d \in Delivery |-> Idle] /\ Idle \in Handler
  BY DEF Init, Idle, Handler, Pc
<1>6. TypeInv
  <2>1. TypeOK
    <3>1. \A d \in Delivery : /\ job[d].pc \in Pc
                              /\ job[d].seen \in 0..Len(history)
                              /\ job[d].mark \in {"none", "external", "dead_letter"}
                              /\ job[d].attempt \in Nat
      BY <1>3, <1>5 DEF Idle, Pc
    <3>2. Busy = {}
      BY <1>5 DEF Busy
    <3>3. history \in Seq([type : EventType, step : 0..Steps])
      BY <1>3 DEF Log, EventRow
    <3>4. letters \in [Step -> [state : {"none", "open", "requeued"}, attempts : Nat]]
      BY DEF Init, NoLetter
    <3>5. <<crashes, losses, faults>> \in (0..MaxCrashes) \X (0..MaxLosses) \X (0..MaxFaults)
      BY DEF Init
    <3>6. QED
      BY <3>1, <3>2, <3>3, <3>4, <3>5 DEF Init, TypeOK
  <2>2. QED
    BY <2>1, <1>5 DEF TypeInv
<1>7. HandlerShape
  BY <1>5 DEF HandlerShape, ShapeOf, Idle, WorkflowPc, StepPc
<1>8. VerdictRows
  <2>1. \A s \in Step : Verdicts(s) = {}
    BY <1>1, <1>3, EventsDiffer DEF Verdicts
  <2>2. results = {}
    BY DEF Init
  <2>3. QED
    BY <2>1, <2>2 DEF VerdictRows
<1>9. ScheduledOnce /\ ClosedIsFinal
  BY <1>1, <1>3 DEF ScheduledOnce, ClosedIsFinal, ClosingTypes
<1>10. CompletedInFull
  BY <1>4 DEF CompletedInFull
<1>11. TasksOfSteps
  <2>1. \A t \in StepTask : status[t] = "absent"
    BY DEF Init, TaskId, StepTask
  <2>2. Scheduled(history) = {}
    BY <1>4 DEF Scheduled
  <2>3. QED
    BY <2>1, <2>2 DEF TasksOfSteps
<1>12. BuriedIsDecided
  BY DEF Init, NoLetter, BuriedIsDecided
<1>13. QED
  BY <1>6, <1>7, <1>8, <1>9, <1>10, <1>11, <1>12 DEF EngineInv

LEMMA EngineInvStep ==
  ASSUME EngineInv, [Next]_vars
  PROVE  EngineInv'
<1>1. TypeInv /\ HandlerShape /\ VerdictRows /\ ScheduledOnce /\ ClosedIsFinal
      /\ CompletedInFull /\ TasksOfSteps /\ BuriedIsDecided
  BY DEF EngineInv
<1>2. HistoryStep
  BY <1>1, LogStep
<1>3. TypeInv'
  BY <1>1, <1>2, TypeInvStep
<1>4. HandlerShape'
  BY <1>1, <1>2, JobStep, HandlerShapeStep
<1>5. VerdictRows' /\ ScheduledOnce' /\ ClosedIsFinal' /\ CompletedInFull'
  BY <1>1, <1>2, VerdictRowsStep, ScheduledOnceStep, ClosedIsFinalStep, CompletedInFullStep
<1>6. TasksOfSteps'
  BY <1>1, <1>2, TaskStep, TasksOfStepsStep
<1>7. BuriedIsDecided'
  BY <1>1, <1>2, BuriedIsDecidedStep
<1>8. QED
  BY <1>3, <1>4, <1>5, <1>6, <1>7 DEF EngineInv

(* The log, the task table and the handlers agree in every reachable state, *)
(* for any number of steps, deliveries, crashes, lost leases and faults.    *)
THEOREM EngineInvariant == Spec => []EngineInv
<1>1. Init => EngineInv
  BY EngineInvInit
<1>2. EngineInv /\ [Next]_vars => EngineInv'
  BY EngineInvStep
<1>3. QED
  BY <1>1, <1>2, PTL DEF Spec

(* The tables and the handlers have their shape.                            *)
THEOREM EngineTypeCorrect == Spec => []TypeOK
<1>1. EngineInv => TypeOK
  BY DEF EngineInv, TypeInv
<1>2. QED
  BY <1>1, EngineInvariant, PTL

(* A step has one terminal event at most, and its row exactly when it has   *)
(* one, however many deliveries of its task ran.                            *)
THEOREM VerdictWrittenOnce == Spec => []OneVerdict
<1>1. ASSUME EngineInv PROVE OneVerdict
  <2>1. \A s \in Step : /\ s \in results <=> Verdicts(s) # {}
                        /\ \A i, j \in Verdicts(s) : i = j
    BY <1>1 DEF EngineInv, VerdictRows
  <2>2. \A s \in Step : Cardinality(Verdicts(s)) <= 1
    <3>1. ASSUME NEW s \in Step
          PROVE  Cardinality(Verdicts(s)) <= 1
      <4>1. CASE Verdicts(s) = {}
        BY <4>1, FS_EmptySet
      <4>2. CASE Verdicts(s) # {}
        <5>1. PICK i \in Verdicts(s) : TRUE
          BY <4>2
        <5>2. Verdicts(s) = {i}
          BY <5>1, <2>1
        <5>3. QED
          BY <5>2, FS_Singleton
      <4>3. QED
        BY <4>1, <4>2
    <3>2. QED
      BY <3>1
  <2>3. \A s \in Step : ~(Cardinality(Verdicts(s)) > 1)
    <3>1. ASSUME NEW s \in Step
          PROVE  ~(Cardinality(Verdicts(s)) > 1)
      <4>1. Cardinality(Verdicts(s)) \in Int
        <5>1. IsFiniteSet(DOMAIN history) /\ Verdicts(s) \subseteq DOMAIN history
          BY <1>1, LenProperties, FS_Interval DEF EngineInv, TypeInv, TypeOK, Verdicts
        <5>2. QED
          BY <5>1, FS_Subset, FS_CardinalityType
      <4>2. QED
        BY <4>1, <2>2
    <3>2. QED
      BY <3>1
  <2>4. QED
    BY <2>1, <2>3 DEF OneVerdict, DuplicateSteps
<1>2. QED
  BY <1>1, EngineInvariant, PTL

(* No race of workflow tasks schedules a step twice.                        *)
THEOREM StepScheduledOnce == Spec => []ScheduledOnce
<1>1. EngineInv => ScheduledOnce
  BY DEF EngineInv
<1>2. QED
  BY <1>1, EngineInvariant, PTL

(* After the event that closes a run only the failed attempts of its        *)
(* running steps are logged.                                                *)
THEOREM RunClosesForGood == Spec => []ClosedIsFinal
<1>1. EngineInv => ClosedIsFinal
  BY DEF EngineInv
<1>2. QED
  BY <1>1, EngineInvariant, PTL

(* Every dead letter is one of a decided step, or of a closed run.          *)
THEOREM LettersOfDecidedSteps == Spec => []BuriedIsDecided
<1>1. EngineInv => BuriedIsDecided
  BY DEF EngineInv
<1>2. QED
  BY <1>1, EngineInvariant, PTL

(* No step of an open run is left without a task that can decide it, and no *)
(* acked step task left nothing behind.                                     *)
THEOREM NoStepIsLost == Spec => []OpenStepHasTask
<1>1. ASSUME EngineInv PROVE OpenStepHasTask
  <2>1. \A s \in Step : s \in results <=> Verdicts(s) # {}
    BY <1>1 DEF EngineInv, VerdictRows
  <2>2. \A s \in Step : s \in Finished(history) <=> Verdicts(s) # {}
    BY DEF Finished, Completed, Has, Verdicts
  <2>3. ASSUME ~Closed(history), NEW s \in OpenSteps(history)
        PROVE  \E t \in StepTask : t[2] = s /\ status[t] \in {"open", "out", "parked"}
    <3> DEFINE t == <<"step", s>>
    <3>1. s \in Step /\ s \in Scheduled(history) /\ s \notin results
      BY <2>1, <2>2, <2>3 DEF OpenSteps, Scheduled
    <3>2. t \in StepTask /\ t \in TaskId /\ t[2] = s
      BY <3>1 DEF StepTask, TaskId
    <3>3. status[t] # "absent" /\ status[t] # "closed"
      BY <1>1, <2>3, <3>1, <3>2 DEF EngineInv, TasksOfSteps
    <3>4. status[t] \in {"absent", "open", "out", "closed", "parked"}
      BY <1>1, <3>2 DEF EngineInv, TypeInv, TypeOK
    <3>5. QED
      BY <3>2, <3>3, <3>4
  <2>4. LostTasks = {}
    <3>1. CASE Closed(history) /\ ~Has(history, "run_completed", 0)
      BY <3>1 DEF LostTasks
    <3>2. CASE ~Closed(history)
      <4>1. \A t \in StepTask : status[t] = "closed" => Verdicts(t[2]) # {}
        BY <1>1, <2>1, <3>2 DEF EngineInv, TasksOfSteps, StepTask
      <4>2. QED
        BY <4>1, <3>2 DEF LostTasks
    <3>3. CASE Has(history, "run_completed", 0)
      <4>1. \A s \in Step : Verdicts(s) # {}
        BY <1>1, <2>2, <3>3 DEF EngineInv, CompletedInFull, Finished
      <4>2. \A t \in StepTask : Verdicts(t[2]) # {}
        BY <4>1 DEF StepTask
      <4>3. QED
        BY <4>2, <3>3 DEF LostTasks
    <3>4. QED
      BY <3>1, <3>2, <3>3
  <2>5. QED
    BY <2>3, <2>4 DEF OpenStepHasTask
<1>2. QED
  BY <1>1, EngineInvariant, PTL

-----------------------------------------------------------------------------
(* The promise *)

(* A log has one closing event at most, so its outcome is that event's.     *)
LEMMA OutcomeIs ==
  ASSUME NEW h \in Log, NEW i \in DOMAIN h, h[i].type \in ClosingTypes,
         \A m \in DOMAIN h : h[m].type \in ClosingTypes =>
           \A n \in (m + 1)..Len(h) : h[n].type = "step_attempt_failed"
  PROVE  OutcomeOf(h) = h[i].type
<1>1. DOMAIN h = 1..Len(h) /\ Len(h) \in Nat
  BY LenProperties DEF Log
<1>2. \A m \in DOMAIN h : h[m].type \in ClosingTypes => m = i
  <2>1. ASSUME NEW m \in DOMAIN h, h[m].type \in ClosingTypes, m # i
        PROVE  FALSE
    <3>1. m \in (i + 1)..Len(h) \/ i \in (m + 1)..Len(h)
      BY <1>1, <2>1
    <3>2. h[m].type = "step_attempt_failed" \/ h[i].type = "step_attempt_failed"
      BY <2>1, <3>1
    <3>3. QED
      BY <2>1, <3>2 DEF ClosingTypes
  <2>2. QED
    BY <2>1
<1>3. Closed(h)
  BY DEF Closed
<1> DEFINE E == {h[m] : m \in DOMAIN h}
<1>4. h[i] \in E /\ \A e \in E : e.type \in ClosingTypes => e = h[i]
  BY <1>2
<1>5. (CHOOSE e \in E : e.type \in ClosingTypes) = h[i]
  BY <1>4
<1>6. QED
  BY <1>3, <1>5 DEF OutcomeOf

(* An event that is no verdict, request or closing changes nothing the      *)
(* promise speaks of.                                                       *)
LEMMA PromiseStutters ==
  ASSUME EngineInv, EngineInv', HistoryStep,
         \A type, s : Has(history', type, s) =>
           Has(history, type, s) \/ type \in {"step_attempt_failed", "signal_received", "step_scheduled"}
  PROVE  UNCHANGED Promise!vars
<1>1. \A type, s : Has(history, type, s) => Has(history', type, s)
  BY LogRemembers DEF EngineInv
<1>2. /\ Completed(history') = Completed(history)
      /\ Finished(history') = Finished(history)
      /\ CancelRequested(history') <=> CancelRequested(history)
  BY <1>1 DEF Completed, Finished, CancelRequested
<1>3. VerdictOf(history') = VerdictOf(history)
  BY <1>2 DEF VerdictOf
<1>4. OutcomeOf(history') = OutcomeOf(history)
  <2>1. history \in Log /\ history' \in Log
    BY LogGrows DEF EngineInv
  <2>2. CASE Closed(history)
    <3>1. PICK i \in DOMAIN history : history[i].type \in ClosingTypes
      BY <2>2 DEF Closed
    <3>2. i \in DOMAIN history' /\ history'[i] = history[i]
      BY LogGrows DEF EngineInv
    <3>3. OutcomeOf(history) = history[i].type
      BY <2>1, <3>1, OutcomeIs DEF EngineInv, ClosedIsFinal
    <3>4. OutcomeOf(history') = history'[i].type
      BY <2>1, <3>1, <3>2, OutcomeIs DEF EngineInv, ClosedIsFinal
    <3>5. QED
      BY <3>2, <3>3, <3>4
  <2>3. CASE ~Closed(history)
    <3>1. ~Closed(history')
      <4>1. ASSUME NEW i \in DOMAIN history', history'[i].type \in ClosingTypes
            PROVE  FALSE
        <5>1. history'[i] \in EventRow
          BY <2>1, LenProperties DEF Log
        <5>2. history'[i] = Event(history'[i].type, history'[i].step)
          BY <5>1 DEF EventRow, Event
        <5>3. Has(history', history'[i].type, history'[i].step)
          BY <5>2 DEF Has
        <5>4. Has(history, history'[i].type, history'[i].step)
          BY <4>1, <5>3 DEF ClosingTypes
        <5>5. Closed(history)
          BY <4>1, <5>4, EventsDiffer DEF Has, Closed
        <5>6. QED
          BY <5>5, <2>3
      <4>2. QED
        BY <4>1 DEF Closed
    <3>2. QED
      BY <2>3, <3>1 DEF OutcomeOf
  <2>4. QED
    BY <2>2, <2>3
<1>5. CancelRequested(history') = CancelRequested(history)
  BY <1>2, Zenon DEF CancelRequested, Has
<1>6. QED
  BY <1>3, <1>4, <1>5 DEF Promise!vars

(* Closing with an accounted outcome is a step of the promise.              *)
LEMMA PromiseCloses ==
  ASSUME EngineInv, EngineInv', HistoryStep, ~Closed(history),
         NEW o \in ClosingTypes, Has(history', o, 0), Promise!AccountedFor(o),
         \A type, s : Has(history', type, s) =>
           Has(history, type, s) \/ type \in ClosingTypes \cup {"step_scheduled"}
  PROVE  Promise!Close(o)
<1>1. \A type, s : Has(history, type, s) => Has(history', type, s)
  BY LogRemembers DEF EngineInv
<1>2. /\ Completed(history') = Completed(history)
      /\ Finished(history') = Finished(history)
      /\ CancelRequested(history') <=> CancelRequested(history)
  BY <1>1 DEF Completed, Finished, CancelRequested, ClosingTypes
<1>3. VerdictOf(history') = VerdictOf(history)
  BY <1>2 DEF VerdictOf
<1>4. OutcomeOf(history) = "open"
  BY DEF OutcomeOf
<1>5. OutcomeOf(history') = o
  <2>1. PICK i \in DOMAIN history' : history'[i] = Event(o, 0)
    BY DEF Has
  <2>2. history' \in Log /\ history'[i].type = o
    BY <2>1, LogGrows, EventsDiffer DEF EngineInv
  <2>3. QED
    BY <2>2, OutcomeIs DEF EngineInv, ClosedIsFinal
<1>6. CancelRequested(history') = CancelRequested(history)
  BY <1>2, Zenon DEF CancelRequested, Has
<1>7. QED
  BY <1>3, <1>4, <1>5, <1>6 DEF Promise!Close

(* Every step of the engine is a step of the promise, or nothing to it.     *)
LEMMA PromiseStep ==
  ASSUME EngineInv, EngineInv', HistoryStep
  PROVE  Promise!Next \/ UNCHANGED Promise!vars
<1>1. history \in Log /\ TypeInv
  BY LogGrows DEF EngineInv
<1>2. CASE Keeps
  BY <1>2 DEF Keeps, Promise!vars
<1>3. CASE Logs
  <2>1. PICK s \in Step : history' = Append(history, Event("step_attempt_failed", s))
    BY <1>3 DEF Logs
  <2>2. \A type, u : Has(history', type, u) => Has(history, type, u) \/ type = "step_attempt_failed"
    BY <1>1, <2>1, EventRows, AppendHas, EventsDiffer
  <2>3. QED
    BY <2>2, PromiseStutters
<1>4. CASE Hears
  <2>1. PICK type \in {"signal_received", "cancel_requested", "run_terminated"} :
               history' = Append(history, Event(type, 0))
    BY <1>4 DEF Hears
  <2>2. ~Closed(history) /\ Event(type, 0) \in EventRow
    BY <1>4, EventRows DEF Hears, ClosingTypes
  <2>3. \A type2, u : Has(history', type2, u) <=> Has(history, type2, u) \/ (type2 = type /\ u = 0)
    BY <1>1, <2>1, <2>2, AppendHas, EventsDiffer
  <2>4. CASE type = "signal_received"
    BY <2>3, <2>4, PromiseStutters
  <2>5. CASE type = "run_terminated"
    <3>1. Promise!AccountedFor("run_terminated")
      BY DEF Promise!AccountedFor
    <3>2. Promise!Close("run_terminated")
      BY <2>2, <2>3, <2>5, <3>1, PromiseCloses DEF ClosingTypes
    <3>3. QED
      BY <3>2 DEF Promise!Next
  <2>6. CASE type = "cancel_requested"
    <3>1. /\ Completed(history') = Completed(history)
          /\ Finished(history') = Finished(history)
          /\ CancelRequested(history')
      BY <2>3, <2>6 DEF Completed, Finished, CancelRequested
    <3>2. VerdictOf(history') = VerdictOf(history)
      BY <3>1 DEF VerdictOf
    <3>3. ~Closed(history')
      BY <1>1, <2>1, <2>2, <2>6, AppendHas, EventsDiffer DEF ClosingTypes
    <3>4. Promise!Ask
      BY <2>2, <3>1, <3>2, <3>3 DEF Promise!Ask, OutcomeOf
    <3>5. QED
      BY <3>4 DEF Promise!Next
  <2>7. QED
    BY <2>4, <2>5, <2>6
<1>5. CASE Concludes
  <2>1. PICK s \in Step, type \in {"step_completed", "step_failed"} :
               /\ s \notin results
               /\ history' = Append(history, Event(type, s))
    BY <1>5 DEF Concludes
  <2>2. ~Closed(history) /\ Event(type, s) \in EventRow
    BY <1>5, EventRows DEF Concludes
  <2>3. \A type2, u : Has(history', type2, u) <=> Has(history, type2, u) \/ (type2 = type /\ u = s)
    BY <1>1, <2>1, <2>2, AppendHas, EventsDiffer
  <2>4. ~Closed(history')
    BY <1>1, <2>1, <2>2, AppendHas, EventsDiffer DEF ClosingTypes
  <2>5. s \notin Finished(history) /\ s \notin Completed(history)
    <3>1. Verdicts(s) = {}
      BY <2>1 DEF EngineInv, VerdictRows
    <3>2. QED
      BY <3>1 DEF Verdicts, Finished, Completed, Has
  <2>6. CancelRequested(history') = CancelRequested(history)
    <3>1. CancelRequested(history') <=> CancelRequested(history)
      BY <2>3 DEF CancelRequested
    <3>2. QED
      BY <3>1, Zenon DEF CancelRequested, Has
  <2> DEFINE v == IF type = "step_completed" THEN "completed" ELSE "failed"
  <2>7. VerdictOf(history') = [VerdictOf(history) EXCEPT ![s] = v]
    <3>1. \A u \in Step : u # s =>
            /\ u \in Completed(history') <=> u \in Completed(history)
            /\ u \in Finished(history') <=> u \in Finished(history)
      BY <2>3 DEF Completed, Finished
    <3>2. /\ s \in Completed(history') <=> type = "step_completed"
          /\ s \in Finished(history')
      BY <2>3, <2>5 DEF Completed, Finished
    <3>3. QED
      BY <3>1, <3>2 DEF VerdictOf
  <2>8. Promise!Decide(s, v)
    BY <2>2, <2>4, <2>5, <2>6, <2>7 DEF Promise!Decide, OutcomeOf, VerdictOf
  <2>9. s \in Promise!Step /\ v \in {"completed", "failed"}
    BY DEF Promise!Step, Step
  <2>10. QED
    BY <2>8, <2>9 DEF Promise!Next
<1>6. CASE Decides
  <2>1. PICK mode : history' = history \o DecisionEvents(history, mode)
    BY <1>6 DEF Decides
  <2> DEFINE k == DecisionEvents(history, mode)
  <2>2. ~Closed(history)
    BY <1>6 DEF Decides
  <2>3. \A type, s : Has(k, type, s) =>
          \/ type = "step_scheduled"
          \/ Outcome(history) # "suspended" /\ type = Outcome(history)
    BY <1>1, DecisionHas, EventsDiffer DEF Has
  <2>4. k \in Log /\ (Outcome(history) # "suspended" => Has(k, Outcome(history), 0))
    BY <1>1, DecisionHas
  <2> HIDE DEF k
  <2>5. \A type, s : Has(history', type, s) <=> Has(history, type, s) \/ Has(k, type, s)
    BY <1>1, <2>1, <2>4, ConcatHas DEF k
  <2>6. CASE Outcome(history) = "suspended"
    BY <2>3, <2>5, <2>6, PromiseStutters
  <2>7. CASE Outcome(history) # "suspended"
    <3> DEFINE o == Outcome(history)
    <3>1. o \in ClosingTypes /\ o \in {"run_completed", "run_failed", "run_cancelled"}
      BY <2>7, OutcomeType DEF ClosingTypes
    <3>2. Promise!AccountedFor(o)
      <4>1. CASE CancelRequested(history)
        <5>1. o = "run_cancelled"
          BY <2>7, <4>1 DEF Outcome
        <5>2. QED
          BY <4>1, <5>1 DEF Promise!AccountedFor
      <4>2. CASE ~CancelRequested(history) /\ o = "run_failed"
        <5>1. PICK s \in Step : s \in Finished(history) \ Completed(history)
          BY <4>2 DEF Outcome, Issued
        <5>2. QED
          BY <4>2, <5>1 DEF Promise!AccountedFor, Promise!Step, Step, VerdictOf
      <4>3. CASE ~CancelRequested(history) /\ o = "run_completed"
        <5>1. Step \subseteq Completed(history)
          BY <4>3 DEF Outcome
        <5>2. QED
          BY <4>3, <5>1 DEF Promise!AccountedFor, Promise!Step, Step, VerdictOf
      <4>4. o # "run_cancelled" \/ CancelRequested(history)
        BY DEF Outcome
      <4>5. QED
        BY <3>1, <4>1, <4>2, <4>3, <4>4
    <3>3. Has(history', o, 0)
      BY <2>4, <2>5, <2>7
    <3>4. \A type, s : Has(history', type, s) =>
            Has(history, type, s) \/ type \in ClosingTypes \cup {"step_scheduled"}
      BY <2>3, <2>5, <3>1
    <3> HIDE DEF o
    <3>5. Promise!Close(o)
      BY <2>2, <3>1, <3>2, <3>3, <3>4, PromiseCloses
    <3>6. QED
      BY <3>1, <3>5 DEF Promise!Next
  <2>8. QED
    BY <2>6, <2>7
<1>7. QED
  BY <1>2, <1>3, <1>4, <1>5, <1>6 DEF HistoryStep

(* A run closes once, with an outcome its verdicts and its clients account  *)
(* for at that moment, and a step gets one verdict, while the run is open.  *)
THEOREM EngineKeepsPromise == Spec => KeepsRunPromise
<1>1. Init => Promise!Init
  <2> SUFFICES ASSUME Init PROVE Promise!Init
    OBVIOUS
  <2>1. history = <<Event("run_started", 0)>>
    BY DEF Init
  <2>2. /\ \A type, s : Has(history, type, s) => type = "run_started"
        /\ ~Closed(history)
    BY <2>1, EventsDiffer DEF Has, Closed, ClosingTypes
  <2>3. Completed(history) = {} /\ Finished(history) = {} /\ ~CancelRequested(history)
    BY <2>2 DEF Completed, Finished, CancelRequested
  <2>4. VerdictOf(history) = [s \in Step |-> "none"]
    BY <2>3 DEF VerdictOf
  <2>5. CancelRequested(history) = FALSE
    BY <2>3, Zenon DEF CancelRequested, Has
  <2>6. QED
    BY <2>2, <2>4, <2>5 DEF Promise!Init, Promise!Step, Step, OutcomeOf
<1>2. EngineInv /\ EngineInv' /\ [Next]_vars => [Promise!Next]_Promise!vars
  BY LogStep, PromiseStep DEF EngineInv
<1>3. QED
  BY <1>1, <1>2, EngineInvariant, PTL DEF Spec, KeepsRunPromise, Promise!Spec

=============================================================================
