------------------------------- MODULE RunTree -------------------------------
(***************************************************************************)
(* The tree of runs as its owners see it: runs start children, continue as *)
(* new, are cancelled, terminated and timed out, and each of these happens *)
(* at once with all it entails for the parent and the children             *)
(* (core/src/cancellation/, children/, continuation/, timers/, timeouts/). *)
(*                                                                         *)
(* A transaction of the code is one action here.  Module RunLocks takes    *)
(* the same transactions apart, row lock by row lock, and implements this  *)
(* module.                                                                 *)
(***************************************************************************)
EXTENDS Integers, Sequences, FiniteSets

CONSTANTS
  MaxRuns,     \* bound on the runs of the tree
  ChildKind,   \* the [policy, limits] a workflow starts its children with
  RootLimits,  \* the limits the first run may be created with
  Endings      \* how a decision may close a run

Policy == {"abandon", "cancel", "terminate"}

Timeout == {"run-timeout", "execution-timeout"}

Timer == {"timer-1"} \cup Timeout

Ending == {"run_completed", "run_failed", "run_continued_as_new"}

ASSUME TreeAssumption ==
  /\ MaxRuns \in Nat \ {0}
  /\ ChildKind \subseteq [policy : Policy, limits : SUBSET Timeout]
  /\ RootLimits \subseteq SUBSET Timeout
  /\ Endings \subseteq Ending

(* A run is named by the order of creation: a parent comes before its       *)
(* children.                                                                *)
Run == 1..MaxRuns

None == 0

VARIABLE runs   \* run -> its row, its history, its timers and whether it has a workflow task

-----------------------------------------------------------------------------
(* Rows *)

NoTimers == [t \in Timer |-> "none"]

(* The history is kept as what happened in it: whether cancellation was     *)
(* requested, how many children were started, the outcomes recorded of      *)
(* each, and how often the timer fired.  It only grows, so two histories of *)
(* a run are the same when these are.                                       *)
NoHistory == [asked |-> FALSE, started |-> 0, heard |-> [c \in Run |-> << >>], fired |-> 0]

Absent == [status |-> "ABSENT", parent |-> None, child |-> None, first |-> None,
           policy |-> "abandon", limits |-> {}, history |-> NoHistory, wake |-> FALSE,
           timers |-> NoTimers]

(* applyRunTimeoutsOnClient: a timer for each limit the run is given. *)
Armed(limits) == [t \in Timer |-> IF t \in limits THEN "PENDING" ELSE "none"]

NewRow(parent, child, first, policy, limits) ==
  [status |-> "RUNNING", parent |-> parent, child |-> child, first |-> first,
   policy |-> policy, limits |-> limits, history |-> NoHistory,
   wake |-> TRUE, timers |-> Armed(limits)]

(* createChildRunOnClient *)
ChildRow(parent, child, new, kind) == NewRow(parent, child, new, kind.policy, kind.limits)

(* createContinuedRunOnClient: the next run has its predecessor's parent    *)
(* but no child id of its own, which is the head's.                         *)
ContinuedRow(row) == NewRow(row.parent, None, row.first, row.policy, row.limits)

(* requestCancellationOnClient: unless a request is pending. *)
AskedToCancel(row) ==
  IF row.history.asked THEN row ELSE [row EXCEPT !.history.asked = TRUE, !.wake = TRUE]

StatusOf(type) ==
  CASE type = "run_completed" -> "COMPLETED"
    [] type = "run_failed" -> "FAILED"
    [] type = "run_cancelled" -> "CANCELLED"
    [] type = "run_terminated" -> "TERMINATED"
    [] type = "run_timed_out" -> "TIMED_OUT"
    [] type = "run_continued_as_new" -> "CONTINUED_AS_NEW"

(* closeRunIfTerminal on the run itself: the closing event, the projection, *)
(* and no task left waiting.                                                *)
ClosedRow(row, type) == [row EXCEPT !.status = StatusOf(type), !.wake = FALSE]

(* childOutcomeEvent *)
OutcomeOf(status) == IF status = "COMPLETED" THEN "completed" ELSE "failed"

(* The parent's history gets the outcome of a child, and a workflow task. *)
Told(row, child, status) ==
  [row EXCEPT !.history.heard[child] = Append(@, OutcomeOf(status)), !.wake = TRUE]

SettledTimer(row, t, state) == [row EXCEPT !.timers[t] = state]

(* The history gets timer_fired, and a workflow task. *)
FiredRow(row, t) ==
  [SettledTimer(row, t, "FIRED") EXCEPT !.history.fired = @ + 1, !.wake = TRUE]

(* The child id under which the parent knows the chain of r. *)
ChildId(rs, r) == IF rs[r].child # None THEN rs[r].child ELSE rs[rs[r].first].child

Open(rs, r) == rs[r].status = "RUNNING"

(* What a workflow may decide given its history: to start children and a    *)
(* timer and to end.  A cancelled one can only go on or be cancelled;       *)
(* continuing drops whatever else was decided.                              *)
Decisions(row) ==
  {d \in [kids : {<< >>} \cup {<<k>> : k \in ChildKind} \cup {<<k, l>> : k, l \in ChildKind},
          timer : BOOLEAN,
          ends : {"none", "run_cancelled"} \cup Endings] :
     /\ d.ends = "run_continued_as_new" => d.kids = << >> /\ ~d.timer
     /\ d.timer => row.timers["timer-1"] = "none"
     /\ IF row.history.asked THEN d.ends \in {"none", "run_cancelled"}
                             ELSE d.ends # "run_cancelled"}

(* The events of a decision but the one that ends the run, and its timer. *)
DecidedRow(row, d) ==
  [row EXCEPT !.history.started = @ + Len(d.kids),
              !.timers["timer-1"] = IF d.timer THEN "PENDING" ELSE @,
              !.wake = FALSE]

(* The rows a decision of r adds: its children, or the next of its chain.   *)
AddedRows(rs, r, d, new) ==
  [i \in DOMAIN new |->
     IF d.ends = "run_continued_as_new" THEN ContinuedRow(rs[r])
     ELSE ChildRow(r, rs[r].history.started + i, new[i], d.kids[i])]

NewRuns(d) == IF d.ends = "run_continued_as_new" THEN 1 ELSE Len(d.kids)

With(rs, new, rows) ==
  [x \in Run |-> IF \E i \in DOMAIN new : new[i] = x
                   THEN rows[CHOOSE i \in DOMAIN new : new[i] = x]
                   ELSE rs[x]]

-----------------------------------------------------------------------------
(* Closing r with an event of the given type: its parent is told unless the *)
(* chain goes on, and the policies of its open children are applied, all    *)
(* the way down.                                                            *)
Close(rs, r, type) ==
  LET ends[x \in Run] ==
        \/ x = r
        \/ /\ Open(rs, x) /\ rs[x].policy = "terminate"
           /\ rs[x].parent # None /\ ends[rs[x].parent]
      isTold(x) == x = rs[r].parent /\ Open(rs, x) /\ type # "run_continued_as_new"
      isAsked(x) == /\ Open(rs, x) /\ rs[x].policy = "cancel"
                    /\ rs[x].parent # None /\ ends[rs[x].parent]
  IN [x \in Run |->
        IF x = r THEN ClosedRow(rs[x], type)
        ELSE IF ends[x] THEN ClosedRow(rs[x], "run_terminated")
        ELSE IF isAsked(x) THEN AskedToCancel(rs[x])
        ELSE IF isTold(x) THEN Told(rs[x], ChildId(rs, r), StatusOf(type))
        ELSE rs[x]]

(* recordWorkflowTaskResult of a decision that is not outdated. *)
Decide(r, d, new) ==
  /\ Open(runs, r) /\ runs[r].wake
  /\ d \in Decisions(runs[r])
  /\ Len(new) = NewRuns(d)
  /\ \A i, j \in DOMAIN new : new[i] > r /\ (i < j => new[i] < new[j])
  /\ LET rs == With([runs EXCEPT ![r] = DecidedRow(@, d)], new, AddedRows(runs, r, d, new))
     IN runs' = IF d.ends = "none" THEN rs ELSE Close(rs, r, d.ends)

CancelRun(r) ==
  /\ Open(runs, r)
  /\ runs' = [runs EXCEPT ![r] = AskedToCancel(@)]

TerminateRun(r) ==
  /\ Open(runs, r)
  /\ runs' = Close(runs, r, "run_terminated")

(* fireNext on a due timer; when it is due is left open. *)
FireTimer(r, t) ==
  /\ runs[r].timers[t] = "PENDING"
  /\ runs' =
       IF ~Open(runs, r) THEN [runs EXCEPT ![r] = SettledTimer(@, t, "CANCELLED")]
       ELSE IF t \in Timeout
         THEN Close([runs EXCEPT ![r] = SettledTimer(@, t, "FIRED")], r, "run_timed_out")
         ELSE [runs EXCEPT ![r] = FiredRow(@, t)]

(* What the invariant checker reports of the timers: one that fired twice,  *)
(* and one marked fired without an event.  A timer that closes its run      *)
(* never has one, so the checker reports every run that timed out.          *)
TimerViolations(rs) ==
  {x \in Run \X Timer :
     LET events == IF x[2] \in Timeout THEN 0 ELSE rs[x[1]].history.fired
     IN events > 1 \/ (rs[x[1]].timers[x[2]] = "FIRED" /\ events = 0)}

TreeInit ==
  \E limits \in RootLimits :
    runs = [x \in Run |-> IF x = 1 THEN NewRow(None, None, 1, "abandon", limits) ELSE Absent]

Unused == {r \in Run : runs[r] = Absent}

TreeNext ==
  \E r \in Run :
    \/ /\ Open(runs, r) /\ runs[r].wake
       /\ \E d \in Decisions(runs[r]) : \E new \in [1..NewRuns(d) -> Unused] : Decide(r, d, new)
    \/ CancelRun(r) \/ TerminateRun(r)
    \/ \E t \in Timer : FireTimer(r, t)

TreeSpec == TreeInit /\ [][TreeNext]_runs
=============================================================================
