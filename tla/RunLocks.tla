------------------------------- MODULE RunLocks -------------------------------
(***************************************************************************)
(* The transactions that close, cancel, time out and decide runs, with the *)
(* row locks they take one at a time: lockRunWithParent, then the parent   *)
(* to notify, then the children of what was closed.  Several transactions  *)
(* run at once, on any runs of the tree; each works on the rows it read    *)
(* and what it wrote becomes visible when it commits.  A transaction may   *)
(* be rolled back at any time.                                             *)
(***************************************************************************)
EXTENDS RunTree

CONSTANTS
  Tx,         \* connections that may run a transaction at once
  Clients,    \* what clients may ask for: "cancel", "terminate"
  MaxBegun    \* bound on decisions, requests and roll-backs

ASSUME LocksAssumption ==
  /\ Clients \subseteq {"cancel", "terminate"}
  /\ MaxBegun \in Nat

VARIABLES
  tx,      \* connection -> its transaction
  begun    \* decisions, requests and roll-backs so far

vars == <<runs, tx, begun>>

(* todo: the statements still to run; held: the runs whose rows it has      *)
(* locked; wrote: the rows it has written.                                  *)
NoTx == [kind |-> "none", run |-> None, timer |-> "none", seen |-> NoHistory,
         decision |-> << >>, new |-> << >>, todo |-> << >>, held |-> {}, wrote |-> << >>]

Op(name, r) == [op |-> name, run |-> r]

Idle(t) == tx[t] = NoTx

(* The row as the transaction sees it. *)
Row(t, r) == IF r \in DOMAIN tx[t].wrote THEN tx[t].wrote[r] ELSE runs[r]

Put(t, r, row) == [x \in DOMAIN tx[t].wrote \cup {r} |-> IF x = r THEN row ELSE tx[t].wrote[x]]

FreeToLock(t, r) == \A u \in Tx \ {t} : r \notin tx[u].held

-----------------------------------------------------------------------------
(* A transaction that only adds to a run locks its row alone. *)
LockRunOnly(r) == <<Op("body", r)>>

LockChildFirst(r) ==
  IF runs[r].parent = None THEN <<Op("body", r)>>
  ELSE <<Op("lock", r), Op("lock", runs[r].parent), Op("body", r)>>

(* lockRunWithParent, then the body of the transaction. *)
LockRunWithParent(r) ==
  IF runs[r].parent = None THEN <<Op("body", r)>>
  ELSE <<Op("lock", runs[r].parent), Op("body", r)>>

Begin(t, change) ==
  /\ Idle(t)
  /\ tx' = [tx EXCEPT ![t] = change]
  /\ UNCHANGED runs

Counted == begun < MaxBegun /\ begun' = begun + 1

(* A worker has read the history; it decides on it and records that. *)
BeginDecision(t, r) ==
  /\ Counted
  /\ Open(runs, r) /\ runs[r].wake
  /\ Begin(t, [NoTx EXCEPT !.kind = "decide", !.run = r, !.seen = runs[r].history,
                           !.todo = LockRunWithParent(r)])

(* cancelRun and terminateRun; a request to a closed run is refused. *)
BeginRequest(t, r, kind) ==
  /\ Counted
  /\ kind \in Clients
  /\ Open(runs, r)
  /\ kind = "cancel" => ~runs[r].history.asked
  /\ Begin(t, [NoTx EXCEPT !.kind = kind, !.run = r, !.todo = LockRunWithParent(r)])

(* No other scheduler has the row of the timer: skip locked. *)
NotTaken(r, timer) ==
  \A u \in Tx : ~(tx[u].kind = "timer" /\ tx[u].run = r /\ tx[u].timer = timer)

(* fireNext takes a due timer; when it is due is left open. *)
BeginTimer(t, r, timer) ==
  /\ runs[r].timers[timer] = "PENDING"
  /\ NotTaken(r, timer)
  /\ Begin(t, [NoTx EXCEPT !.kind = "timer", !.run = r, !.timer = timer,
                           !.todo = IF timer \in Timeout THEN LockRunWithParent(r)
                                    ELSE LockRunOnly(r)])
  /\ UNCHANGED begun

-----------------------------------------------------------------------------
(* What is left to do once a run was closed. *)
AfterClose(r, type) ==
  (IF type = "run_continued_as_new" THEN << >> ELSE <<Op("notify", r)>>) \o <<Op("children", r)>>

NextIs(t, name) == tx[t].todo # << >> /\ Head(tx[t].todo).op = name

At(t) == Head(tx[t].todo).run

Rest(t) == Tail(tx[t].todo)

Lock(t) ==
  /\ NextIs(t, "lock")
  /\ FreeToLock(t, At(t))
  /\ tx' = [tx EXCEPT ![t].held = @ \cup {At(t)}, ![t].todo = Rest(t)]
  /\ UNCHANGED <<runs, begun>>

Outdated(t) == tx[t].seen # runs[tx[t].run].history

RefusedUnlessClosed(t) ==
  tx[t].kind = "decide" /\ (~runs[tx[t].run].wake \/ Outdated(t)) /\ Open(runs, tx[t].run)

(* The transaction holds its run and acts on it, unless the run is closed   *)
(* or, for a decision, its task is decided or the history has moved on.     *)
Refused(t) ==
  \/ ~Open(runs, tx[t].run) /\ tx[t].kind # "timer"
  \/ tx[t].kind = "decide" /\ (~runs[tx[t].run].wake \/ Outdated(t))

(* The ids of runs that exist or are about to. *)
Taken == {r \in Run : runs[r] # Absent} \cup UNION {DOMAIN tx[t].wrote : t \in Tx}

Fresh(n) ==
  LET last == CHOOSE r \in Taken : \A x \in Taken : x <= r IN [i \in 1..n |-> last + i]

(* The body of a transaction that holds its run: what it writes there, and  *)
(* what is left to do if it closes the run.                                 *)
Act(t, wrote, ends) ==
  tx' = [tx EXCEPT ![t].held = @ \cup {At(t)},
                   ![t].wrote = wrote,
                   ![t].todo = IF ends = "none" THEN << >> ELSE AfterClose(At(t), ends)]

RefusedBody(t) == Refused(t) /\ Act(t, << >>, "none")

(* recordWorkflowTaskResult: what the workflow decides is a function of the *)
(* history it was given, which is the present one.                          *)
DecideBody(t) ==
  /\ tx[t].kind = "decide" /\ ~Refused(t)
  /\ \E d \in Decisions(runs[At(t)]) :
       LET r == At(t)
           new == Fresh(NewRuns(d))
           added == AddedRows(runs, r, d, new)
           decided == DecidedRow(runs[r], d)
       IN /\ \A i \in DOMAIN new : new[i] \in Run
          /\ tx' = [tx EXCEPT
               ![t].held = @ \cup {r},
               ![t].decision = d,
               ![t].new = new,
               ![t].wrote = [x \in {r} \cup {new[i] : i \in DOMAIN new} |->
                  IF x = r THEN (IF d.ends = "none" THEN decided ELSE ClosedRow(decided, d.ends))
                  ELSE added[CHOOSE i \in DOMAIN new : new[i] = x]],
               ![t].todo = IF d.ends = "none" THEN << >> ELSE AfterClose(r, d.ends)]

CancelBody(t) ==
  /\ tx[t].kind = "cancel" /\ ~Refused(t)
  /\ Act(t, [x \in {At(t)} |-> AskedToCancel(runs[x])], "none")

TerminateBody(t) ==
  /\ tx[t].kind = "terminate" /\ ~Refused(t)
  /\ Act(t, [x \in {At(t)} |-> ClosedRow(runs[x], "run_terminated")], "run_terminated")

TimerBodyUnchecked(t) ==
  /\ tx[t].kind = "timer"
  /\ IF tx[t].timer \in Timeout
       THEN Act(t, [x \in {At(t)} |-> ClosedRow(SettledTimer(runs[x], tx[t].timer, "FIRED"),
                                               "run_timed_out")], "run_timed_out")
       ELSE Act(t, [x \in {At(t)} |-> FiredRow(runs[x], tx[t].timer)], "none")

(* fireNext; timeOutRunOnClient *)
TimerBody(t) ==
  /\ tx[t].kind = "timer"
  /\ LET settled(state) == SettledTimer(runs[At(t)], tx[t].timer, state) IN
     IF ~Open(runs, At(t))
       THEN Act(t, [x \in {At(t)} |-> settled("CANCELLED")], "none")
     ELSE IF tx[t].timer \in Timeout
       THEN Act(t, [x \in {At(t)} |-> ClosedRow(settled("FIRED"), "run_timed_out")], "run_timed_out")
     ELSE Act(t, [x \in {At(t)} |-> FiredRow(runs[x], tx[t].timer)], "none")

Body(t) ==
  /\ NextIs(t, "body")
  /\ FreeToLock(t, At(t))
  /\ RefusedBody(t) \/ DecideBody(t) \/ CancelBody(t) \/ TerminateBody(t) \/ TimerBody(t)
  /\ UNCHANGED <<runs, begun>>

LinkOfRun(t, r) == Row(t, r).child

(* The id under which the parent knows the chain: the head has it. *)
LinkOf(t, r) ==
  IF Row(t, r).child # None THEN Row(t, r).child ELSE Row(t, Row(t, r).first).child

Notified(t, r) ==
  LET parent == Row(t, r).parent IN
  IF LinkOf(t, r) = None \/ Row(t, parent).status # "RUNNING" THEN tx[t].wrote
  ELSE Put(t, parent, Told(Row(t, parent), LinkOf(t, r), Row(t, r).status))

(* notifyParent *)
NotifyParent(t) ==
  /\ NextIs(t, "notify")
  /\ IF Row(t, At(t)).parent = None
       THEN tx' = [tx EXCEPT ![t].todo = Rest(t)]
       ELSE /\ FreeToLock(t, Row(t, At(t)).parent)
            /\ tx' = [tx EXCEPT ![t].held = @ \cup {Row(t, At(t)).parent},
                                ![t].wrote = Notified(t, At(t)),
                                ![t].todo = Rest(t)]
  /\ UNCHANGED <<runs, begun>>

OpenChildrenBefore(t, r) ==
  {x \in Run : runs[x].parent = r /\ runs[x].status = "RUNNING"}

(* Those this transaction has just created included. *)
OpenChildren(t, r) ==
  {x \in Run : Row(t, x).parent = r /\ Row(t, x).status = "RUNNING"}

(* order by id: the i-th of the runs of S. *)
Nth(S, i) == CHOOSE x \in S : Cardinality({y \in S : y <= x}) = i

Each(name, S) == [i \in 1..Cardinality(S) |-> Op(name, Nth(S, i))]

SelectWithoutLocks(t) ==
  /\ NextIs(t, "children")
  /\ tx' = [tx EXCEPT ![t].todo = Each("policy", OpenChildren(t, At(t))) \o Rest(t)]
  /\ UNCHANGED <<runs, begun>>

(* applyParentClosePolicies: the open children are selected and locked in   *)
(* the order of their ids, then each is dealt with.                         *)
SelectChildren(t) ==
  /\ NextIs(t, "children")
  /\ LET S == OpenChildren(t, At(t)) IN
     tx' = [tx EXCEPT ![t].todo = Each("lock", S) \o Each("policy", S) \o Rest(t)]
  /\ UNCHANGED <<runs, begun>>

(* A child that closed while its lock was waited for is passed over. *)
ApplyPolicy(t) ==
  /\ NextIs(t, "policy")
  /\ LET r == At(t)
         row == Row(t, r)
         policy == IF row.status = "RUNNING" THEN row.policy ELSE "abandon"
     IN tx' = [tx EXCEPT
          ![t].wrote = CASE policy = "cancel" -> Put(t, r, AskedToCancel(row))
                         [] policy = "terminate" -> Put(t, r, ClosedRow(row, "run_terminated"))
                         [] OTHER -> @,
          ![t].todo = (IF policy = "terminate" THEN AfterClose(r, "run_terminated") ELSE << >>)
                      \o Rest(t)]
  /\ UNCHANGED <<runs, begun>>

Commit(t) ==
  /\ ~Idle(t) /\ tx[t].todo = << >>
  /\ runs' = [x \in Run |-> Row(t, x)]
  /\ tx' = [tx EXCEPT ![t] = NoTx]
  /\ UNCHANGED begun

(* The process dies, or the transaction fails and is rolled back. *)
RollBack(t) ==
  /\ ~Idle(t)
  /\ Counted
  /\ tx' = [tx EXCEPT ![t] = NoTx]
  /\ UNCHANGED runs

Proceed(t) ==
  Lock(t) \/ Body(t) \/ NotifyParent(t) \/ SelectChildren(t) \/ ApplyPolicy(t) \/ Commit(t)

Init ==
  /\ TreeInit
  /\ tx = [t \in Tx |-> NoTx]
  /\ begun = 0

Next ==
  \E t \in Tx :
    \/ Proceed(t) \/ RollBack(t)
    \/ \E r \in Run :
         \/ BeginDecision(t, r)
         \/ \E kind \in {"cancel", "terminate"} : BeginRequest(t, r, kind)
         \/ \E timer \in Timer : BeginTimer(t, r, timer)

Spec == Init /\ [][Next]_vars

-----------------------------------------------------------------------------
(* Properties *)

Status == {"ABSENT", "RUNNING", "COMPLETED", "FAILED", "CANCELLED", "TERMINATED",
           "TIMED_OUT", "CONTINUED_AS_NEW"}

(* The rows have their shape, a run comes after its parent and its          *)
(* predecessors, and no row is locked by two transactions.                  *)
TypeOK ==
  /\ \A r \in Run :
       /\ runs[r].status \in Status
       /\ runs[r].policy \in Policy
       /\ runs[r].limits \in SUBSET Timeout
       /\ runs[r].wake \in BOOLEAN
       /\ runs[r].timers \in [Timer -> {"none", "PENDING", "FIRED", "CANCELLED"}]
       /\ runs[r] # Absent => runs[r].parent < r /\ runs[r].first \in 1..r
  /\ \A t \in Tx : tx[t].held \subseteq Run /\ DOMAIN tx[t].wrote \subseteq Run
  /\ \A t, u \in Tx : t # u => tx[t].held \cap tx[u].held = {}
  /\ begun \in 0..MaxBegun

WaitsFor(t, u) ==
  /\ tx[t].todo # << >>
  /\ \/ Head(tx[t].todo).op \in {"lock", "body"} /\ At(t) \in tx[u].held
     \/ Head(tx[t].todo).op = "notify" /\ Row(t, At(t)).parent \in tx[u].held

(* Transactions never wait for each other in a circle: a child closing      *)
(* while its parent closes cannot deadlock (run-locks.ts).                  *)
NoDeadlock ==
  \A T \in SUBSET Tx : T # {} => \E t \in T : \A u \in T \ {t} : ~WaitsFor(t, u)

Chain(r) == {x \in Run : runs[x] # Absent /\ runs[x].first = runs[r].first}

ChainOpen(r) == \E x \in Chain(r) : Open(runs, x)

Last(r) == CHOOSE x \in Chain(r) : \A y \in Chain(r) : y <= x

(* What a run hears it hears exactly once.  An open parent has heard what   *)
(* became of the last run of a child's chain when that chain is closed and  *)
(* nothing before, however the child, its successors and the parent raced   *)
(* (close-run.ts, notifyParent); a timer fired in the history of its run is *)
(* marked fired, and with any number of schedulers the invariant checker    *)
(* finds only the limits that closed their run (timer-scheduler.ts, tick).  *)
OutcomeExact ==
  /\ \A x \in Run : (runs[x].child # None /\ Open(runs, runs[x].parent)) =>
       runs[runs[x].parent].history.heard[runs[x].child]
         = IF ChainOpen(x) THEN << >> ELSE <<OutcomeOf(runs[Last(x)].status)>>
  /\ \A r \in Run : runs[r].history.fired > 0 => runs[r].timers["timer-1"] = "FIRED"
  /\ \A x \in TimerViolations(runs) : x[2] \in Timeout /\ runs[x[1]].status = "TIMED_OUT"

(* No open run is left behind by a closed parent against its policy: one    *)
(* started in the parent's last decision, or continued as new meanwhile,    *)
(* included (close-run.ts, applyParentClosePolicies).                       *)
NoOrphan ==
  \A x \in Run : (Open(runs, x) /\ runs[x].parent # None /\ ~Open(runs, runs[x].parent)) =>
    /\ runs[x].policy # "terminate"
    /\ runs[x].policy = "cancel" => runs[x].history.asked

(* A chain has one open run, or none and an end: the runs that continued    *)
(* are the others (recorder.ts, run_continued_as_new), and the open one     *)
(* still has the timers that end it pending, the deadline its chain was     *)
(* started with among them (run-timeouts.ts).                               *)
OneOpenPerChain ==
  \A r \in Run : runs[r] # Absent =>
    /\ Cardinality({x \in Chain(r) : runs[x].status # "CONTINUED_AS_NEW"}) = 1
    /\ Open(runs, r) =>
         \A t \in runs[runs[r].first].limits : runs[r].timers[t] = "PENDING"

(* Nothing is added to the history of a closed run and its status stays, no *)
(* matter which timer, child or request comes late.                         *)
ClosedIsFinal ==
  [][\A r \in Run : ~Open(runs, r) /\ runs[r] # Absent =>
       runs'[r].history = runs[r].history /\ runs'[r].status = runs[r].status]_vars

(* What the transaction does according to RunTree. *)
Whole(t) ==
  LET r == tx[t].run IN
  CASE tx[t].kind = "decide" -> Decide(r, tx[t].decision, tx[t].new)
    [] tx[t].kind = "cancel" -> CancelRun(r)
    [] tx[t].kind = "terminate" -> TerminateRun(r)
    [] tx[t].kind = "timer" -> FireTimer(r, tx[t].timer)
    [] OTHER -> FALSE

(* The transactions implement RunTree: although each reads and locks its    *)
(* rows one after the other, what it commits is what the tree does at once  *)
(* in the state it commits in.                                              *)
ImplementsTree == TreeInit /\ [][UNCHANGED runs \/ \E t \in Tx : Whole(t)]_vars
=============================================================================
