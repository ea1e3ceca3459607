----------------------------- MODULE WorkerPool -----------------------------
(***************************************************************************)
(* The workers of worker/src/worker.ts against the tasks table: the poll   *)
(* loop, the heartbeat of every running task, settling, the two phases of  *)
(* stop, crashes, and the janitor taking expired leases away meanwhile.    *)
(*                                                                         *)
(* A query is one step of the table; what the worker does until its next   *)
(* await is part of the step that precedes it.  Between two steps of a     *)
(* worker anything may happen, a crash included.  A fault is a query whose *)
(* answer the worker does not get.                                         *)
(***************************************************************************)
EXTENDS TaskQueue

CONSTANTS
  Worker,
  Stoppable,           \* the workers an operator may stop
  Concurrency,         \* how many tasks a worker runs at once
  HeartbeatInterval,   \* time between two renewals of a running task's lease
  MaxHandlerAttempts,  \* deliveries after which a throwing handler parks its task
  NackDelay,           \* redelivery delay of a task whose handler threw
  StickyTimeout,       \* life of a worker's claim on the run; 0: no sticky routing
  OperatorActs,        \* TRUE: an operator releases quarantined tasks
  RunMayEnd,           \* TRUE: the run may close while its tasks are worked on
  MaxFaults,           \* bound on lost answers
  MaxCrashes           \* bound on crashes

ASSUME PoolAssumption ==
  /\ IsFiniteSet(Task)
  /\ Stoppable \subseteq Worker
  /\ Concurrency \in Nat \ {0}
  /\ HeartbeatInterval \in Nat \ {0}
  /\ HeartbeatInterval < VisibilityTimeout
  /\ MaxHandlerAttempts \in Nat \ {0}
  /\ NackDelay \in 0..MaxDelay
  /\ StickyTimeout \in Nat
  /\ OperatorActs \in BOOLEAN
  /\ RunMayEnd \in BOOLEAN
  /\ MaxFaults \in Nat
  /\ MaxCrashes \in Nat

VARIABLES
  mode,      \* worker -> where it is in its life
  run,       \* delivery -> the RunningTask of it, wherever it runs
  inFlight,  \* worker -> task -> the delivery its map holds, NoEntry when absent
  drain,     \* worker -> the deliveries its stop still waits for or has to nack
  claim,     \* the row of run_stickiness of the run the tasks belong to
  faults, crashes,
  late       \* whether time ever passed over a due heartbeat or an unread answer

procVars == <<mode, run, inFlight, drain, claim>>
vars == <<tasks, token, answer, mode, run, inFlight, drain, claim, faults, crashes, late>>

NoEntry == 0

Nobody == "nobody"

Phase == {"none", "reply", "running", "acking", "nacking", "parking", "givingUp"}

(* beat: time until the heartbeat fires; fresh: time until the worker's own *)
(* clock says a whole lease length passed since the last confirmation.      *)
RunningTask == [at : Worker \cup {Nobody}, phase : Phase,
                beat : 0..HeartbeatInterval, fresh : 0..VisibilityTimeout,
                aborted : BOOLEAN, dropped : BOOLEAN]

Dead == "dead"

(* by: the claiming process, Dead once that process is; left: time until    *)
(* the claim expires.                                                       *)
StickyClaim == [by : Worker \cup {Nobody, Dead}, left : 0..StickyTimeout]

NoClaim == [by |-> Nobody, left |-> 0]

NotRunning == [at |-> Nobody, phase |-> "none", beat |-> 0, fresh |-> 0,
               aborted |-> FALSE, dropped |-> FALSE]

PoolInit ==
  /\ Init
  /\ mode = [w \in Worker |-> "idle"]
  /\ run = [d \in Delivery |-> NotRunning]
  /\ inFlight = [w \in Worker |-> [t \in Task |-> NoEntry]]
  /\ drain = [w \in Worker |-> {}]
  /\ claim = NoClaim
  /\ faults = 0
  /\ crashes = 0
  /\ late = FALSE

-----------------------------------------------------------------------------
At(w, phases) == {d \in Delivery : run[d].at = w /\ run[d].phase \in phases}

Entries(w) == {t \in Task : inFlight[w][t] # NoEntry}

FreeSlotsOneMore(w) == (Concurrency + 1) - Cardinality(Entries(w))

FreeSlots(w) == Concurrency - Cardinality(Entries(w))

Fault == faults < MaxFaults /\ faults' = faults + 1

Started(w) == [at |-> w, phase |-> "running", beat |-> HeartbeatInterval,
               fresh |-> VisibilityTimeout, aborted |-> FALSE, dropped |-> FALSE]

(* The handler is through: its entry leaves the map, whichever delivery of  *)
(* the task the entry names.                                                *)
Finish(d) ==
  /\ run' = [run EXCEPT ![d] = NotRunning]
  /\ inFlight' = [inFlight EXCEPT ![run[d].at][d[1]] = NoEntry]

-----------------------------------------------------------------------------
Submit(t) ==
  /\ Enqueue(t, 0)
  /\ UNCHANGED <<procVars, faults, crashes, late>>

(* A worker is started once; a crashed one is replaced by a new process.    *)
Start(w) ==
  /\ mode[w] \in {"idle", "crashed"}
  /\ mode' = [mode EXCEPT ![w] = "running"]
  /\ UNCHANGED <<queueVars, run, inFlight, drain, faults, crashes, late, claim>>

(* dequeue with stickyFor leaves the tasks of a run another worker has a    *)
(* live claim on to that worker.                                            *)
ClaimedForever(w) == claim.by \notin {w, Nobody}

ClaimedByOther(w) == claim.left > 0 /\ claim.by # w

(* pollLoop up to the await of dequeue, and dequeue itself. *)
Poll(w, S) ==
  /\ mode[w] = "running"
  /\ ~ClaimedByOther(w)
  /\ At(w, {"reply"}) = {}
  /\ Cardinality(S) <= FreeSlots(w)
  /\ Dequeue(S)
  /\ run' = [d \in Delivery |->
               IF d \in HandedOut(S)
                 THEN [NotRunning EXCEPT !.at = w, !.phase = "reply"]
                 ELSE run[d]]
  /\ UNCHANGED <<mode, inFlight, drain, faults, crashes, late, claim>>

(* The rows are leased but the answer is lost: nobody works on them. *)
PollFails(w, S) ==
  /\ mode[w] = "running"
  /\ ~ClaimedByOther(w)
  /\ At(w, {"reply"}) = {}
  /\ Cardinality(S) <= FreeSlots(w)
  /\ Dequeue(S)
  /\ Fault
  /\ UNCHANGED <<procVars, crashes, late>>

(* dequeue answers a worker that still runs: every task is launched.  The   *)
(* map is keyed by task, so an older delivery of the same task loses its    *)
(* entry to the new one.                                                    *)
Launch(w) ==
  LET got == At(w, {"reply"}) IN
  /\ mode[w] = "running"
  /\ got # {}
  /\ run' = [d \in Delivery |-> IF d \in got THEN Started(w) ELSE run[d]]
  /\ inFlight' = [inFlight EXCEPT ![w] =
                    [t \in Task |->
                       IF \E d \in got : d[1] = t
                         THEN (CHOOSE d \in got : d[1] = t)[2]
                         ELSE inFlight[w][t]]]
  /\ UNCHANGED <<queueVars, mode, drain, faults, crashes, late, claim>>

(* dequeue answers a worker that was stopped meanwhile: releaseUnstarted.   *)
ReleaseUnstarted(w, d) ==
  /\ mode[w] = "stopping"
  /\ d \in At(w, {"reply"})
  /\ \/ Nack(d, 0) /\ UNCHANGED faults
     \/ Fault /\ UNCHANGED queueVars
  /\ run' = [run EXCEPT ![d] = NotRunning]
  /\ UNCHANGED <<mode, inFlight, drain, crashes, late, claim>>

(* The heartbeat of a running task is due. *)
Beating(d) ==
  run[d].phase = "running" /\ ~run[d].aborted /\ ~run[d].dropped

BeatDue(d) == Beating(d) /\ run[d].beat = 0

KeepsBeatingLate(d, fresh) ==
  run' = [run EXCEPT ![d].beat = VisibilityTimeout, ![d].fresh = fresh]

KeepsBeating(d, fresh) ==
  run' = [run EXCEPT ![d].beat = HeartbeatInterval, ![d].fresh = fresh]

LosesLease(d) == run' = [run EXCEPT ![d].aborted = TRUE, ![d].beat = 0, ![d].fresh = 0]

Beat(d) ==
  /\ BeatDue(d)
  /\ \/ Extend(d) /\ KeepsBeating(d, VisibilityTimeout)
     \/ ~CanExtend(d) /\ LosesLease(d) /\ UNCHANGED queueVars
  /\ UNCHANGED <<mode, inFlight, drain, faults, crashes, late, claim>>

(* The heartbeat's query fails, before or after the table changed: the      *)
(* worker goes by its own clock.                                            *)
BeatFails(d) ==
  /\ BeatDue(d)
  /\ Fault
  /\ Extend(d) \/ UNCHANGED queueVars
  /\ \/ run[d].fresh > 0 /\ KeepsBeating(d, run[d].fresh)
     \/ run[d].fresh = 0 /\ LosesLease(d)
  /\ UNCHANGED <<mode, inFlight, drain, crashes, late, claim>>

(* An expired claim is taken over, the own one renewed, and a live claim of *)
(* another worker left alone.                                               *)
Claimed(w) ==
  IF claim.by = w \/ claim.left = 0 THEN [by |-> w, left |-> StickyTimeout] ELSE claim

ClaimReleased(w) == IF claim.by = w THEN NoClaim ELSE claim

(* updateClaim, before the handler of a workflow task returns: a run that   *)
(* goes on is claimed unless another worker's claim is live, a run that     *)
(* ended is given up.                                                       *)
UpdateClaim(d) ==
  LET w == run[d].at IN
  /\ StickyTimeout > 0
  /\ run[d].phase = "running"
  /\ claim' = Claimed(w) \/ claim' = ClaimReleased(w)
  /\ UNCHANGED <<queueVars, mode, run, inFlight, drain, faults, crashes, late>>

(* The handler returned, threw, or threw a ParkTaskError, and settle looks  *)
(* once whether the delivery was dropped or lost its lease.                 *)
HandlerEnds(d, call) ==
  /\ run[d].phase = "running"
  /\ IF run[d].aborted \/ run[d].dropped
       THEN Finish(d)
       ELSE /\ run' = [run EXCEPT ![d].phase = call, ![d].beat = 0, ![d].fresh = 0]
            /\ UNCHANGED inFlight
  /\ UNCHANGED <<queueVars, mode, drain, faults, crashes, late, claim>>

Returns(d) == HandlerEnds(d, "acking")

Throws(d) ==
  HandlerEnds(d, IF d[2] >= MaxHandlerAttempts THEN "givingUp" ELSE "nacking")

ThrowsPark(d) == HandlerEnds(d, "parking")

(* settle and settleFailure: the query of the handler's outcome. *)
SettleCall(d) ==
  \/ run[d].phase = "acking" /\ Ack(d)
  \/ run[d].phase = "nacking" /\ Nack(d, NackDelay)
  \/ run[d].phase \in {"parking", "givingUp"} /\ Quarantine(d)

Settles(d) ==
  /\ SettleCall(d)
  /\ Finish(d)
  /\ UNCHANGED <<mode, drain, faults, crashes, late, claim>>

SettleFails(d) ==
  /\ run[d].phase \in {"acking", "nacking", "parking", "givingUp"}
  /\ Fault
  /\ Finish(d)
  /\ UNCHANGED <<queueVars, mode, drain, crashes, late, claim>>

-----------------------------------------------------------------------------
(* stop *)

Stop(w) ==
  /\ w \in Stoppable
  /\ mode[w] = "running"
  /\ mode' = [mode EXCEPT ![w] = "stopping"]
  /\ UNCHANGED <<queueVars, run, inFlight, drain, faults, crashes, late, claim>>

LoopEndedAnyway(w) == mode[w] = "stopping"

(* The poll loop is over once the answer of its last dequeue was dealt with. *)
LoopEnded(w) == mode[w] = "stopping" /\ At(w, {"reply"}) = {}

(* shutDown goes by the entries the map holds now. *)
Drain(w) ==
  /\ LoopEnded(w)
  /\ mode' = [mode EXCEPT ![w] = "draining"]
  /\ drain' = [drain EXCEPT ![w] = {<<t, inFlight[w][t]>> : t \in Entries(w)}]
  /\ UNCHANGED <<queueVars, run, inFlight, faults, crashes, late, claim>>

Drained(w) ==
  /\ mode[w] = "draining"
  /\ \A d \in drain[w] : run[d].at # w
  /\ mode' = [mode EXCEPT ![w] = "stopped"]
  /\ drain' = [drain EXCEPT ![w] = {}]
  /\ UNCHANGED <<queueVars, run, inFlight, faults, crashes, late, claim>>

(* shutdownTimeoutMs passes: what is still in the map is dropped. *)
DropStragglers(w) ==
  LET stragglers == {d \in drain[w] : inFlight[w][d[1]] # NoEntry} IN
  /\ mode[w] = "draining"
  /\ \E d \in drain[w] : run[d].at = w
  /\ mode' = [mode EXCEPT ![w] = "dropping"]
  /\ drain' = [drain EXCEPT ![w] = stragglers]
  /\ run' = [d \in Delivery |->
               IF d \in stragglers
                 THEN [run[d] EXCEPT !.aborted = TRUE, !.dropped = TRUE,
                                     !.beat = 0, !.fresh = 0]
                 ELSE run[d]]
  /\ UNCHANGED <<queueVars, inFlight, faults, crashes, late, claim>>

(* The handler settled or abortGraceMs passed: the task is nacked. *)
DropNack(w, d) ==
  /\ mode[w] = "dropping"
  /\ d \in drain[w]
  /\ \/ Nack(d, 0) /\ UNCHANGED faults
     \/ Fault /\ UNCHANGED queueVars
  /\ drain' = [drain EXCEPT ![w] = @ \ {d}]
  /\ inFlight' = [inFlight EXCEPT ![w][d[1]] = NoEntry]
  /\ UNCHANGED <<mode, run, crashes, late, claim>>

Stopped(w) ==
  /\ mode[w] = "dropping"
  /\ drain[w] = {}
  /\ mode' = [mode EXCEPT ![w] = "stopped"]
  /\ UNCHANGED <<queueVars, run, inFlight, drain, faults, crashes, late, claim>>

(* engine.stop, after worker.stop: releaseWorker gives the claims up. *)
ReleaseWorker(w) ==
  /\ mode[w] = "stopped"
  /\ claim.by = w
  /\ claim' = NoClaim
  /\ UNCHANGED <<queueVars, mode, run, inFlight, drain, faults, crashes, late>>

-----------------------------------------------------------------------------
(* The process dies: nothing of it is left but its leases and its claim,    *)
(* which the process that replaces it, having another identity, cannot use. *)
Crash(w) ==
  /\ mode[w] \notin {"idle", "crashed", "stopped"}
  /\ crashes < MaxCrashes
  /\ crashes' = crashes + 1
  /\ mode' = [mode EXCEPT ![w] = "crashed"]
  /\ run' = [d \in Delivery |-> IF run[d].at = w THEN NotRunning ELSE run[d]]
  /\ inFlight' = [inFlight EXCEPT ![w] = [t \in Task |-> NoEntry]]
  /\ drain' = [drain EXCEPT ![w] = {}]
  /\ claim' = IF claim.by = w THEN [claim EXCEPT !.by = Dead] ELSE claim
  /\ UNCHANGED <<queueVars, faults, late>>

JanitorReclaims(S) ==
  /\ Reclaim(S)
  /\ UNCHANGED <<procVars, faults, crashes, late>>

OperatorReleases(t) ==
  /\ OperatorActs
  /\ ReleaseQuarantined(t)
  /\ UNCHANGED <<procVars, faults, crashes, late>>

(* The run closes meanwhile: closeRunIfTerminal withdraws what nobody holds. *)
RunEnds ==
  /\ RunMayEnd
  /\ \A t \in Task : tasks[t].state # "ABSENT"
  /\ Withdraw({t \in Task : tasks[t].state = "PENDING"})
  /\ UNCHANGED <<procVars, faults, crashes, late>>

Countdown(n) == IF n > 0 THEN n - 1 ELSE 0

(* One clock drives the leases and the timers of the workers.               *)
TimePasses ==
  /\ Tick \/ (claim.left > 0 /\ (\A t \in Task : tasks[t].wait = 0) /\ UNCHANGED queueVars)
  /\ claim' = [claim EXCEPT !.left = Countdown(@)]
  /\ late' = (late \/ \E d \in Delivery : BeatDue(d) \/ run[d].phase = "reply")
  /\ run' = [d \in Delivery |->
               [run[d] EXCEPT !.beat = Countdown(@), !.fresh = Countdown(@)]]
  /\ UNCHANGED <<mode, inFlight, drain, faults, crashes>>

PoolNext ==
  \/ \E t \in Task : Submit(t) \/ OperatorReleases(t)
  \/ \E w \in Worker :
       \/ Start(w) \/ Launch(w) \/ Crash(w)
       \/ Stop(w) \/ Drain(w) \/ Drained(w) \/ DropStragglers(w) \/ Stopped(w)
       \/ ReleaseWorker(w)
  \/ \E w \in Worker, S \in SUBSET Task : Poll(w, S) \/ PollFails(w, S)
  \/ \E w \in Worker, d \in Delivery : ReleaseUnstarted(w, d) \/ DropNack(w, d)
  \/ \E d \in Delivery :
       \/ Beat(d) \/ BeatFails(d)
       \/ Returns(d) \/ Throws(d) \/ ThrowsPark(d)
       \/ Settles(d) \/ SettleFails(d) \/ UpdateClaim(d)
  \/ \E S \in SUBSET Task : JanitorReclaims(S)
  \/ RunEnds
  \/ TimePasses

PoolSpec == PoolInit /\ [][PoolNext]_vars

(* Live processes keep going: timers fire, queries are answered, handlers   *)
(* end, a crashed worker is replaced and the janitor loop sweeps.  Nobody   *)
(* has to submit, stop, crash or release anything.                          *)
Fairness ==
  /\ WF_vars(TimePasses)
  /\ WF_vars(\E S \in SUBSET Task : JanitorReclaims(S))
  /\ \A w \in Worker :
       /\ WF_vars(Start(w))
       /\ WF_vars(\E S \in SUBSET Task : Poll(w, S))
       /\ WF_vars(Launch(w))
       /\ WF_vars(\E d \in Delivery : ReleaseUnstarted(w, d) \/ DropNack(w, d))
       /\ WF_vars(ReleaseWorker(w))
       /\ WF_vars(Drain(w) \/ Drained(w) \/ Stopped(w))
  /\ \A d \in Delivery :
       /\ WF_vars(Beat(d))
       /\ WF_vars(Returns(d) \/ Throws(d) \/ ThrowsPark(d))
       /\ WF_vars(Settles(d))

FairPoolSpec == PoolSpec /\ Fairness

-----------------------------------------------------------------------------
(* Properties *)

(* The state has its shape, and the map of a worker never names a delivery  *)
(* the worker is not running (worker.ts, inFlight).                         *)
PoolTypeOK ==
  /\ TypeOK
  /\ mode \in [Worker -> {"idle", "running", "stopping", "draining", "dropping",
                          "stopped", "crashed"}]
  /\ run \in [Delivery -> RunningTask]
  /\ inFlight \in [Worker -> [Task -> 0..MaxDeliveries]]
  /\ drain \in [Worker -> SUBSET Delivery]
  /\ claim \in StickyClaim
  /\ faults \in 0..MaxFaults
  /\ crashes \in 0..MaxCrashes
  /\ late \in BOOLEAN
  /\ \A w \in Worker : \A t \in Entries(w) : run[<<t, inFlight[w][t]>>].at = w

(* A worker never runs more handlers than its concurrency (worker.ts,       *)
(* "concurrency: how many tasks run at once"), aborted ones included.       *)
ConcurrencyRespected ==
  \A w \in Worker : Cardinality(At(w, Phase \ {"none", "reply"})) <= Concurrency

(* When stop resolves, no handler of the worker goes on unaborted and no    *)
(* leased task waits to be started: everything was waited for, or aborted   *)
(* and nacked (worker.ts, stop).  Like ConcurrencyRespected it is lost when *)
(* Concurrency leaves room to take an own expired task again.               *)
StopLeavesNothing ==
  \A w \in Worker : mode[w] = "stopped" =>
    \A d \in At(w, {"reply", "running"}) : run[d].aborted

(* With timers and answers on time, the heartbeats of a live handler keep   *)
(* its lease, through as many failed heartbeats as fit into a lease length, *)
(* whatever the janitor and the other workers do.                           *)
BeatingKeepsLease ==
  ~late => \A d \in Delivery :
    Beating(d) => HoldsLease(d) /\ tasks[d[1]].wait > 0

(* Every submitted task is completed or set aside for an operator in the    *)
(* end, through crashes, lost answers, a stopped worker, and the claim of a *)
(* worker that will never come for it (sticky-router.ts, "once the claim    *)
(* expires any worker may take them").                                      *)
EveryTaskSettles ==
  \A t \in Task :
    tasks[t].state \in {"PENDING", "LEASED"} ~>
      tasks[t].state \in {"COMPLETED", "QUARANTINED"}
=============================================================================
