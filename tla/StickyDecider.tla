---------------------------- MODULE StickyDecider ----------------------------
(***************************************************************************)
(* Workers deciding one run from its shared history: each keeps a live     *)
(* session in its cache (sticky/sticky-decider.ts, sticky/run-cache.ts)    *)
(* and falls back to a replay, records its decision against the history it *)
(* read (engine/task-handler.ts), is superseded, restarted, or deployed    *)
(* with a newer build.  Steps, timers, children, signals and a             *)
(* cancellation arrive at any time.                                        *)
(*                                                                         *)
(* Reading the history and deciding is one step: the handlers of one       *)
(* process share its sessions but are not interleaved inside a drain, and  *)
(* a decision made from an older reading is the same step taken earlier.   *)
(***************************************************************************)
EXTENDS Replay

CONSTANTS
  Worker,              \* worker processes
  Slot,                \* tasks one of them handles at a time
  Workflow,            \* the workflows: operations of the old and the new build, what may arrive
  MaxFaults            \* bound on restarts, evictions, duplicate and redelivered tasks

VARIABLES
  flow,                \* the workflow this run executes
  history,             \* the run's events
  session,             \* per worker: its cached session (seen = 0: none)
  uncacheable,         \* per worker: whether it gave up caching this workflow
  build,               \* per worker: "old" or "new"
  slot,                \* per worker and slot: the workflow task in hand
  events,              \* signals and cancellations so far
  faults               \* restarts, evictions and redeliveries so far

vars == <<flow, history, session, uncacheable, build, slot, events, faults>>

NoDecision == Decision("none", <<>>)
Idle == [phase |-> "idle", upto |-> 0, decision |-> NoDecision]

Prog(w) == IF build[w] = "new" THEN flow.new ELSE flow.old
Prefix(n) == SubSeq(history, 1, n)

Init ==
  /\ flow \in Workflow
  /\ history = <<Event("run_started", 0, "", <<>>)>>
  /\ session = [w \in Worker |-> NewSession]
  /\ uncacheable = [w \in Worker |-> FALSE]
  /\ build = [w \in Worker |-> "old"]
  /\ slot = [w \in Worker |-> [k \in Slot |-> Idle]]
  /\ events = 0
  /\ faults = 0

-----------------------------------------------------------------------------
(* What reaches the history beside decisions.                               *)

Append1(e) == history' = Append(history, e)

\* Steps, timers or children the history started and has no outcome of.
Open(type, kind) ==
  {i \in DOMAIN history : history[i].type = type /\ Position(history, <<kind, history[i].id, "">>) = 0}

Arrives ==
  /\ ~Closed(history)
  /\ UNCHANGED <<flow, session, uncacheable, build, slot, faults>>
  /\ \/ /\ events' = events
        /\ \/ \E i \in Open("step_scheduled", "step"), type \in {"step_completed", "step_failed"} :
                /\ type = "step_failed" => history[i].of \in flow.failing
                /\ Append1(Event(type, history[i].id, "", <<>>))
           \/ \E i \in Open("timer_started", "timer") :
                Append1(Event("timer_fired", history[i].id, "", <<>>))
           \/ \E i \in Open("child_started", "child"), type \in {"child_completed", "child_failed"} :
                /\ type = "child_failed" => history[i].of \in flow.failing
                /\ Append1(Event(type, history[i].id, "", <<>>))
     \/ /\ events < flow.events
        /\ events' = events + 1
        /\ \/ \E name \in flow.signals : Append1(Event("signal_received", 0, name, <<>>))
           \/ /\ flow.cancels
              /\ ~Has(history, "cancel_requested")
              /\ Append1(Event("cancel_requested", 0, "", <<>>))

-----------------------------------------------------------------------------
(* One workflow task.                                                       *)

\* Something arrived since the last decision: it brought a workflow task.
Undecided == Last(history).type \notin {"step_scheduled", "timer_started", "child_started"}

\* A session is cached while its run stays open.
Kept(advanced) == IF advanced.decision.outcome = "suspended" THEN advanced.session ELSE NewSession

Result(decision, kept, gaveUp) ==
  [decision |-> decision, session |-> kept, uncacheable |-> gaveUp]

\* A new session over the whole history, unless this workflow was found not to allow one.
ReplayUnless(advanced, h, prog, gaveUp) ==
  IF ~gaveUp /\ advanced.status # "unusable"
  THEN Result(advanced.decision, Kept(advanced), FALSE)
  ELSE Result(Decide(h, prog, Len(h)), NewSession, TRUE)

ReplayFromScratch(h, prog, gaveUp) ==
  ReplayUnless(Advance(NewSession, h, prog, Len(h)), h, prog, gaveUp)

\* The cached session when it can go on from what it has seen, else a replay.
ContinueOrReplay(advanced, cached, h, prog, gaveUp) ==
  IF cached.seen > 0 /\ advanced.status # "unusable"
  THEN Result(advanced.decision, Kept(advanced), gaveUp)
  ELSE ReplayFromScratch(h, prog, gaveUp)

DecideWith(cached, h, prog, gaveUp) ==
  ContinueOrReplay(Advance(cached, h, prog, Len(h)), cached, h, prog, gaveUp)

\* handleWorkflowTask up to its decision, for that task or for a duplicate one.
DecideTask(w, k) ==
  /\ slot[w][k] = Idle
  /\ ~Closed(history)
  /\ \/ Undecided /\ faults' = faults
     \/ ~Undecided /\ faults < MaxFaults /\ faults' = faults + 1
  /\ \E result \in {DecideWith(session[w], history, Prog(w), uncacheable[w])} :
        /\ slot' = [slot EXCEPT ![w][k] = [phase |-> "decided", upto |-> Len(history),
                                           decision |-> result.decision]]
        /\ session' = [session EXCEPT ![w] = result.session]
        /\ uncacheable' = [uncacheable EXCEPT ![w] = result.uncacheable]
  /\ UNCHANGED <<flow, history, build, events>>

Trusted(decision) == decision.outcome \notin {"nondeterminism", "version_mismatch"}

\* Mutant: a refused decision keeps its session.
InvalidatedNot(w) == session

\* The session a refused decision leaves behind.
Invalidated(w) == [session EXCEPT ![w] = NewSession]

\* The decision is appended to the history it was made from, or refused.
Record(w, k) ==
  /\ slot[w][k].phase = "decided"
  /\ Trusted(slot[w][k].decision)
  /\ slot' = [slot EXCEPT ![w][k] = Idle]
  /\ \/ /\ ~Closed(history)
        /\ Len(history) = slot[w][k].upto
        /\ history' = history \o slot[w][k].decision.cmds
        /\ UNCHANGED <<session, faults>>
     \/ /\ Closed(history) \/ Len(history) # slot[w][k].upto
        /\ session' = Invalidated(w)
        /\ UNCHANGED <<history, faults>>
     \/ /\ faults < MaxFaults                \* this delivery's task was recorded before
        /\ faults' = faults + 1
        /\ session' = Invalidated(w)
        /\ UNCHANGED history
  /\ UNCHANGED <<flow, uncacheable, build, events>>

\* An integrity error parks the task.
Park(w, k) ==
  /\ slot[w][k].phase = "decided"
  /\ ~Trusted(slot[w][k].decision)
  /\ slot' = [slot EXCEPT ![w][k] = Idle]
  /\ session' = Invalidated(w)
  /\ UNCHANGED <<flow, history, uncacheable, build, events, faults>>

\* The cache drops the session: evicted, idle for too long, flushed.
Forget(w) ==
  /\ session[w].seen > 0
  /\ faults < MaxFaults
  /\ faults' = faults + 1
  /\ session' = [session EXCEPT ![w] = NewSession]
  /\ UNCHANGED <<flow, history, uncacheable, build, slot, events>>

\* A process is restarted, perhaps with the newer build.
Restart(w) ==
  /\ faults < MaxFaults
  /\ faults' = faults + 1
  /\ session' = [session EXCEPT ![w] = NewSession]
  /\ uncacheable' = [uncacheable EXCEPT ![w] = FALSE]
  /\ slot' = [slot EXCEPT ![w] = [k \in Slot |-> Idle]]
  /\ \E b \in {build[w], "new"} : build' = [build EXCEPT ![w] = b]
  /\ UNCHANGED <<flow, history, events>>

Next ==
  \/ Arrives
  \/ \E w \in Worker : Forget(w) \/ Restart(w)
  \/ \E w \in Worker, k \in Slot : DecideTask(w, k) \/ Record(w, k) \/ Park(w, k)

Spec == Init /\ [][Next]_vars

-----------------------------------------------------------------------------
(* Properties.                                                              *)

TypeOK ==
  /\ flow \in Workflow
  /\ \A w \in Worker : /\ session[w].seen <= Len(history)
                       /\ (session[w].seen > 0 => session[w].s.end = "running")
                       /\ build[w] \in {"old", "new"}
                       /\ uncacheable[w] \in BOOLEAN
  /\ \A w \in Worker, k \in Slot :
       /\ slot[w][k].phase \in {"idle", "decided"}
       /\ slot[w][k].upto <= Len(history)
  /\ events \in 0..flow.events
  /\ faults \in 0..MaxFaults

Decided == {<<w, k>> \in Worker \X Slot : slot[w][k].phase = "decided"}

(* An unchanged workflow, or one changed behind a patch, replays: whatever  *)
(* order its results, signals and failures were recorded in, no decision    *)
(* finds another command than the history holds.  Only a build that never   *)
(* asks about a recorded patch is refused, and as such (command-matcher.ts, *)
(* decidePatch, throwOnVersionMismatch).                                    *)
ReplaysItself ==
  \A d \in Decided :
    LET s == slot[d[1]][d[2]]
    IN /\ s.decision.outcome # "nondeterminism"
       /\ s.decision.outcome = "version_mismatch" =>
            build[d[1]] = "old" /\ RecordedPatches(history) # {}

(* Every decision is the one a full replay of the same history makes,       *)
(* whether it came from a session resumed in the cache or a new one, and a  *)
(* cached handler has seen what a query over that history is answered from  *)
(* (createStickyDecider, runQuery).                                         *)
SessionAgrees ==
  /\ \A d \in Decided :
       LET s == slot[d[1]][d[2]]
       IN s.decision = Decide(Prefix(s.upto), Prog(d[1]), s.upto)
  /\ \A w \in Worker : session[w].seen > 0 =>
       session[w].s.view = Query(Prefix(session[w].seen), Prog(w))

(* A run whose decision asks for nothing new waits for something that can   *)
(* still happen: an unfinished call, and once cancellation was requested a  *)
(* step that is running (feedHistory, chooseNext, the compensation rule).   *)
NeverStuck ==
  ~Closed(history) =>
    LET prog == IF RecordedPatches(history) = {} THEN flow.old ELSE flow.new
        d == Decide(history, prog, Len(history))
        s == ReplayHistory(history, prog, Len(history))
    IN d.outcome = "suspended" /\ d.cmds = <<>> =>
         IF Has(history, "cancel_requested")
         THEN Open("step_scheduled", "step") # {}
         ELSE \E key \in s.made : Position(history, key) = 0

Scheduled(of) == {i \in DOMAIN history : history[i].type = "step_scheduled" /\ history[i].of = of}

FinishedBefore(i, of) ==
  \E j \in Scheduled(of) : Position(history, <<"step", history[j].id, "">>) \in 1..(i - 1)

(* Compensations run once each, last registered first, each after the one   *)
(* before it has finished, and a run is cancelled only after all of those   *)
(* it registered (runCompensations).  `undo2' is registered after step `a'. *)
CompensatesBackwards ==
  /\ \A of \in {"undo1", "undo2"} : Cardinality(Scheduled(of)) <= 1
  /\ \A i \in Scheduled("undo1") : FinishedBefore(i, "a") => FinishedBefore(i, "undo2")
  /\ \A i \in DOMAIN history :
       history[i].type = "run_cancelled" /\ flow.old[1].op = "onCancel" =>
         FinishedBefore(i, "undo1")
=============================================================================
