------------------------------- MODULE Replay -------------------------------
(***************************************************************************)
(* How a decision is rebuilt from a history: the replay context and        *)
(* decision loop (workflow/decision-loop.ts), the command matcher, the     *)
(* parallel helpers, and the live session that goes on from where an       *)
(* earlier decision stopped (workflow/live-session.ts).                    *)
(*                                                                         *)
(* A workflow is a sequence of operations of one handler.  Whatever the    *)
(* handler has seen (results, signals, times, winners) is its `view', and  *)
(* every command carries the view as its input: a replay that serves       *)
(* anything differently, or in another order, issues another command.      *)
(*                                                                         *)
(* A promise is named by what settles it (a key); `lost' says that the     *)
(* cancellation rejected it.  Integrity errors are not caught by handlers. *)
(* The position of an event is its time.  Durations, payloads, error texts *)
(* and the warning about long histories are left out.                      *)
(***************************************************************************)
EXTENDS Naturals, Sequences, FiniteSets, SequencesExt, FiniteSetsExt

CONSTANT
  MaxChildren          \* options.maxChildren

ASSUME MaxChildrenAssumption == MaxChildren \in Nat

-----------------------------------------------------------------------------
(* Events and commands.  A command is written as the event that records it. *)

Event(type, id, of, input) == [type |-> type, id |-> id, of |-> of, input |-> input]

ClosingTypes == {"run_completed", "run_failed", "run_cancelled", "run_continued_as_new"}

Closed(h) == \E i \in DOMAIN h : h[i].type \in ClosingTypes

Has(h, type) == \E i \in DOMAIN h : h[i].type = type

IsCommand(e) == e.type \in {"step_scheduled", "timer_started", "child_started", "patch_recorded"}

\* What an event records of a command; a timer's input is its duration, the same for all.
RecordedCommandOf(e) ==
  [kind |-> e.type, id |-> e.id, of |-> e.of,
   input |-> IF e.type \in {"step_scheduled", "child_started"} THEN e.input ELSE <<>>]

RecordedCommands(h) ==
  LET only == SelectSeq(h, IsCommand) IN [i \in DOMAIN only |-> RecordedCommandOf(only[i])]

RecordedTimes(h) == SelectSeq(h, LAMBDA e : e.type = "time_recorded")

RecordedPatches(h) == {h[i].of : i \in {j \in DOMAIN h : h[j].type = "patch_recorded"}}

(* A key <<kind, number, name>> names what a ctx call waits for. *)
Completes(h, i, key) ==
  CASE key[1] = "step" -> h[i].type \in {"step_completed", "step_failed"} /\ h[i].id = key[2]
    [] key[1] = "timer" -> h[i].type = "timer_fired" /\ h[i].id = key[2]
    [] key[1] = "child" -> h[i].type \in {"child_completed", "child_failed"} /\ h[i].id = key[2]
    [] OTHER -> /\ h[i].type = "signal_received"
                /\ h[i].of = key[3]
                /\ key[2] = Cardinality({j \in 1..i : /\ h[j].type = "signal_received"
                                                      /\ h[j].of = key[3]})

\* The position in the history that settles `key', 0 when nothing has.
Position(h, key) ==
  LET at == {i \in DOMAIN h : Completes(h, i, key)} IN IF at = {} THEN 0 ELSE Min(at)

-----------------------------------------------------------------------------
(* The handler and its context.                                             *)

NoKey == <<"none", 0, "">>
Promise(key) == [key |-> key, lost |-> "no"]
Never == Promise(NoKey)

NoParallel == [tasks |-> <<>>, limit |-> 0, mode |-> "none", next |-> 0,
               running |-> <<>>, chosen |-> 0, results |-> <<>>]

Fresh ==
  [pc |-> 1, view |-> <<>>, end |-> "running", waiting |-> FALSE, on |-> Never, tag |-> "",
   caught |-> FALSE, par |-> NoParallel, ears |-> <<>>, made |-> {}, last |-> Never, fed |-> 0,
   issued |-> 0, hit |-> FALSE, broken |-> FALSE, steps |-> 0, timers |-> 0, children |-> 0,
   signals |-> <<>>, times |-> 0, cmds |-> <<>>, patches |-> <<>>, comps |-> <<>>,
   inFlight |-> {}, continuing |-> FALSE, unsupported |-> FALSE, compensated |-> FALSE]

(* What a context answers from: the history, the commands it records, the  *)
(* time of the event that triggered the decision, whether calls are refused *)
(* after a cancellation, and whether a live session serves it.              *)
ReplayContext(h, prog, now) ==
  [h |-> h, prog |-> prog, rec |-> RecordedCommands(h), now |-> now,
   cancelled |-> Has(h, "cancel_requested"), live |-> FALSE]

CompensationContext(h, prog, now) == [ReplayContext(h, prog, now) EXCEPT !.cancelled = FALSE]

LiveContext(h, prog, now) ==
  [ReplayContext(h, prog, now) EXCEPT !.cancelled = FALSE, !.live = TRUE]

SameCommand(recorded, issued) == recorded = issued

Issue(c, s, shape, whileCancelling) ==
  LET here == s.issued + 1
      known == here <= Len(c.rec)
  IN IF whileCancelling /\ (~known \/ ~SameCommand(c.rec[here], shape))
     THEN [s EXCEPT !.hit = FALSE]
     ELSE [s EXCEPT !.issued = here, !.hit = known,
                    !.broken = @ \/ (known /\ ~SameCommand(c.rec[here], shape))]

AllIssued(c, s) == s.issued >= Len(c.rec)

Shape(kind, id, of, input) == [kind |-> kind, id |-> id, of |-> of, input |-> input]

\* Every call leaves its promise in `last' and in what may be delivered.
Made(s, promise) == [s EXCEPT !.last = promise, !.made = @ \cup {promise.key}]

Lost(s, key, how) == [s EXCEPT !.last = [key |-> key, lost |-> how]]

\* A call once it is numbered and matched against the recorded commands.
StepIssued(c, s, of) ==
  LET key == <<"step", s.steps, "">>
  IN IF Position(c.h, key) > 0 THEN Made(s, Promise(key))
     ELSE IF ~s.hit /\ c.cancelled THEN Lost(s, key, "cancelled")
     ELSE Made([s EXCEPT !.cmds = IF s.hit THEN @
                                  ELSE Append(@, Event("step_scheduled", s.steps, of, s.view)),
                         !.inFlight = IF c.cancelled THEN @ \cup {s.steps} ELSE @],
               Promise(key))

Step(c, s, of) ==
  StepIssued(c, Issue(c, [s EXCEPT !.steps = @ + 1],
                      Shape("step_scheduled", s.steps + 1, of, s.view), c.cancelled), of)

SleepIssued(c, s) ==
  LET key == <<"timer", s.timers, "">>
  IN IF Position(c.h, key) = 0 /\ c.cancelled THEN Lost(s, key, "cancelled")
     ELSE Made(IF s.hit \/ Position(c.h, key) > 0 THEN s
               ELSE [s EXCEPT !.cmds = Append(@, Event("timer_started", s.timers, "", <<>>))],
               Promise(key))

Sleep(c, s) ==
  SleepIssued(c, Issue(c, [s EXCEPT !.timers = @ + 1],
                       Shape("timer_started", s.timers + 1, "", <<>>), c.cancelled))

WaitForSignal(c, s, name) ==
  LET id == Len(SelectSeq(s.signals, LAMBDA n : n = name)) + 1
      key == <<"signal", id, name>>
      i == [s EXCEPT !.signals = Append(@, name)]
  IN IF Position(c.h, key) = 0 /\ c.cancelled THEN Lost(i, key, "cancelled")
     ELSE Made(i, Promise(key))

\* A refused start throws, which an await of it turns into the same rejection.
ChildIssued(c, s, of) ==
  LET key == <<"child", s.children, "">>
      started == IF s.hit THEN s
                 ELSE [s EXCEPT !.cmds = Append(@, Event("child_started", s.children, of, s.view))]
  IN IF ~s.hit /\ c.cancelled THEN Lost(s, key, "thrown")
     ELSE IF Position(c.h, key) = 0 /\ c.cancelled THEN Lost(started, key, "cancelled child")
     ELSE Made(started, Promise(key))

StartChild(c, s, of) ==
  LET called == [s EXCEPT !.children = @ + 1]
  IN IF s.children >= MaxChildren THEN Lost(called, <<"child", s.children + 1, "">>, "limit")
     ELSE ChildIssued(c, Issue(c, called, Shape("child_started", s.children + 1, of, s.view),
                               c.cancelled), of)

Call(c, s, call) ==
  CASE call.op = "step" -> Step(c, s, call.of)
    [] call.op = "sleep" -> Sleep(c, s)
    [] call.op = "signal" -> WaitForSignal(c, s, call.of)
    [] call.op = "child" -> StartChild(c, s, call.of)

\* The nth call answers with the nth recorded time, else with the trigger's.
Now(c, s) ==
  LET n == s.times + 1
      recorded == RecordedTimes(c.h)
      time == IF n <= Len(recorded) THEN recorded[n].id ELSE c.now
  IN [s EXCEPT !.times = n,
               !.view = Append(@, <<"now", time, "">>),
               !.cmds = IF n <= Len(recorded) THEN @
                        ELSE Append(@, Event("time_recorded", time, "", <<>>))]

\* Mutant: every call of `patched' takes the new path.
MovedPastNever(c, s) == FALSE

\* Whether the history moved past this point on code that did not ask.
MovedPast(c, s) ==
  s.steps + s.timers + s.children
    < Cardinality({i \in DOMAIN c.h : c.h[i].type \in {"step_scheduled", "timer_started", "child_started"}})

Consulted(s) == {s.patches[i].patch : i \in DOMAIN s.patches}

Answered(s, patch, new) == [s EXCEPT !.patches = Append(@, [patch |-> patch, new |-> new])]

DecidePatch(c, s, patch) ==
  IF patch \in Consulted(s) THEN s
  ELSE LET i == Issue(c, s, Shape("patch_recorded", 0, patch, <<>>), FALSE)
       IN CASE patch \in RecordedPatches(c.h) -> Answered(i, patch, TRUE)
            [] patch \notin RecordedPatches(c.h) /\ MovedPast(c, s) -> Answered(s, patch, FALSE)
            [] OTHER -> Answered([i EXCEPT !.cmds = Append(@, Event("patch_recorded", 0, patch, <<>>))],
                                 patch, TRUE)

UseNewPath(s, patch) == \E i \in DOMAIN s.patches : s.patches[i].patch = patch /\ s.patches[i].new

-----------------------------------------------------------------------------
(* The parallel loop and select, which wait by position in the history.     *)

Settled(c, p) == p.lost = "no" /\ Position(c.h, p.key) > 0

\* The running task that settles first in the history, else one a cancellation rejected.
ChooseNext(c, running) ==
  LET done == {i \in DOMAIN running : Settled(c, running[i])}
      refused == {i \in DOMAIN running : running[i].lost = "cancelled child"}
  IN IF done # {}
     THEN CHOOSE i \in done : \A j \in done :
            Position(c.h, running[i].key) <= Position(c.h, running[j].key)
     ELSE IF refused # {} THEN Min(refused) ELSE 0

Restricted(f, keep) == [i \in keep |-> f[i]]

\* One task is started: a start that throws rejects the whole loop.
Started(s) ==
  LET n == s.par.next
  IN [s EXCEPT !.par = [@ EXCEPT !.next = n + 1,
                                 !.running = [i \in DOMAIN s.par.running \cup {n} |->
                                                IF i = n THEN s.last ELSE s.par.running[i]]]]

StartTask(c, s) == Started(Call(c, s, s.par.tasks[s.par.next]))

\* The loop waits for the task that is chosen, for ever when none is.
WaitFor(s, chosen) ==
  [s EXCEPT !.par = [@ EXCEPT !.chosen = chosen],
            !.waiting = TRUE,
            !.on = IF chosen = 0 THEN Never ELSE s.par.running[chosen]]

WaitForTask(c, s) == WaitFor(s, ChooseNext(c, s.par.running))

MayStart(s) == s.par.next <= Len(s.par.tasks)
               /\ Cardinality(DOMAIN s.par.running) < s.par.limit

Threw(s) == s.last.lost \in {"thrown", "limit"}

Throw(s, tag) ==
  IF s.caught THEN [s EXCEPT !.view = Append(@, <<tag, s.pc, "caught">>), !.waiting = FALSE,
                             !.par = NoParallel, !.pc = @ + 1]
  ELSE [s EXCEPT !.end = "failed", !.waiting = FALSE, !.par = NoParallel]

UnlessThrown(s) == IF Threw(s) THEN Throw(s, "all") ELSE s

\* Starting tasks in index order up to the limit, then waiting.
RunParallel(c, s) ==
  IF Len(s.par.results) = Len(s.par.tasks)
  THEN [s EXCEPT !.view = @ \o SortSeq(s.par.results, LAMBDA a, b : a[2] < b[2]),
                 !.par = NoParallel, !.pc = @ + 1]
  ELSE IF MayStart(s)
  THEN UnlessThrown(StartTask(c, s))
  ELSE WaitForTask(c, s)

Failed(c, p) == p.lost # "no" \/ c.h[Position(c.h, p.key)].type \in {"step_failed", "child_failed"}

SettleTask(c, s) ==
  LET failed == Failed(c, s.on)
      chosen == s.par.chosen
  IN IF failed /\ s.par.mode = "all" THEN Throw(s, "all")
     ELSE [s EXCEPT !.waiting = FALSE,
                    !.par = [@ EXCEPT !.running = Restricted(@, DOMAIN @ \ {chosen}),
                                      !.results = Append(@, <<"task", chosen,
                                                              IF failed THEN "failed" ELSE "ok">>)]]

\* All branches are called first; the winner is the one settled earliest.
Branch(made, s) == [s |-> s, made |-> Append(made, s.last)]

Branches(c, s, calls) ==
  FoldLeft(LAMBDA acc, call : Branch(acc.made, Call(c, acc.s, call)), [s |-> s, made |-> <<>>], calls)

SelectAmong(c, all) ==
  LET done == {i \in DOMAIN all.made : Settled(c, all.made[i])}
      winner == CHOOSE i \in done : \A j \in done :
                  Position(c.h, all.made[i].key) <= Position(c.h, all.made[j].key)
  IN IF done = {} THEN [all.s EXCEPT !.waiting = TRUE, !.on = Never, !.tag = "none"]
     ELSE [all.s EXCEPT !.waiting = TRUE, !.on = all.made[winner],
                        !.tag = IF winner = 1 THEN "first" ELSE "later"]

Select(c, s, calls) == SelectAmong(c, Branches(c, s, calls))

-----------------------------------------------------------------------------
(* Running the handler between two deliveries.                              *)

\* Features a live session cannot resume.
Unsupported(op) == op.op \in {"child", "all", "select", "continue", "onCancel", "patch"}

Await(s, op) == IF Threw(s) THEN Throw([s EXCEPT !.caught = op.caught], op.op)
                ELSE [s EXCEPT !.waiting = TRUE, !.on = s.last, !.tag = "ok", !.caught = op.caught]

Goes(s) == [s EXCEPT !.pc = @ + 1]

CallPatched(c, s, op) == Call(c, s, IF UseNewPath(s, op.of) THEN op.calls[1] ELSE op.calls[2])

Listen(s) == Goes([s EXCEPT !.ears = Append(@, s.last)])

Execute(c, s, op) ==
  CASE c.live /\ Unsupported(op) -> [s EXCEPT !.unsupported = TRUE, !.waiting = TRUE, !.on = Never]
    [] op.op \in {"step", "sleep", "signal"} -> Await(Call(c, s, op), op)
    [] op.op = "child" /\ ~c.live -> Await(Call(c, s, op), op)
    [] op.op = "listen" -> Listen(WaitForSignal(c, s, op.of))
    [] op.op = "now" -> Goes(Now(c, s))
    [] op.op = "select" /\ ~c.live -> Select(c, [s EXCEPT !.caught = op.caught], op.calls)
    [] op.op = "all" /\ ~c.live ->
         [s EXCEPT !.caught = op.caught,
                   !.par = [NoParallel EXCEPT !.tasks = op.calls, !.limit = op.limit,
                                              !.mode = op.mode, !.next = 1]]
    [] op.op = "patch" /\ ~c.live ->
         Await(CallPatched(c, DecidePatch(c, s, op.of), op), op)
    [] op.op = "onCancel" /\ ~c.live -> Goes([s EXCEPT !.comps = Append(@, op.of)])
    [] op.op = "continue" /\ ~c.live ->
         IF c.cancelled THEN Throw([s EXCEPT !.caught = FALSE], "continue")
         ELSE [s EXCEPT !.continuing = TRUE, !.waiting = TRUE, !.on = Never]

\* A promise has settled once its event was delivered, or a cancellation rejected it.
Ready(c, s, p) == p.lost # "no" \/ Position(c.h, p.key) \in 1..s.fed

ReadyEars(c, s) == {i \in DOMAIN s.ears : Ready(c, s, s.ears[i])}

\* A background listener notes its signal and starts a step it does not wait for.
HearWith(c, s, i, ear) ==
  LET left == [s EXCEPT !.ears = RemoveAt(@, i)]
  IN IF ear.lost # "no" THEN left
     ELSE Step(c, [left EXCEPT !.view = Append(@, <<"heard", ear.key[2], ear.key[3]>>)], "react")

Hear(c, s) == LET i == Min(ReadyEars(c, s)) IN HearWith(c, s, i, s.ears[i])

Resume(c, s) ==
  CASE s.par # NoParallel -> SettleTask(c, s)
    [] s.par = NoParallel /\ Failed(c, s.on) -> Throw(s, s.on.key[1])
    [] OTHER -> [s EXCEPT !.view = Append(@, <<s.on.key[1], s.on.key[2], s.tag>>),
                          !.waiting = FALSE, !.pc = @ + 1]

Running(s) == s.end = "running" /\ ~s.broken

CanGo(s) == Running(s) /\ ~s.waiting
CanHear(c, s) == ReadyEars(c, s) # {} /\ ~s.broken
CanResume(c, s) == Running(s) /\ s.waiting /\ Ready(c, s, s.on)

(* drainToQuiescence: the handler runs until every await it reached waits   *)
(* for something not delivered.  Its own code goes first, then callbacks in *)
(* the order their promises settled.                                        *)
RECURSIVE DrainToQuiescence(_, _)
DrainToQuiescence(c, s) ==
  CASE CanGo(s) ->
         IF s.par # NoParallel THEN DrainToQuiescence(c, RunParallel(c, s))
         ELSE IF s.pc > Len(c.prog) THEN DrainToQuiescence(c, [s EXCEPT !.end = "completed"])
         ELSE DrainToQuiescence(c, Execute(c, s, c.prog[s.pc]))
    [] ~CanGo(s) /\ CanHear(c, s) -> DrainToQuiescence(c, Hear(c, s))
    [] ~CanGo(s) /\ ~CanHear(c, s) /\ CanResume(c, s) -> DrainToQuiescence(c, Resume(c, s))
    [] OTHER -> s

\* The awaited events are delivered in history order, one at a time.
Delivered(c, s, i) ==
  IF \E key \in s.made : Position(c.h, key) = i
  THEN DrainToQuiescence(c, [s EXCEPT !.fed = i]) ELSE s

FeedHistory(c, s) ==
  FoldLeft(LAMBDA acc, i : Delivered(c, acc, i), s, [i \in 1..Len(c.h) |-> i])

-----------------------------------------------------------------------------
(* The decision of a full replay.                                           *)

Compensated(c, s, i) ==
  LET failure == Event("compensation_failed", i, "", <<>>)
  IN IF ~Settled(c, s.last) THEN [s EXCEPT !.compensated = FALSE]
     ELSE IF Failed(c, s.last) /\ ~Contains(c.h, failure)
     THEN [s EXCEPT !.cmds = Append(@, failure)]
     ELSE s

\* One compensation, a single step, unless an earlier one has not finished.
Compensate(c, s, i) ==
  IF s.compensated THEN Compensated(c, Step(c, s, s.comps[i]), i) ELSE s

\* Mutant: in order of registration.
RunCompensationsInOrder(c, s) ==
  FoldLeft(LAMBDA acc, i : Compensate(c, acc, i), [s EXCEPT !.compensated = TRUE],
           [i \in 1..Len(s.comps) |-> i])

\* In reverse order of registration, one at a time.
RunCompensations(c, s) ==
  FoldLeft(LAMBDA acc, i : Compensate(c, acc, i), [s EXCEPT !.compensated = TRUE],
           Reverse([i \in 1..Len(s.comps) |-> i]))

\* Mutant: compensations wait for the handler to end.
MayCompensateAtEnd(s) == s.end # "running"

MayCompensate(s) == s.end # "running" \/ s.inFlight = {}

UnlessCancelled(h, prog, now, s) ==
  IF Has(h, "cancel_requested") /\ MayCompensate(s)
  THEN RunCompensations(CompensationContext(h, prog, now), s) ELSE s

ReplayHistory(h, prog, now) ==
  LET c == ReplayContext(h, prog, now)
  IN UnlessCancelled(h, prog, now, FeedHistory(c, DrainToQuiescence(c, Fresh)))

Decision(outcome, cmds) == [outcome |-> outcome, cmds |-> cmds]

Ended(s) ==
  CASE s.end = "completed" -> Decision("completed", Append(s.cmds, Event("run_completed", 0, "", s.view)))
    [] s.end = "failed" -> Decision("failed", Append(s.cmds, Event("run_failed", 0, "", s.view)))
    [] OTHER -> Decision("suspended", s.cmds)

Unconsulted(h, s) == RecordedPatches(h) \ Consulted(s)

DecisionOf(c, s) ==
  IF Unconsulted(c.h, s) # {} THEN Decision("version_mismatch", <<>>)
  ELSE IF s.broken \/ ~AllIssued(c, s) THEN Decision("nondeterminism", <<>>)
  ELSE IF c.cancelled /\ s.compensated
  THEN Decision("cancelled", Append(s.cmds, Event("run_cancelled", 0, "", <<>>)))
  ELSE IF c.cancelled THEN Decision("suspended", s.cmds)
  ELSE IF s.continuing
  THEN Decision("continued_as_new", <<Event("run_continued_as_new", 0, "", s.view)>>)
  ELSE Ended(s)

Decide(h, prog, now) ==
  DecisionOf(ReplayContext(h, prog, now), ReplayHistory(h, prog, now))

-----------------------------------------------------------------------------
(* The live session: a handler kept running, and how far it has been fed.   *)

NewSession == [s |-> Fresh, seen |-> 0, emitted |-> <<>>, stopped |-> FALSE]

IsSupportedEvent(e) ==
  e.type \in {"run_started", "step_scheduled", "step_completed", "step_failed",
              "timer_started", "timer_fired", "signal_received", "time_recorded"}

Slice(session, h) == SubSeq(h, session.seen + 1, Len(h))

\* Whether the commands of the session's last decision are in what came after it.
EmittedAreRecorded(session, slice) ==
  LET times(q) == Len(SelectSeq(q, LAMBDA e : e.type = "time_recorded"))
  IN /\ times(slice) >= times(session.emitted)
     /\ \A i \in DOMAIN session.emitted :
          session.emitted[i].type \in {"step_scheduled", "timer_started"} =>
            \E j \in DOMAIN slice : /\ slice[j].type = session.emitted[i].type
                                    /\ slice[j].id = session.emitted[i].id

Deliver(c, s, i) ==
  LET d == [s EXCEPT !.fed = i]
  IN IF \E key \in s.made : Position(c.h, key) = i THEN DrainToQuiescence(c, d) ELSE d

Diverged(session, h) ==
  session.stopped \/ session.s.unsupported \/ Len(h) < session.seen
    \/ ~EmittedAreRecorded(session, Slice(session, h))

\* The handler after the slice was indexed, the handler started and each event delivered.
Advanced(session, h, prog, now) ==
  LET c == LiveContext(h, prog, now)
      ready == DrainToQuiescence(c, [session.s EXCEPT !.cmds = <<>>])
  IN FoldLeft(LAMBDA acc, i : Deliver(c, acc, i), ready,
              [i \in 1..(Len(h) - session.seen) |-> session.seen + i])

Answer(status, decision, session) == [status |-> status, decision |-> decision, session |-> session]

\* Status, decision and session of an advance whose handler came to rest as `s'.
AdvanceOf(h, c, s, decision) ==
  LET next == [s |-> s, seen |-> Len(h), emitted |-> decision.cmds,
               stopped |-> decision.outcome # "suspended"]
  IN IF s.unsupported THEN Answer("unusable", Decision("none", <<>>), next)
     ELSE IF s.broken \/ ~AllIssued(c, s) THEN Answer("error", Decision("nondeterminism", <<>>), next)
     ELSE Answer("decided", decision, next)

SettledAdvance(h, c, s) == AdvanceOf(h, c, s, Ended(s))

Advance(session, h, prog, now) ==
  IF Diverged(session, h) \/ \E e \in Range(Slice(session, h)) : ~IsSupportedEvent(e)
  THEN Answer("unusable", Decision("none", <<>>), session)
  ELSE SettledAdvance(h, LiveContext(h, prog, now), Advanced(session, h, prog, now))

(* What a query is answered from: the handler where a replay stopped, whose *)
(* commands are thrown away.                                                *)
Query(h, prog) == ReplayHistory(h, prog, Len(h)).view
=============================================================================
