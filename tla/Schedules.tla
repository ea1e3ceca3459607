------------------------------- MODULE Schedules -------------------------------
(***************************************************************************)
(* A cron schedule (core/src/schedules/schedule-manager.ts) served by the  *)
(* managers of several engines, with operators that pause, resume and      *)
(* backfill it, and runs that end when they like.                          *)
(*                                                                         *)
(* A transaction takes the schedule's row lock and reads in one step, and  *)
(* writes and commits in another; a manager finds a locked row skipped,    *)
(* an operator waits for it.  The clock all managers read may step back,   *)
(* each manager keeps it monotonic for itself until it restarts.           *)
(***************************************************************************)
EXTENDS Cron

CONSTANTS
  Manager,
  Expression,      \* the cron expression of the schedule
  Samples,         \* the expressions the search is compared on
  Overlaps,        \* the overlap policies it may have
  CatchUps,        \* the catch-up policies it may have
  Windows,         \* the catch-up windows it may have, NoWindow for none
  NoWindow,
  BatchSize,       \* triggers one tick handles
  Horizon,         \* bound of the clock
  LastInstant,     \* bound of the instants that come up before it does
  MaxEvents,       \* bound on what happens from outside: clock steps, failed passes,
                   \* restarts and operators' calls
  Backfills        \* the ranges operators backfill

Free == "free"
Operator == "operator"

ASSUME ScheduleAssumption ==
  /\ Manager \cap {Free, Operator} = {}
  /\ Overlaps \subseteq {"skip", "buffer_one", "allow_all"}
  /\ CatchUps \subseteq {"latest_only", "all"}
  /\ Windows \subseteq Nat \cup {NoWindow}
  /\ NoWindow \notin Nat
  /\ BatchSize \in Nat \ {0}
  /\ Horizon \in 0..(Minute * LastMinute)
  /\ LastInstant \in Nat
  /\ \A e \in Samples \cup {Expression} : ExpressionValid(e)

(* The expression matches again and again: nextCronTime never throws.       *)
ASSUME EndlessAssumption ==
  \E i, j \in MatchingInstants(ParseCron(Expression)) : Horizon < i /\ i < j /\ j <= LastInstant

VARIABLES
  row,       \* the schedule
  trigger,   \* instant -> its row in schedule_triggers
  started,   \* instant -> runs ever started for it
  open,      \* the instants whose run is open
  lock,      \* who holds the row lock
  mgr,       \* manager -> where its pass is
  clock,     \* manager -> high water of its monotonic clock
  source,    \* the wall clock
  zoneKnown, \* the expression and its zone can be evaluated
  fill,      \* the instants a backfill has left, and its transaction
  events     \* what happened from outside so far

tableVars == <<row, trigger, started, open>>
vars == <<tableVars, lock, mgr, clock, source, zoneKnown, fill, events>>

None == -1
Cron == ParseCron(Expression)

Instant == {i \in MatchingInstants(Cron) : i <= LastInstant}

Next1(after) == NextCronTime(Cron, after)

Idle == [pc |-> "idle", now |-> 0, handled |-> 0, count |-> 0, overlap |-> FALSE,
         known |-> FALSE]

NoFill == [todo |-> {}, busy |-> FALSE, overlap |-> FALSE]

Init ==
  /\ row = [state |-> "ABSENT", next |-> None, buffered |-> None,
            overlap |-> "skip", catchUp |-> "latest_only", window |-> NoWindow]
  /\ trigger = [i \in Instant |-> "none"]
  /\ started = [i \in Instant |-> 0]
  /\ open = {}
  /\ lock = Free
  /\ mgr = [m \in Manager |-> Idle]
  /\ clock = [m \in Manager |-> 0]
  /\ source = 0
  /\ zoneKnown = TRUE
  /\ fill = NoFill
  /\ events = 0

FromOutside == events < MaxEvents /\ events' = events + 1

-----------------------------------------------------------------------------
(* The clock *)

(* createMonotonicClock: now *)
Reading(m) == IF source < clock[m] THEN clock[m] ELSE source

TimePasses ==
  /\ source < Horizon
  /\ source' = source + 1
  /\ UNCHANGED <<tableVars, lock, mgr, clock, zoneKnown, fill, events>>

StepBack ==
  /\ FromOutside
  /\ \E t \in 0..(source - 1) : source' = t
  /\ UNCHANGED <<tableVars, lock, mgr, clock, zoneKnown, fill>>

-----------------------------------------------------------------------------
(* What a transaction does to the tables *)

HasOpenRun == open # {}

(* startRun: the run, its first event and its first task. *)
StartRun(i) ==
  /\ started' = [started EXCEPT ![i] = @ + 1]
  /\ open' = open \cup {i}

ReplacedKept(i) == [trigger EXCEPT ![i] = "BUFFERED"]

(* The trigger that waited is dropped for the new one. *)
Replaced(i) ==
  [trigger EXCEPT ![i] = "BUFFERED",
                  ![IF row.buffered = None THEN i ELSE row.buffered] =
                     IF row.buffered = None THEN "BUFFERED" ELSE "SKIPPED"]

(* handleTrigger of an instant without a row; buffered is the new value of  *)
(* buffered_for.                                                            *)
HandleTrigger(i, overlapping, buffered) ==
  CASE ~overlapping ->
         /\ StartRun(i)
         /\ trigger' = [trigger EXCEPT ![i] = "STARTED"]
         /\ buffered = row.buffered
    [] overlapping /\ row.overlap = "buffer_one" ->
         /\ trigger' = Replaced(i)
         /\ buffered = i
         /\ UNCHANGED <<started, open>>
    [] OTHER ->
         /\ trigger' = [trigger EXCEPT ![i] = "SKIPPED"]
         /\ buffered = row.buffered
         /\ UNCHANGED <<started, open>>

Overlapping == row.overlap # "allow_all" /\ HasOpenRun

(* latestInstantUntil *)
LatestUntil(first, now) ==
  LET latest[i \in Nat] == IF Next1(i) > now THEN i ELSE latest[Next1(i)] IN latest[first]

CatchUpInstantExclusive(now) ==
  CASE row.catchUp = "latest_only" -> LatestUntil(row.next, now)
    [] row.catchUp = "all" /\ row.window = NoWindow -> row.next
    [] OTHER -> IF row.next < now - row.window THEN Next1(now - row.window) ELSE row.next

CatchUpInstant(now) ==
  CASE row.catchUp = "latest_only" -> LatestUntil(row.next, now)
    [] row.catchUp = "all" /\ row.window = NoWindow -> row.next
    [] OTHER -> IF row.next < now - row.window THEN Next1(now - row.window - 1) ELSE row.next

(* markErrored *)
Errored == row' = [row EXCEPT !.state = "ERRORED", !.next = None]

-----------------------------------------------------------------------------
(* A pass of a manager: catchUp ticks until a tick handles less than a      *)
(* batch; a tick drains the buffer and then fires what is due.              *)

Goto(m, pc) == mgr' = [mgr EXCEPT ![m].pc = pc]

(* A tick that begins reads the clock. *)
TickFrom(m) ==
  /\ clock' = [clock EXCEPT ![m] = Reading(m)]
  /\ mgr' = [mgr EXCEPT ![m] = [Idle EXCEPT !.pc = "drain", !.now = Reading(m)]]

(* Only whether a tick filled its batch matters. *)
Counted(n) == IF n > BatchSize THEN BatchSize ELSE n

BeginTick(m) ==
  /\ mgr[m].pc = "idle"
  /\ TickFrom(m)
  /\ UNCHANGED <<tableVars, lock, source, zoneKnown, fill, events>>

DrainableOverlapping == row.state = "ACTIVE" /\ row.buffered # None

DrainableWhenDue ==
  row.state = "ACTIVE" /\ row.buffered # None /\ ~HasOpenRun /\ row.next <= source

Drainable == row.state = "ACTIVE" /\ row.buffered # None /\ ~HasOpenRun

DrainLock(m) ==
  /\ mgr[m].pc = "drain"
  /\ IF lock = Free /\ Drainable
       THEN lock' = m /\ Goto(m, "draining")
       ELSE UNCHANGED lock /\ Goto(m, "fire")
  /\ UNCHANGED <<tableVars, clock, source, zoneKnown, fill, events>>

DrainCommit(m) ==
  /\ mgr[m].pc = "draining"
  /\ StartRun(row.buffered)
  /\ trigger' = [trigger EXCEPT ![row.buffered] = "STARTED"]
  /\ row' = [row EXCEPT !.buffered = None]
  /\ lock' = Free
  /\ mgr' = [mgr EXCEPT ![m].pc = "drain", ![m].count = Counted(@ + 1)]
  /\ UNCHANGED <<clock, source, zoneKnown, fill, events>>

Due(now) == row.state = "ACTIVE" /\ row.next <= now

(* fireNextDue up to its writes: the lock, the known trigger, hasOpenRun.   *)
FireLock(m) ==
  /\ mgr[m].pc = "fire"
  /\ IF lock = Free /\ Due(mgr[m].now)
       THEN /\ lock' = m
            /\ LET i == CatchUpInstant(mgr[m].now) IN
               mgr' = [mgr EXCEPT ![m].pc = "firing", ![m].overlap = Overlapping,
                                  ![m].known = i \in Instant /\ trigger[i] # "none"]
       ELSE UNCHANGED lock /\ Goto(m, "check")
  /\ UNCHANGED <<tableVars, clock, source, zoneKnown, fill, events>>

(* catchUp ticks again after a full batch; otherwise the pass is over.      *)
EndTick(m, count) ==
  IF count >= BatchSize
    THEN TickFrom(m)
    ELSE mgr' = [mgr EXCEPT ![m] = Idle] /\ UNCHANGED clock

Handled(m, fired) ==
  IF mgr[m].handled + 1 < BatchSize
    THEN /\ mgr' = [mgr EXCEPT ![m].pc = "fire", ![m].handled = @ + 1, ![m].count = Counted(@ + fired)]
         /\ UNCHANGED clock
    ELSE EndTick(m, mgr[m].count + fired)

FireCommit(m) ==
  LET i == CatchUpInstant(mgr[m].now) IN
  /\ mgr[m].pc = "firing"
  /\ lock' = Free
  /\ IF ~zoneKnown
       THEN /\ Errored
            /\ Goto(m, "check")
            /\ UNCHANGED <<trigger, started, open, clock>>
       ELSE IF mgr[m].known \/ i > mgr[m].now
         THEN /\ row' = [row EXCEPT !.next = Next1(i)]
              /\ Goto(m, "check")
              /\ UNCHANGED <<trigger, started, open, clock>>
         ELSE /\ \E b \in Instant \cup {None} :
                   /\ HandleTrigger(i, mgr[m].overlap, b)
                   /\ row' = [row EXCEPT !.next = Next1(i), !.buffered = b]
              /\ Handled(m, 1)
  /\ UNCHANGED <<source, zoneKnown, fill, events>>

(* Nothing was fired: is anything due all the same? *)
CheckRemaining(m) ==
  /\ mgr[m].pc = "check"
  /\ IF Due(mgr[m].now) THEN Handled(m, 0) ELSE EndTick(m, mgr[m].count)
  /\ UNCHANGED <<tableVars, lock, source, zoneKnown, fill, events>>

Unlocked(m) == IF lock = m THEN Free ELSE lock

(* A query fails: the transaction is rolled back, the pass ends, the loop   *)
(* goes on.                                                                 *)
PassFails(m) ==
  /\ mgr[m].pc # "idle"
  /\ FromOutside
  /\ mgr' = [mgr EXCEPT ![m] = Idle]
  /\ lock' = Unlocked(m)
  /\ UNCHANGED <<tableVars, clock, source, zoneKnown, fill>>

Restart(m) ==
  /\ FromOutside
  /\ mgr' = [mgr EXCEPT ![m] = Idle]
  /\ clock' = [clock EXCEPT ![m] = 0]
  /\ lock' = Unlocked(m)
  /\ UNCHANGED <<tableVars, source, zoneKnown, fill>>

-----------------------------------------------------------------------------
(* Operators *)

Create(m, startAt) ==
  /\ row.state = "ABSENT"
  /\ \E o \in Overlaps, c \in CatchUps, w \in Windows :
       /\ w # NoWindow => w > 0 /\ c = "all"
       /\ row' = [row EXCEPT !.state = "ACTIVE", !.next = Next1(startAt),
                             !.overlap = o, !.catchUp = c, !.window = w]
  /\ clock' = [clock EXCEPT ![m] = Reading(m)]
  /\ UNCHANGED <<trigger, started, open, lock, mgr, source, zoneKnown, fill, events>>

Pause ==
  /\ row.state \in {"ACTIVE", "ERRORED"}
  /\ lock = Free
  /\ FromOutside
  /\ row' = [row EXCEPT !.state = "PAUSED"]
  /\ UNCHANGED <<trigger, started, open, lock, mgr, clock, source, zoneKnown, fill>>

Resume(m) ==
  /\ row.state \in {"PAUSED", "ERRORED"}
  /\ lock = Free
  /\ clock' = [clock EXCEPT ![m] = Reading(m)]
  /\ IF zoneKnown
       THEN row' = [row EXCEPT !.state = "ACTIVE", !.next = Next1(Reading(m))]
       ELSE Errored
  /\ UNCHANGED <<trigger, started, open, lock, mgr, source, zoneKnown, fill, events>>

(* The build the engines run on loses the zone, and gets it back. *)
ZoneLost ==
  /\ zoneKnown
  /\ FromOutside
  /\ zoneKnown' = FALSE
  /\ UNCHANGED <<tableVars, lock, mgr, clock, source, fill>>

ZoneBack ==
  /\ ~zoneKnown
  /\ zoneKnown' = TRUE
  /\ UNCHANGED <<tableVars, lock, mgr, clock, source, fill, events>>

Backfill(from, to) ==
  /\ row.state # "ABSENT"
  /\ fill = NoFill
  /\ zoneKnown
  /\ FromOutside
  /\ fill' = [NoFill EXCEPT !.todo = CronTimesBetween(Cron, from, to)]
  /\ UNCHANGED <<tableVars, lock, mgr, clock, source, zoneKnown>>

FillNext == CHOOSE i \in fill.todo : \A j \in fill.todo : i <= j

BackfillLock ==
  /\ fill.todo # {} /\ ~fill.busy
  /\ lock = Free
  /\ lock' = Operator
  /\ fill' = [fill EXCEPT !.busy = TRUE, !.overlap = Overlapping]
  /\ UNCHANGED <<tableVars, mgr, clock, source, zoneKnown, events>>

BackfillKnownIgnored(i) == FALSE

BackfillKnown(i) == trigger[i] # "none"

BackfillCommit ==
  /\ fill.busy
  /\ lock' = Free
  /\ fill' = [NoFill EXCEPT !.todo = fill.todo \ {FillNext}]
  /\ IF BackfillKnown(FillNext)
       THEN UNCHANGED tableVars
       ELSE \E b \in Instant \cup {None} :
              /\ HandleTrigger(FillNext, fill.overlap, b)
              /\ row' = [row EXCEPT !.buffered = b]
  /\ UNCHANGED <<mgr, clock, source, zoneKnown, events>>

(* A run of the schedule ends. *)
CloseRun(i) ==
  /\ i \in open
  /\ open' = open \ {i}
  /\ UNCHANGED <<row, trigger, started, lock, mgr, clock, source, zoneKnown, fill, events>>

ManagerStep(m) ==
  \/ BeginTick(m) \/ DrainLock(m) \/ DrainCommit(m) \/ FireLock(m) \/ FireCommit(m)
  \/ CheckRemaining(m)

Next ==
  \/ TimePasses \/ StepBack
  \/ \E m \in Manager :
       \/ ManagerStep(m) \/ PassFails(m) \/ Restart(m) \/ Resume(m)
       \/ \E startAt \in {-1, Reading(m)} : Create(m, startAt)
  \/ Pause \/ ZoneLost \/ ZoneBack
  \/ \E r \in Backfills : Backfill(r[1], r[2])
  \/ BackfillLock \/ BackfillCommit
  \/ \E i \in Instant : CloseRun(i)

Spec == Init /\ [][Next]_vars

(* Time goes on, the managers' loops go round (a pass that fails is         *)
(* followed by the next), a backfill that began is carried on, and the runs *)
(* the schedule starts end some day.                                        *)
Fairness ==
  /\ WF_vars(TimePasses)
  /\ \A m \in Manager : WF_vars(ManagerStep(m))
  /\ WF_vars(BackfillLock \/ BackfillCommit)
  /\ \A i \in Instant : WF_vars(CloseRun(i))

FairSpec == Spec /\ Fairness

-----------------------------------------------------------------------------
(* Properties *)

(* The state has its shape, and the row lock is held exactly by the         *)
(* transaction that is under way.                                           *)
TypeOK ==
  /\ row.state \in {"ABSENT", "ACTIVE", "PAUSED", "ERRORED"}
  /\ row.next \in Instant \cup {None}
  /\ row.buffered \in Instant \cup {None}
  /\ trigger \in [Instant -> {"none", "STARTED", "SKIPPED", "BUFFERED"}]
  /\ open \subseteq Instant
  /\ \A m \in Manager : (lock = m) <=> (mgr[m].pc \in {"draining", "firing"})
  /\ (lock = Operator) <=> fill.busy
  /\ source \in 0..Horizon

(* However many managers serve the schedule, whatever is caught up, drained *)
(* or backfilled, an instant gets one run if it was triggered and none if   *)
(* it was not (schedule-manager.ts, "Concurrent ticks never handle a        *)
(* trigger twice").                                                         *)
OneRunPerInstant ==
  \A i \in Instant : started[i] = IF trigger[i] = "STARTED" THEN 1 ELSE 0

(* Unless the policy is allow_all, the schedule never has two open runs.    *)
OverlapRespected ==
  row.overlap # "allow_all" => \A i, j \in open : i = j

(* The buffer and the triggers agree: exactly the buffered instant is       *)
(* recorded as BUFFERED, through replacing, draining, pausing, backfilling. *)
BufferExact ==
  {i \in Instant : trigger[i] = "BUFFERED"} = {row.buffered} \ {None}

(* What the schedule passes over when it fires without recording a trigger. *)
Passed ==
  {i \in Instant : row.next <= i /\ i < row'.next /\ trigger'[i] = "none"}

Fires(m) == mgr[m].pc = "firing" /\ row'.next # row.next /\ row'.state = "ACTIVE"

(* Catching up passes over an instant only for a reason: latest_only        *)
(* because a later one was due and has its trigger, all because it was      *)
(* older than the window; without a window it passes over none.             *)
CatchUpExact ==
  [][\A m \in Manager : Fires(m) =>
       \A i \in Passed : i <= mgr[m].now =>
         \/ /\ row.catchUp = "latest_only"
            /\ \E j \in Instant : i < j /\ j <= mgr[m].now /\ trigger'[j] # "none"
         \/ row.catchUp = "all" /\ row.window # NoWindow /\ i < mgr[m].now - row.window]_vars

(* A window drops only instants that were missed: an instant that is still  *)
(* to come is never passed over (schedule-manager.ts, CatchUpPolicy).       *)
FutureKept ==
  [][\A m \in Manager : Fires(m) => \A i \in Passed : i <= mgr[m].now]_vars

(* A schedule that stays active is caught up and its buffer drained, once   *)
(* the runs before it end, although the clock steps back, passes fail and   *)
(* managers restart.                                                        *)
CatchesUp ==
  (row.state = "ACTIVE" /\ (row.next <= Horizon \/ row.buffered # None))
    ~> (row.state # "ACTIVE" \/ (row.next > Horizon /\ row.buffered = None))

(* Whatever expression a schedule is created with, the search for the next  *)
(* instant finds the first one, in a zone without daylight saving (cron.ts, *)
(* "The first instant strictly after `after` that matches").                *)
NextIsFirst ==
  row.state = "ABSENT" =>
    \A e \in Samples : \A after \in 0..(Minute * LastMinute) :
      NextCronTime(ParseCron(e), after) = FirstMatchAfter(ParseCron(e), after)
=============================================================================
