--------------------------- MODULE SchedulesProofs ---------------------------
(***************************************************************************)
(* The schedule for any number of managers, any calendar and expression.   *)
(* First, whatever the search for instants returns: what the row lock      *)
(* makes of the three tables that a trigger is spread over.  Then the      *)
(* search itself, in a zone without daylight saving: that it finds the     *)
(* first instant, and that catching up passes over none without a reason.  *)
(***************************************************************************)
EXTENDS Schedules, OrderLemmas

-----------------------------------------------------------------------------
(* The inductive invariant *)

PassLabel == {"idle", "drain", "draining", "fire", "firing", "check"}

SchedType ==
  /\ row = [state |-> row.state, next |-> row.next, buffered |-> row.buffered,
            overlap |-> row.overlap, catchUp |-> row.catchUp, window |-> row.window]
  /\ row.buffered \in Instant \cup {None}
  /\ trigger \in [Instant -> {"none", "STARTED", "SKIPPED", "BUFFERED"}]
  /\ started \in [Instant -> Nat]
  /\ lock \in Manager \cup {Free, Operator}
  /\ mgr \in [Manager -> [pc : PassLabel, now : Int, handled : Int, count : Int,
                          overlap : BOOLEAN, known : BOOLEAN]]
  /\ clock \in [Manager -> Int]
  /\ source \in Int
  /\ fill = [todo |-> fill.todo, busy |-> fill.busy, overlap |-> fill.overlap]
  /\ fill.busy \in BOOLEAN
  /\ fill.overlap \in BOOLEAN

(* The row lock is held by the one transaction that is under way.           *)
LockInv ==
  /\ \A m \in Manager : lock = m <=> mgr[m].pc \in {"draining", "firing"}
  /\ lock = Operator <=> fill.busy

(* A run may be started next to those that are open.                        *)
MayStart == row.overlap = "allow_all" \/ open = {}

(* What a transaction read is still so when it writes, although runs close  *)
(* without the lock.                                                        *)
ReadInv ==
  /\ \A m \in Manager :
       /\ mgr[m].pc = "draining" => row.buffered # None /\ open = {}
       /\ mgr[m].pc = "firing" =>
            LET i == CatchUpInstant(mgr[m].now) IN
            /\ mgr[m].known <=> i \in Instant /\ trigger[i] # "none"
            /\ ~mgr[m].overlap => MayStart
  /\ fill.busy /\ ~fill.overlap => MayStart

(* Before it is created nothing is done for the schedule.                   *)
AbsentInv ==
  row.state = "ABSENT" => lock = Free /\ open = {} /\ fill.todo = {}

TableInv == OneRunPerInstant /\ OverlapRespected /\ BufferExact

SchedInv == SchedType /\ LockInv /\ ReadInv /\ AbsentInv /\ TableInv

-----------------------------------------------------------------------------
(* handleTrigger *)

(* Instants are counted from the beginning of time.                         *)
LEMMA InstantsAreNaturals == Instant \subseteq Nat
<1>1. \A n \in Nat : Minute * n \in Nat
  BY CalendarAssumption
<1>2. QED
  BY <1>1 DEF Instant, MatchingInstants

(* That exactly the buffered instant is recorded so, instant by instant.    *)
LEMMA BufferSet ==
  ASSUME NEW tr, NEW bf \in Instant \cup {None}
  PROVE  {i \in Instant : tr[i] = "BUFFERED"} = {bf} \ {None}
           <=> \A i \in Instant : tr[i] = "BUFFERED" <=> bf = i
<1>1. None \notin Instant
  BY InstantsAreNaturals DEF None
<1>2. QED
  BY <1>1

(* Whichever way an instant without a row is handled, it gets its row, the  *)
(* run and the buffer that go with it.                                      *)
LEMMA TriggerHandled ==
  ASSUME SchedType, TableInv, NEW i, NEW overlapping \in BOOLEAN, NEW b \in Instant \cup {None},
         HandleTrigger(i, overlapping, b),
         i \in Instant => trigger[i] = "none",
         ~overlapping => MayStart,
         row'.buffered = b, row'.overlap = row.overlap
  PROVE  /\ trigger' \in [Instant -> {"none", "STARTED", "SKIPPED", "BUFFERED"}]
         /\ started' \in [Instant -> Nat]
         /\ TableInv'
<1> DEFINE Exact(tr, bf) == \A j \in Instant : tr[j] = "BUFFERED" <=> bf = j
           One(tr, st) == \A j \in Instant : st[j] = IF tr[j] = "STARTED" THEN 1 ELSE 0
<1>1. /\ trigger \in [Instant -> {"none", "STARTED", "SKIPPED", "BUFFERED"}]
      /\ started \in [Instant -> Nat]
      /\ row.buffered \in Instant \cup {None}
      /\ None \notin Instant
      /\ One(trigger, started)
      /\ row.overlap # "allow_all" => \A j, k \in open : j = k
  BY InstantsAreNaturals DEF SchedType, TableInv, OneRunPerInstant, OverlapRespected, None
<1>2. Exact(trigger, row.buffered)
  BY <1>1, BufferSet DEF TableInv, BufferExact
<1>3. SUFFICES /\ trigger' \in [Instant -> {"none", "STARTED", "SKIPPED", "BUFFERED"}]
               /\ started' \in [Instant -> Nat]
               /\ One(trigger', started')
               /\ Exact(trigger', b)
               /\ row.overlap # "allow_all" => \A j, k \in open' : j = k
  <2>1. {j \in Instant : trigger'[j] = "BUFFERED"} = {row'.buffered} \ {None}
          <=> Exact(trigger', b)
    BY BufferSet
  <2>2. QED
    BY <2>1 DEF TableInv, OneRunPerInstant, OverlapRespected, BufferExact
<1>4. CASE ~overlapping
  <2>1. /\ started' = [started EXCEPT ![i] = @ + 1]
        /\ open' = open \cup {i}
        /\ trigger' = [trigger EXCEPT ![i] = "STARTED"]
        /\ b = row.buffered
    BY <1>4 DEF HandleTrigger, StartRun
  <2>2. row.overlap # "allow_all" => open = {}
    BY <1>4 DEF MayStart
  <2>3. /\ trigger' \in [Instant -> {"none", "STARTED", "SKIPPED", "BUFFERED"}]
        /\ \A j \in Instant : trigger'[j] = IF j = i THEN "STARTED" ELSE trigger[j]
    BY <1>1, <2>1
  <2>4. /\ started' \in [Instant -> Nat]
        /\ \A j \in Instant : started'[j] = IF j = i THEN started[j] + 1 ELSE started[j]
    <3>1. CASE i \in Instant
      BY <1>1, <2>1, <3>1
    <3>2. CASE i \notin Instant
      <4>1. started' = started
        BY <1>1, <2>1, <3>2
      <4>2. QED
        BY <1>1, <3>2, <4>1
    <3>3. QED
      BY <3>1, <3>2
  <2>5. One(trigger', started')
    BY <1>1, <2>3, <2>4
  <2>6. Exact(trigger', b)
    BY <1>1, <1>2, <2>1, <2>3
  <2>7. row.overlap # "allow_all" => \A j, k \in open' : j = k
    BY <2>1, <2>2
  <2>8. QED
    BY <2>3, <2>4, <2>5, <2>6, <2>7
<1>5. CASE overlapping /\ row.overlap = "buffer_one"
  <2>1. /\ trigger' = Replaced(i)
        /\ b = i
        /\ UNCHANGED <<started, open>>
    BY <1>5 DEF HandleTrigger
  <2>2. CASE row.buffered = None
    <3>1. trigger' = [[trigger EXCEPT ![i] = "BUFFERED"] EXCEPT ![i] = "BUFFERED"]
      BY <2>1, <2>2 DEF Replaced
    <3>2. /\ trigger' \in [Instant -> {"none", "STARTED", "SKIPPED", "BUFFERED"}]
          /\ \A j \in Instant : trigger'[j] = IF j = i THEN "BUFFERED" ELSE trigger[j]
      BY <1>1, <3>1
    <3>3. One(trigger', started') /\ Exact(trigger', b)
      BY <1>1, <1>2, <2>1, <2>2, <3>2
    <3>4. QED
      BY <1>1, <2>1, <3>2, <3>3
  <2>3. CASE row.buffered # None
    <3>1. trigger' = [[trigger EXCEPT ![i] = "BUFFERED"] EXCEPT ![row.buffered] = "SKIPPED"]
      BY <2>1, <2>3 DEF Replaced
    <3>2. QED
      BY <1>1, <1>2, <2>1, <2>3, <3>1
  <2>4. QED
    BY <2>2, <2>3
<1>6. CASE overlapping /\ row.overlap # "buffer_one"
  <2>1. /\ trigger' = [trigger EXCEPT ![i] = "SKIPPED"]
        /\ b = row.buffered
        /\ UNCHANGED <<started, open>>
    BY <1>6 DEF HandleTrigger
  <2>2. QED
    BY <1>1, <1>2, <2>1
<1>7. QED
  BY <1>4, <1>5, <1>6

-----------------------------------------------------------------------------
(* The transactions *)

Pass == [pc : PassLabel, now : Int, handled : Int, count : Int,
         overlap : BOOLEAN, known : BOOLEAN]

(* The pass of a manager goes on without a lock, and nobody else's moves.   *)
Moves(m) ==
  /\ mgr' \in [Manager -> Pass]
  /\ clock' \in [Manager -> Int]
  /\ mgr'[m].pc \notin {"draining", "firing"}
  /\ \A o \in Manager : o # m => mgr'[o] = mgr[o]

(* A manager that begins a tick holds no lock.                              *)
LEMMA TickMoves ==
  ASSUME SchedType, NEW m \in Manager, TickFrom(m)
  PROVE  Moves(m)
<1> DEFINE r == Reading(m)
           begun == [Idle EXCEPT !.pc = "drain", !.now = r]
<1>1. r \in Int
  BY DEF SchedType, Reading
<1>2. mgr' = [mgr EXCEPT ![m] = begun] /\ clock' = [clock EXCEPT ![m] = r]
  BY DEF TickFrom
<1> HIDE DEF r
<1>3. Idle \in Pass
  BY DEF Idle, Pass, PassLabel
<1>4. begun \in Pass /\ begun.pc = "drain"
  BY <1>1, <1>3 DEF Pass, PassLabel
<1> HIDE DEF begun
<1>5. mgr \in [Manager -> Pass] /\ clock \in [Manager -> Int]
  BY DEF SchedType, Pass
<1>6. QED
  BY <1>1, <1>2, <1>4, <1>5 DEF Moves

(* Nor does one whose pass ends,                                            *)
LEMMA IdleMoves ==
  ASSUME SchedType, NEW m \in Manager, mgr' = [mgr EXCEPT ![m] = Idle],
         clock' \in [Manager -> Int]
  PROVE  Moves(m)
<1>1. Idle \in Pass /\ Idle.pc = "idle"
  BY DEF Idle, Pass, PassLabel
<1>2. mgr \in [Manager -> Pass]
  BY DEF SchedType, Pass
<1>3. QED
  BY <1>1, <1>2 DEF Moves

(* or goes on to another part of its pass,                                  *)
LEMMA GotoMoves ==
  ASSUME SchedType, NEW m \in Manager, NEW l \in PassLabel \ {"draining", "firing"},
         Goto(m, l), UNCHANGED clock
  PROVE  Moves(m)
BY DEF SchedType, Pass, Goto, Moves

(* or has handled a trigger.                                                *)
LEMMA HandledMoves ==
  ASSUME SchedType, NEW m \in Manager, NEW fired \in Int, Handled(m, fired)
  PROVE  Moves(m)
<1>1. CASE mgr[m].handled + 1 < BatchSize
  <2>1. Counted(mgr[m].count + fired) \in Int
    BY ScheduleAssumption DEF SchedType, Counted
  <2>2. mgr' = [mgr EXCEPT ![m].pc = "fire", ![m].handled = @ + 1,
                           ![m].count = Counted(@ + fired)]
        /\ clock' = clock
    BY <1>1 DEF Handled
  <2>3. QED
    BY <2>1, <2>2 DEF SchedType, Pass, PassLabel, Moves
<1>2. CASE ~(mgr[m].handled + 1 < BatchSize)
  <2>1. EndTick(m, mgr[m].count + fired)
    BY <1>2 DEF Handled
  <2>2. CASE TickFrom(m)
    BY <2>2, TickMoves
  <2>3. CASE mgr' = [mgr EXCEPT ![m] = Idle] /\ UNCHANGED clock
    BY <2>3, IdleMoves DEF SchedType
  <2>4. QED
    BY <2>1, <2>2, <2>3 DEF EndTick
<1>3. QED
  BY <1>1, <1>2

(* What a transaction may leave behind in the row and the tables.           *)
Written ==
  /\ row' = [state |-> row'.state, next |-> row'.next, buffered |-> row'.buffered,
             overlap |-> row.overlap, catchUp |-> row'.catchUp, window |-> row'.window]
  /\ row'.buffered \in Instant \cup {None}
  /\ row'.state = "ABSENT" => row.state = "ABSENT"
  /\ trigger' \in [Instant -> {"none", "STARTED", "SKIPPED", "BUFFERED"}]
  /\ started' \in [Instant -> Nat]
  /\ TableInv'

(* Firing leaves the tables in agreement.                                   *)
LEMMA FireWrites ==
  ASSUME SchedInv, NEW m \in Manager, FireCommit(m)
  PROVE  Written /\ Moves(m)
<1> DEFINE i == CatchUpInstant(mgr[m].now)
<1> USE DEF SchedInv
<1>1. SchedType /\ mgr[m].pc = "firing" /\ TableInv
  BY DEF FireCommit
<1>2. CASE ~zoneKnown
  <2>1. Errored /\ Goto(m, "check") /\ UNCHANGED <<trigger, started, open, clock>>
    BY <1>2 DEF FireCommit
  <2>2. row' = [row EXCEPT !.state = "ERRORED", !.next = None]
    BY <2>1 DEF Errored
  <2>3. Moves(m)
    BY <1>1, <2>1, GotoMoves DEF PassLabel
  <2>4. QED
    BY <1>1, <2>1, <2>2, <2>3
    DEF Written, SchedType, TableInv, OneRunPerInstant, OverlapRespected, BufferExact
<1>3. CASE zoneKnown /\ (mgr[m].known \/ i > mgr[m].now)
  <2>1. /\ row' = [row EXCEPT !.next = Next1(i)]
        /\ Goto(m, "check") /\ UNCHANGED <<trigger, started, open, clock>>
    BY <1>3 DEF FireCommit
  <2>2. Moves(m)
    BY <1>1, <2>1, GotoMoves DEF PassLabel
  <2>3. QED
    BY <1>1, <2>1, <2>2
    DEF Written, SchedType, TableInv, OneRunPerInstant, OverlapRespected, BufferExact
<1>4. CASE zoneKnown /\ ~(mgr[m].known \/ i > mgr[m].now)
  <2>1. PICK b \in Instant \cup {None} :
          /\ HandleTrigger(i, mgr[m].overlap, b)
          /\ row' = [row EXCEPT !.next = Next1(i), !.buffered = b]
    BY <1>4 DEF FireCommit
  <2>2. Handled(m, 1)
    BY <1>4 DEF FireCommit
  <2>3. /\ mgr[m].overlap \in BOOLEAN
        /\ i \in Instant => trigger[i] = "none"
        /\ ~mgr[m].overlap => MayStart
    BY <1>1, <1>4 DEF SchedType, ReadInv
  <2>4. /\ row'.buffered = b /\ row'.overlap = row.overlap /\ row'.state = row.state
        /\ row' = [state |-> row'.state, next |-> row'.next, buffered |-> row'.buffered,
                   overlap |-> row.overlap, catchUp |-> row'.catchUp,
                   window |-> row'.window]
    BY <1>1, <2>1 DEF SchedType
  <2> HIDE DEF i
  <2>5. /\ trigger' \in [Instant -> {"none", "STARTED", "SKIPPED", "BUFFERED"}]
        /\ started' \in [Instant -> Nat]
        /\ TableInv'
    BY <1>1, <2>1, <2>3, <2>4, TriggerHandled
  <2>6. Moves(m)
    BY <1>1, <2>2, HandledMoves
  <2>7. QED
    BY <2>4, <2>5, <2>6 DEF Written
<1>5. QED
  BY <1>2, <1>3, <1>4

(* So does draining the buffer,                                             *)
LEMMA DrainWrites ==
  ASSUME SchedInv, NEW m \in Manager, DrainCommit(m)
  PROVE  Written /\ Moves(m)
<1> USE DEF SchedInv
<1>1. /\ SchedType /\ TableInv /\ open = {} /\ row.buffered \in Instant
  BY DEF DrainCommit, ReadInv, SchedType
<1>2. /\ started' = [started EXCEPT ![row.buffered] = @ + 1]
      /\ open' = open \cup {row.buffered}
      /\ trigger' = [trigger EXCEPT ![row.buffered] = "STARTED"]
      /\ row' = [row EXCEPT !.buffered = None]
      /\ mgr' = [mgr EXCEPT ![m].pc = "drain", ![m].count = Counted(@ + 1)]
      /\ clock' = clock
  BY DEF DrainCommit, StartRun
<1>3. Moves(m)
  <2>1. Counted(mgr[m].count + 1) \in Int
    BY <1>1, ScheduleAssumption DEF SchedType, Counted
  <2> DEFINE drained == [mgr[m] EXCEPT !.pc = "drain", !.count = Counted(@ + 1)]
  <2>2. mgr \in [Manager -> Pass]
    BY <1>1 DEF SchedType, Pass
  <2>3. drained \in Pass /\ drained.pc = "drain"
    BY <2>1, <2>2 DEF Pass, PassLabel
  <2>4. /\ mgr'[m] = drained
        /\ mgr' \in [Manager -> Pass]
        /\ \A o \in Manager : o # m => mgr'[o] = mgr[o]
    <3>1. mgr' = [mgr EXCEPT ![m] = drained]
      BY <1>2
    <3> HIDE DEF drained
    <3>2. QED
      BY <2>2, <2>3, <3>1
  <2> HIDE DEF drained
  <2>5. QED
    BY <1>1, <1>2, <2>3, <2>4 DEF SchedType, Moves
<1>4. trigger[row.buffered] = "BUFFERED" /\ started[row.buffered] = 0
  <2>1. \A j \in Instant : trigger[j] = "BUFFERED" <=> row.buffered = j
    BY <1>1, BufferSet DEF SchedType, TableInv, BufferExact
  <2>2. trigger[row.buffered] = "BUFFERED"
    BY <1>1, <2>1
  <2>3. QED
    BY <1>1, <2>2 DEF TableInv, OneRunPerInstant
<1>5. row'.buffered = None /\ row'.overlap = row.overlap /\ row'.state = row.state
      /\ row' = [state |-> row'.state, next |-> row'.next, buffered |-> row'.buffered,
                 overlap |-> row.overlap, catchUp |-> row'.catchUp, window |-> row'.window]
  BY <1>1, <1>2 DEF SchedType
<1>6. OneRunPerInstant' /\ OverlapRespected'
  BY <1>1, <1>2, <1>4, <1>5
  DEF SchedType, TableInv, OneRunPerInstant, OverlapRespected
<1>7. BufferExact'
  BY <1>1, <1>2, <1>5 DEF SchedType, TableInv, BufferExact
<1>8. QED
  BY <1>1, <1>2, <1>3, <1>5, <1>6, <1>7 DEF SchedType, Written, TableInv

(* and so does a backfill.                                                  *)
LEMMA BackfillWrites ==
  ASSUME SchedInv, BackfillCommit
  PROVE  Written
<1> DEFINE i == FillNext
<1> USE DEF SchedInv
<1>1. SchedType /\ fill.busy /\ TableInv
  BY DEF BackfillCommit
<1>2. CASE BackfillKnown(i)
  <2>1. UNCHANGED tableVars
    BY <1>2 DEF BackfillCommit
  <2>2. QED
    BY <1>1, <2>1 DEF tableVars, Written, SchedType, TableInv, OneRunPerInstant,
                      OverlapRespected, BufferExact
<1>3. CASE ~BackfillKnown(i)
  <2>1. PICK b \in Instant \cup {None} :
          HandleTrigger(i, fill.overlap, b) /\ row' = [row EXCEPT !.buffered = b]
    BY <1>3 DEF BackfillCommit
  <2>2. /\ fill.overlap \in BOOLEAN
        /\ i \in Instant => trigger[i] = "none"
        /\ ~fill.overlap => MayStart
    BY <1>1, <1>3 DEF SchedType, ReadInv, BackfillKnown
  <2>3. /\ row'.buffered = b /\ row'.overlap = row.overlap /\ row'.state = row.state
        /\ row' = [state |-> row'.state, next |-> row'.next, buffered |-> row'.buffered,
                   overlap |-> row.overlap, catchUp |-> row'.catchUp,
                   window |-> row'.window]
    BY <1>1, <2>1 DEF SchedType
  <2> HIDE DEF i
  <2>4. /\ trigger' \in [Instant -> {"none", "STARTED", "SKIPPED", "BUFFERED"}]
        /\ started' \in [Instant -> Nat]
        /\ TableInv'
    BY <1>1, <2>1, <2>2, <2>3, TriggerHandled
  <2>5. QED
    BY <2>3, <2>4 DEF Written
<1>4. QED
  BY <1>2, <1>3

-----------------------------------------------------------------------------
(* The steps *)

(* The parts of the state keep their types.                                 *)
LEMMA TypeStep ==
  ASSUME SchedInv, [Next]_vars
  PROVE  SchedType'
<1> USE DEF SchedInv, tableVars, FromOutside
<1>1. SchedType
  OBVIOUS
<1>2. CASE UNCHANGED vars
  BY <1>1, <1>2 DEF vars, SchedType, PassLabel
<1>3. ASSUME TimePasses
      PROVE  SchedType'
  BY <1>1, <1>3 DEF TimePasses, SchedType, PassLabel
<1>4. ASSUME StepBack
      PROVE  SchedType'
  BY <1>1, <1>4 DEF StepBack, SchedType, PassLabel
<1>5. ASSUME NEW m \in Manager, BeginTick(m)
      PROVE  SchedType'
  <2>1. Moves(m)
    BY <1>1, <1>5, TickMoves DEF BeginTick
  <2>2. UNCHANGED <<row, trigger, started, source, fill>> /\ lock' = lock
    BY <1>1, <1>5 DEF BeginTick
  <2>3. QED
    BY <1>1, <2>1, <2>2 DEF SchedType, Moves, Pass
<1>6. ASSUME NEW m \in Manager, DrainLock(m)
      PROVE  SchedType'
  BY <1>1, <1>6 DEF DrainLock, Goto, Drainable, SchedType, PassLabel
<1>7. ASSUME NEW m \in Manager, DrainCommit(m)
      PROVE  SchedType'
  <2>1. Written /\ Moves(m)
    BY <1>7, DrainWrites
  <2>2. lock' = Free /\ UNCHANGED <<source, fill>>
    BY <1>7 DEF DrainCommit
  <2>3. QED
    BY <1>1, <2>1, <2>2 DEF SchedType, Written, Moves, Pass
<1>8. ASSUME NEW m \in Manager, FireLock(m)
      PROVE  SchedType'
  BY <1>1, <1>8 DEF FireLock, Goto, Due, Overlapping, SchedType, PassLabel
<1>9. ASSUME NEW m \in Manager, FireCommit(m)
      PROVE  SchedType'
  <2>1. Written /\ Moves(m)
    BY <1>9, FireWrites
  <2>2. lock' = Free /\ UNCHANGED <<source, fill>>
    BY <1>9 DEF FireCommit
  <2>3. QED
    BY <1>1, <2>1, <2>2 DEF SchedType, Written, Moves, Pass
<1>10. ASSUME NEW m \in Manager, CheckRemaining(m)
      PROVE  SchedType'
  <2>1. CASE Handled(m, 0)
    BY <1>1, <1>10, <2>1, HandledMoves DEF CheckRemaining, SchedType, Moves, Pass
  <2>2. CASE EndTick(m, mgr[m].count)
    <3>1. CASE TickFrom(m)
      BY <1>1, <1>10, <3>1, TickMoves DEF CheckRemaining, SchedType, Moves, Pass
    <3>2. CASE mgr' = [mgr EXCEPT ![m] = Idle] /\ UNCHANGED clock
      BY <1>1, <1>10, <3>2, IdleMoves DEF CheckRemaining, SchedType, Moves, Pass
    <3>3. QED
      BY <2>2, <3>1, <3>2 DEF EndTick
  <2>3. QED
    BY <1>10, <2>1, <2>2 DEF CheckRemaining
<1>11. ASSUME NEW m \in Manager, PassFails(m)
      PROVE  SchedType'
  <2>1. Moves(m)
    BY <1>1, <1>11, IdleMoves DEF PassFails, SchedType
  <2>2. UNCHANGED <<row, trigger, started, source, fill>> /\ lock' \in {lock, Free}
    BY <1>1, <1>11 DEF PassFails, Unlocked
  <2>3. QED
    BY <1>1, <2>1, <2>2 DEF SchedType, Moves, Pass
<1>12. ASSUME NEW m \in Manager, Restart(m)
      PROVE  SchedType'
  <2>1. clock' \in [Manager -> Int]
    BY <1>1, <1>12 DEF Restart, SchedType
  <2>2. Moves(m)
    BY <1>1, <1>12, <2>1, IdleMoves DEF Restart
  <2>3. UNCHANGED <<row, trigger, started, source, fill>> /\ lock' \in {lock, Free}
    BY <1>1, <1>12 DEF Restart, Unlocked
  <2>4. QED
    BY <1>1, <2>2, <2>3 DEF SchedType, Moves, Pass
<1>13. ASSUME NEW m \in Manager, Resume(m)
      PROVE  SchedType'
  BY <1>1, <1>13 DEF Resume, Reading, Errored, SchedType, PassLabel
<1>14. ASSUME NEW m \in Manager, NEW startAt, Create(m, startAt)
      PROVE  SchedType'
  BY <1>1, <1>14 DEF Create, Reading, SchedType, PassLabel
<1>15. ASSUME Pause
      PROVE  SchedType'
  BY <1>1, <1>15 DEF Pause, SchedType, PassLabel
<1>16. ASSUME ZoneLost
      PROVE  SchedType'
  BY <1>1, <1>16 DEF ZoneLost, SchedType, PassLabel
<1>17. ASSUME ZoneBack
      PROVE  SchedType'
  BY <1>1, <1>17 DEF ZoneBack, SchedType, PassLabel
<1>18. ASSUME NEW from, NEW to, Backfill(from, to)
      PROVE  SchedType'
  BY <1>1, <1>18 DEF Backfill, SchedType, PassLabel
<1>19. ASSUME BackfillLock
      PROVE  SchedType'
  BY <1>1, <1>19 DEF BackfillLock, Overlapping, SchedType, PassLabel
<1>20. ASSUME BackfillCommit
      PROVE  SchedType'
  <2>1. Written
    BY <1>20, BackfillWrites
  <2>2. /\ lock' = Free /\ UNCHANGED <<source, mgr, clock>>
        /\ fill' = [NoFill EXCEPT !.todo = fill.todo \ {FillNext}]
    BY <1>20 DEF BackfillCommit
  <2>3. fill' = [todo |-> fill'.todo, busy |-> fill'.busy, overlap |-> fill'.overlap]
        /\ fill'.busy \in BOOLEAN /\ fill'.overlap \in BOOLEAN
    BY <2>2 DEF NoFill
  <2>4. QED
    BY <1>1, <2>1, <2>2, <2>3 DEF SchedType, Written
<1>21. ASSUME NEW i, CloseRun(i)
      PROVE  SchedType'
  BY <1>1, <1>21 DEF CloseRun, SchedType, PassLabel
<1>22. QED
  BY <1>2, <1>3, <1>4, <1>5, <1>6, <1>7, <1>8, <1>9, <1>10, <1>11, <1>12, <1>13, <1>14,
     <1>15, <1>16, <1>17, <1>18, <1>19, <1>20, <1>21 DEF Next, ManagerStep

(* Those who may hold the lock are told apart.                              *)
LEMMA Holders == Free # Operator /\ \A m \in Manager : m # Free /\ m # Operator
BY ScheduleAssumption DEF Free, Operator

(* A manager whose pass goes on without it gives the lock back.             *)
LEMMA LockReleased ==
  ASSUME SchedType, LockInv, NEW m \in Manager, Moves(m), UNCHANGED fill,
         lock' = IF lock = m THEN Free ELSE lock
  PROVE  LockInv'
<1>1. Free # Operator /\ \A o \in Manager : o # Free /\ o # Operator
  BY Holders
<1>2. /\ mgr'[m].pc \notin {"draining", "firing"}
      /\ \A o \in Manager : o # m => mgr'[o] = mgr[o]
  BY DEF Moves
<1>3. lock' # m /\ \A o \in Manager : o # m => (lock' = o <=> lock = o)
  BY <1>1
<1>4. lock' = Operator <=> lock = Operator
  BY <1>1
<1>5. QED
  BY <1>2, <1>3, <1>4 DEF LockInv

(* A manager takes the lock with which its transaction begins.              *)
LEMMA LockTaken ==
  ASSUME SchedType, LockInv, NEW m \in Manager, UNCHANGED fill,
         lock = Free, lock' = m, mgr'[m].pc \in {"draining", "firing"},
         \A o \in Manager : o # m => mgr'[o] = mgr[o]
  PROVE  LockInv'
<1>1. Free # Operator /\ \A o \in Manager : o # Free /\ o # Operator
  BY Holders
<1>2. QED
  BY <1>1 DEF LockInv

(* The transaction under way has the row lock.                              *)
LEMMA LockStep ==
  ASSUME SchedInv, [Next]_vars
  PROVE  LockInv'
<1> USE DEF SchedInv, tableVars, FromOutside
<1>1. SchedInv /\ SchedType /\ LockInv
  OBVIOUS
<1>2. CASE UNCHANGED vars
  BY <1>1, <1>2 DEF vars, LockInv, SchedType, PassLabel
<1>3. ASSUME TimePasses
      PROVE  LockInv'
  BY <1>1, <1>3 DEF TimePasses, LockInv, SchedType, PassLabel
<1>4. ASSUME StepBack
      PROVE  LockInv'
  BY <1>1, <1>4 DEF StepBack, LockInv, SchedType, PassLabel
<1>5. ASSUME NEW m \in Manager, BeginTick(m)
      PROVE  LockInv'
  <2>1. Moves(m)
    BY <1>1, <1>5, TickMoves DEF BeginTick
  <2>2. lock' = (IF lock = m THEN Free ELSE lock) /\ UNCHANGED fill
    BY <1>1, <1>5 DEF BeginTick, LockInv
  <2>3. QED
    BY <1>1, <2>1, <2>2, LockReleased
<1>6. ASSUME NEW m \in Manager, DrainLock(m)
      PROVE  LockInv'
  <2>1. CASE lock = Free /\ Drainable
    <3>1. lock' = m /\ mgr'[m].pc = "draining" /\ UNCHANGED fill
          /\ \A o \in Manager : o # m => mgr'[o] = mgr[o]
      BY <1>1, <1>6, <2>1 DEF DrainLock, Goto, SchedType
    <3>2. QED
      BY <1>1, <2>1, <3>1, LockTaken
  <2>2. CASE ~(lock = Free /\ Drainable)
    <3>1. Goto(m, "fire") /\ UNCHANGED <<lock, clock, fill>> /\ lock # m
      BY <1>1, <1>6, <2>2 DEF DrainLock, LockInv
    <3>2. Moves(m)
      BY <1>1, <3>1, GotoMoves DEF PassLabel
    <3>3. QED
      BY <1>1, <3>1, <3>2, LockReleased
  <2>3. QED
    BY <2>1, <2>2
<1>7. ASSUME NEW m \in Manager, DrainCommit(m)
      PROVE  LockInv'
  <2>1. Moves(m)
    BY <1>1, <1>7, DrainWrites
  <2>2. lock' = (IF lock = m THEN Free ELSE lock) /\ UNCHANGED fill
    BY <1>1, <1>7 DEF DrainCommit, LockInv
  <2>3. QED
    BY <1>1, <2>1, <2>2, LockReleased
<1>8. ASSUME NEW m \in Manager, FireLock(m)
      PROVE  LockInv'
  <2>1. CASE lock = Free /\ Due(mgr[m].now)
    <3>1. lock' = m /\ mgr'[m].pc = "firing" /\ UNCHANGED fill
          /\ \A o \in Manager : o # m => mgr'[o] = mgr[o]
      BY <1>1, <1>8, <2>1 DEF FireLock, Goto, SchedType
    <3>2. QED
      BY <1>1, <2>1, <3>1, LockTaken
  <2>2. CASE ~(lock = Free /\ Due(mgr[m].now))
    <3>1. Goto(m, "check") /\ UNCHANGED <<lock, clock, fill>> /\ lock # m
      BY <1>1, <1>8, <2>2 DEF FireLock, LockInv
    <3>2. Moves(m)
      BY <1>1, <3>1, GotoMoves DEF PassLabel
    <3>3. QED
      BY <1>1, <3>1, <3>2, LockReleased
  <2>3. QED
    BY <2>1, <2>2
<1>9. ASSUME NEW m \in Manager, FireCommit(m)
      PROVE  LockInv'
  <2>1. Moves(m)
    BY <1>1, <1>9, FireWrites
  <2>2. lock' = (IF lock = m THEN Free ELSE lock) /\ UNCHANGED fill
    BY <1>1, <1>9 DEF FireCommit, LockInv
  <2>3. QED
    BY <1>1, <2>1, <2>2, LockReleased
<1>10. ASSUME NEW m \in Manager, CheckRemaining(m)
      PROVE  LockInv'
  <2>1. Moves(m)
    <3>1. CASE Handled(m, 0)
      BY <1>1, <3>1, HandledMoves
    <3>2. CASE TickFrom(m)
      BY <1>1, <3>2, TickMoves
    <3>3. CASE mgr' = [mgr EXCEPT ![m] = Idle] /\ UNCHANGED clock
      BY <1>1, <3>3, IdleMoves DEF SchedType
    <3>4. QED
      BY <1>10, <3>1, <3>2, <3>3 DEF CheckRemaining, EndTick
  <2>2. lock' = (IF lock = m THEN Free ELSE lock) /\ UNCHANGED fill
    BY <1>1, <1>10 DEF CheckRemaining, LockInv
  <2>3. QED
    BY <1>1, <2>1, <2>2, LockReleased
<1>11. ASSUME NEW m \in Manager, PassFails(m)
      PROVE  LockInv'
  <2>1. Moves(m)
    BY <1>1, <1>11, IdleMoves DEF PassFails, SchedType
  <2>2. lock' = (IF lock = m THEN Free ELSE lock) /\ UNCHANGED fill
    BY <1>1, <1>11 DEF PassFails, LockInv, Unlocked
  <2>3. QED
    BY <1>1, <2>1, <2>2, LockReleased
<1>12. ASSUME NEW m \in Manager, Restart(m)
      PROVE  LockInv'
  <2>1. Moves(m)
    <3>1. clock' \in [Manager -> Int]
      BY <1>1, <1>12 DEF Restart, SchedType
    <3>2. QED
      BY <1>1, <1>12, <3>1, IdleMoves DEF Restart
  <2>2. lock' = (IF lock = m THEN Free ELSE lock) /\ UNCHANGED fill
    BY <1>1, <1>12 DEF Restart, LockInv, Unlocked
  <2>3. QED
    BY <1>1, <2>1, <2>2, LockReleased
<1>13. ASSUME NEW m \in Manager, Resume(m)
      PROVE  LockInv'
  BY <1>1, <1>13 DEF Resume, Reading, Errored, LockInv, SchedType, PassLabel
<1>14. ASSUME NEW m \in Manager, NEW startAt, Create(m, startAt)
      PROVE  LockInv'
  BY <1>1, <1>14 DEF Create, Reading, LockInv, SchedType, PassLabel
<1>15. ASSUME Pause
      PROVE  LockInv'
  BY <1>1, <1>15 DEF Pause, LockInv, SchedType, PassLabel
<1>16. ASSUME ZoneLost
      PROVE  LockInv'
  BY <1>1, <1>16 DEF ZoneLost, LockInv, SchedType, PassLabel
<1>17. ASSUME ZoneBack
      PROVE  LockInv'
  BY <1>1, <1>17 DEF ZoneBack, LockInv, SchedType, PassLabel
<1>18. ASSUME NEW from, NEW to, Backfill(from, to)
      PROVE  LockInv'
  BY <1>1, <1>18 DEF Backfill, LockInv, SchedType, PassLabel
<1>19. ASSUME BackfillLock
      PROVE  LockInv'
  <2>1. lock = Free /\ lock' = Operator /\ UNCHANGED mgr /\ fill'.busy
    BY <1>1, <1>19 DEF BackfillLock, SchedType
  <2>2. QED
    BY <1>1, <2>1, Holders DEF LockInv
<1>20. ASSUME BackfillCommit
      PROVE  LockInv'
  <2>1. lock = Operator /\ lock' = Free /\ UNCHANGED mgr /\ ~fill'.busy
    BY <1>1, <1>20 DEF BackfillCommit, LockInv, NoFill
  <2>2. QED
    BY <1>1, <2>1, Holders DEF LockInv
<1>21. ASSUME NEW i, CloseRun(i)
      PROVE  LockInv'
  BY <1>1, <1>21 DEF CloseRun, LockInv, SchedType, PassLabel
<1>22. QED
  BY <1>2, <1>3, <1>4, <1>5, <1>6, <1>7, <1>8, <1>9, <1>10, <1>11, <1>12, <1>13, <1>14,
     <1>15, <1>16, <1>17, <1>18, <1>19, <1>20, <1>21 DEF Next, ManagerStep

(* Nobody reads anything without the lock.                                  *)
LEMMA NothingRead ==
  ASSUME LockInv', lock' = Free
  PROVE  ReadInv'
<1>1. lock' # Operator /\ \A m \in Manager : lock' # m
  BY Holders
<1>2. QED
  BY <1>1 DEF LockInv, ReadInv

(* What was read stays so as long as only runs close.                       *)
LEMMA ReadFrame ==
  ASSUME SchedType, ReadInv, UNCHANGED <<row, trigger>>, open' \subseteq open,
         \A m \in Manager : mgr'[m].pc \in {"draining", "firing"} => mgr'[m] = mgr[m],
         fill'.busy => fill' = fill
  PROVE  ReadInv'
<1>1. \A now : CatchUpInstant(now)' = CatchUpInstant(now)
  BY DEF CatchUpInstant, LatestUntil
<1>2. MayStart => MayStart'
  BY DEF MayStart
<1>3. ASSUME NEW m \in Manager
      PROVE  /\ mgr'[m].pc = "draining" => row'.buffered # None /\ open' = {}
             /\ mgr'[m].pc = "firing" =>
                  LET i == CatchUpInstant(mgr[m].now)' IN
                  /\ mgr'[m].known <=> i \in Instant /\ trigger'[i] # "none"
                  /\ ~mgr'[m].overlap => MayStart'
  <2>1. CASE mgr'[m].pc = "draining"
    <3>1. mgr[m].pc = "draining"
      BY <2>1
    <3>2. QED
      BY <2>1, <3>1 DEF ReadInv
  <2>2. CASE mgr'[m].pc = "firing"
    <3>1. mgr'[m] = mgr[m]
      BY <2>2
    <3>2. CatchUpInstant(mgr[m].now)' = CatchUpInstant(mgr[m].now)
      BY <3>1 DEF CatchUpInstant, LatestUntil
    <3>3. QED
      BY <1>2, <2>2, <3>1, <3>2 DEF ReadInv
  <2>3. QED
    BY <2>1, <2>2
<1>4. fill'.busy /\ ~fill'.overlap => MayStart'
  BY <1>2 DEF ReadInv
<1>5. QED
  BY <1>3, <1>4 DEF ReadInv

(* What a transaction read holds until it writes.                           *)
LEMMA ReadStep ==
  ASSUME SchedInv, [Next]_vars
  PROVE  ReadInv'
<1> USE DEF SchedInv, tableVars, FromOutside
<1>1. SchedInv /\ SchedType /\ LockInv /\ ReadInv /\ AbsentInv /\ [Next]_vars
  OBVIOUS
<1>2. CASE UNCHANGED vars
  BY <1>1, <1>2, ReadFrame DEF vars
<1>3. ASSUME TimePasses
      PROVE  ReadInv'
  BY <1>1, <1>3, ReadFrame DEF TimePasses
<1>4. ASSUME StepBack
      PROVE  ReadInv'
  BY <1>1, <1>4, ReadFrame DEF StepBack
<1>5. ASSUME NEW m \in Manager, BeginTick(m)
      PROVE  ReadInv'
  <2>1. Moves(m)
    BY <1>1, <1>5, TickMoves DEF BeginTick
  <2>2. UNCHANGED <<row, trigger, open, fill>>
    BY <1>5 DEF BeginTick
  <2>3. QED
    BY <1>1, <2>1, <2>2, ReadFrame DEF Moves
<1>6. ASSUME NEW m \in Manager, DrainLock(m)
      PROVE  ReadInv'
  <2>1. UNCHANGED <<row, trigger, open, fill>>
    BY <1>6 DEF DrainLock
  <2>2. CASE lock = Free /\ Drainable
    <3>1. /\ mgr'[m].pc = "draining"
          /\ \A o \in Manager : o # m => mgr'[o] = mgr[o]
      BY <1>1, <1>6, <2>2 DEF DrainLock, Goto, SchedType
    <3>2. row'.buffered # None /\ open' = {}
      BY <2>1, <2>2 DEF Drainable, HasOpenRun
    <3>3. \A o \in Manager : mgr[o].pc \notin {"draining", "firing"}
      BY <1>1, <2>2, Holders DEF LockInv
    <3>4. fill.busy => lock = Operator
      BY <1>1 DEF LockInv
    <3>5. QED
      BY <2>1, <2>2, <3>1, <3>2, <3>3, <3>4, Holders DEF ReadInv
  <2>3. CASE ~(lock = Free /\ Drainable)
    <3>1. Goto(m, "fire") /\ UNCHANGED clock
      BY <1>6, <2>3 DEF DrainLock
    <3>2. Moves(m)
      BY <1>1, <3>1, GotoMoves DEF PassLabel
    <3>3. QED
      BY <1>1, <2>1, <3>2, ReadFrame DEF Moves
  <2>4. QED
    BY <2>2, <2>3
<1>7. ASSUME NEW m \in Manager, DrainCommit(m)
      PROVE  ReadInv'
  <2>1. lock' = Free
    BY <1>1, <1>7 DEF DrainCommit
  <2>2. QED
    BY <1>1, <2>1, LockStep, NothingRead
<1>8. ASSUME NEW m \in Manager, FireLock(m)
      PROVE  ReadInv'
  <2>1. UNCHANGED <<row, trigger, open, fill>>
    BY <1>8 DEF FireLock
  <2>2. CASE lock = Free /\ Due(mgr[m].now)
    <3> DEFINE i == CatchUpInstant(mgr[m].now)
    <3>1. mgr' = [mgr EXCEPT ![m].pc = "firing", ![m].overlap = Overlapping,
                             ![m].known = i \in Instant /\ trigger[i] # "none"]
      BY <1>8, <2>2 DEF FireLock
    <3> HIDE DEF i
    <3>2. /\ mgr'[m].pc = "firing"
          /\ mgr'[m].now = mgr[m].now
          /\ mgr'[m].overlap = Overlapping
          /\ mgr'[m].known = (i \in Instant /\ trigger[i] # "none")
          /\ \A o \in Manager : o # m => mgr'[o] = mgr[o]
      BY <1>1, <3>1 DEF SchedType
    <3>3. CatchUpInstant(mgr[m].now)' = i
      BY <2>1, <3>2 DEF CatchUpInstant, LatestUntil, i
    <3>4. ~mgr'[m].overlap => MayStart'
      BY <2>1, <3>2 DEF Overlapping, HasOpenRun, MayStart
    <3>5. \A o \in Manager : mgr[o].pc \notin {"draining", "firing"}
      BY <1>1, <2>2, Holders DEF LockInv
    <3>6. ~fill'.busy
      BY <1>1, <2>1, <2>2, Holders DEF LockInv
    <3>7. QED
      BY <2>1, <3>2, <3>3, <3>4, <3>5, <3>6 DEF ReadInv
  <2>3. CASE ~(lock = Free /\ Due(mgr[m].now))
    <3>1. Goto(m, "check") /\ UNCHANGED clock
      BY <1>8, <2>3 DEF FireLock
    <3>2. Moves(m)
      BY <1>1, <3>1, GotoMoves DEF PassLabel
    <3>3. QED
      BY <1>1, <2>1, <3>2, ReadFrame DEF Moves
  <2>4. QED
    BY <2>2, <2>3
<1>9. ASSUME NEW m \in Manager, FireCommit(m)
      PROVE  ReadInv'
  <2>1. lock' = Free
    BY <1>1, <1>9 DEF FireCommit
  <2>2. QED
    BY <1>1, <2>1, LockStep, NothingRead
<1>10. ASSUME NEW m \in Manager, CheckRemaining(m)
      PROVE  ReadInv'
  <2>1. Moves(m)
    <3>1. CASE Handled(m, 0)
      BY <1>1, <3>1, HandledMoves
    <3>2. CASE TickFrom(m)
      BY <1>1, <3>2, TickMoves
    <3>3. CASE mgr' = [mgr EXCEPT ![m] = Idle] /\ UNCHANGED clock
      BY <1>1, <3>3, IdleMoves DEF SchedType
    <3>4. QED
      BY <1>10, <3>1, <3>2, <3>3 DEF CheckRemaining, EndTick
  <2>2. UNCHANGED <<row, trigger, open, fill>>
    BY <1>10 DEF CheckRemaining
  <2>3. QED
    BY <1>1, <2>1, <2>2, ReadFrame DEF Moves
<1>11. ASSUME NEW m \in Manager, PassFails(m)
      PROVE  ReadInv'
  <2>1. Moves(m)
    BY <1>1, <1>11, IdleMoves DEF PassFails, SchedType
  <2>2. UNCHANGED <<row, trigger, open, fill>>
    BY <1>11 DEF PassFails
  <2>3. QED
    BY <1>1, <2>1, <2>2, ReadFrame DEF Moves
<1>12. ASSUME NEW m \in Manager, Restart(m)
      PROVE  ReadInv'
  <2>1. Moves(m)
    <3>1. clock' \in [Manager -> Int]
      BY <1>1, <1>12 DEF Restart, SchedType
    <3>2. QED
      BY <1>1, <1>12, <3>1, IdleMoves DEF Restart
  <2>2. UNCHANGED <<row, trigger, open, fill>>
    BY <1>12 DEF Restart
  <2>3. QED
    BY <1>1, <2>1, <2>2, ReadFrame DEF Moves
<1>13. ASSUME NEW m \in Manager, Resume(m)
      PROVE  ReadInv'
  <2>1. lock' = Free
    BY <1>1, <1>13 DEF Resume
  <2>2. QED
    BY <1>1, <2>1, LockStep, NothingRead
<1>14. ASSUME NEW m \in Manager, NEW startAt, Create(m, startAt)
      PROVE  ReadInv'
  <2>1. lock' = Free
    BY <1>1, <1>14 DEF Create, AbsentInv
  <2>2. QED
    BY <1>1, <2>1, LockStep, NothingRead
<1>15. ASSUME Pause
      PROVE  ReadInv'
  <2>1. lock' = Free
    BY <1>1, <1>15 DEF Pause
  <2>2. QED
    BY <1>1, <2>1, LockStep, NothingRead
<1>16. ASSUME ZoneLost
      PROVE  ReadInv'
  BY <1>1, <1>16, ReadFrame DEF ZoneLost
<1>17. ASSUME ZoneBack
      PROVE  ReadInv'
  BY <1>1, <1>17, ReadFrame DEF ZoneBack
<1>18. ASSUME NEW from, NEW to, Backfill(from, to)
      PROVE  ReadInv'
  <2>1. UNCHANGED <<row, trigger, open, mgr>> /\ ~fill'.busy
    BY <1>18 DEF Backfill, NoFill
  <2>2. QED
    BY <1>1, <2>1, ReadFrame
<1>19. ASSUME BackfillLock
      PROVE  ReadInv'
  <2>1. UNCHANGED <<row, trigger, open, mgr>> /\ lock = Free /\ fill'.overlap = Overlapping
    BY <1>1, <1>19 DEF BackfillLock, SchedType
  <2>2. \A o \in Manager : mgr[o].pc \notin {"draining", "firing"}
    BY <1>1, <2>1, Holders DEF LockInv
  <2>3. ~fill'.overlap => MayStart'
    BY <2>1 DEF Overlapping, HasOpenRun, MayStart
  <2>4. QED
    BY <2>1, <2>2, <2>3 DEF ReadInv
<1>20. ASSUME BackfillCommit
      PROVE  ReadInv'
  <2>1. lock' = Free
    BY <1>1, <1>20 DEF BackfillCommit
  <2>2. QED
    BY <1>1, <2>1, LockStep, NothingRead
<1>21. ASSUME NEW i, CloseRun(i)
      PROVE  ReadInv'
  BY <1>1, <1>21, ReadFrame DEF CloseRun
<1>22. QED
  BY <1>2, <1>3, <1>4, <1>5, <1>6, <1>7, <1>8, <1>9, <1>10, <1>11, <1>12, <1>13, <1>14,
     <1>15, <1>16, <1>17, <1>18, <1>19, <1>20, <1>21 DEF Next, ManagerStep

(* Nothing begins before the schedule is there.                             *)
LEMMA AbsentStep ==
  ASSUME SchedInv, [Next]_vars
  PROVE  AbsentInv'
<1> USE DEF SchedInv, tableVars, FromOutside
<1>1. SchedInv /\ SchedType /\ LockInv /\ AbsentInv
  OBVIOUS
<1>2. CASE UNCHANGED vars
  BY <1>1, <1>2 DEF vars, AbsentInv, Unlocked, SchedType
<1>3. ASSUME TimePasses
      PROVE  AbsentInv'
  BY <1>1, <1>3 DEF TimePasses, AbsentInv, Unlocked, SchedType
<1>4. ASSUME StepBack
      PROVE  AbsentInv'
  BY <1>1, <1>4 DEF StepBack, AbsentInv, Unlocked, SchedType
<1>5. ASSUME NEW m \in Manager, BeginTick(m)
      PROVE  AbsentInv'
  BY <1>1, <1>5 DEF BeginTick, TickFrom, Reading, AbsentInv, Unlocked, SchedType
<1>6. ASSUME NEW m \in Manager, DrainLock(m)
      PROVE  AbsentInv'
  BY <1>1, <1>6 DEF DrainLock, Goto, Drainable, AbsentInv, Unlocked, SchedType
<1>7. ASSUME NEW m \in Manager, DrainCommit(m)
      PROVE  AbsentInv'
  <2>1. row'.state = "ABSENT" => row.state = "ABSENT"
    BY <1>1, <1>7, DrainWrites DEF Written
  <2>2. lock # Free
    BY <1>1, <1>7, Holders DEF DrainCommit, LockInv
  <2>3. QED
    BY <1>1, <2>1, <2>2 DEF AbsentInv
<1>8. ASSUME NEW m \in Manager, FireLock(m)
      PROVE  AbsentInv'
  BY <1>1, <1>8 DEF FireLock, Goto, Due, Overlapping, AbsentInv, Unlocked, SchedType
<1>9. ASSUME NEW m \in Manager, FireCommit(m)
      PROVE  AbsentInv'
  <2>1. row'.state = "ABSENT" => row.state = "ABSENT"
    BY <1>1, <1>9, FireWrites DEF Written
  <2>2. lock # Free
    BY <1>1, <1>9, Holders DEF FireCommit, LockInv
  <2>3. QED
    BY <1>1, <2>1, <2>2 DEF AbsentInv
<1>10. ASSUME NEW m \in Manager, CheckRemaining(m)
      PROVE  AbsentInv'
  BY <1>1, <1>10 DEF CheckRemaining, Goto, Due, Handled, EndTick, TickFrom, Reading,
     Counted, AbsentInv, Unlocked, SchedType
<1>11. ASSUME NEW m \in Manager, PassFails(m)
      PROVE  AbsentInv'
  BY <1>1, <1>11 DEF PassFails, Unlocked, AbsentInv, Unlocked, SchedType
<1>12. ASSUME NEW m \in Manager, Restart(m)
      PROVE  AbsentInv'
  BY <1>1, <1>12 DEF Restart, Unlocked, AbsentInv, Unlocked, SchedType
<1>13. ASSUME NEW m \in Manager, Resume(m)
      PROVE  AbsentInv'
  BY <1>1, <1>13 DEF Resume, Reading, Errored, AbsentInv, Unlocked, SchedType
<1>14. ASSUME NEW m \in Manager, NEW startAt, Create(m, startAt)
      PROVE  AbsentInv'
  BY <1>1, <1>14 DEF Create, Reading, AbsentInv, Unlocked, SchedType
<1>15. ASSUME Pause
      PROVE  AbsentInv'
  BY <1>1, <1>15 DEF Pause, AbsentInv, Unlocked, SchedType
<1>16. ASSUME ZoneLost
      PROVE  AbsentInv'
  BY <1>1, <1>16 DEF ZoneLost, AbsentInv, Unlocked, SchedType
<1>17. ASSUME ZoneBack
      PROVE  AbsentInv'
  BY <1>1, <1>17 DEF ZoneBack, AbsentInv, Unlocked, SchedType
<1>18. ASSUME NEW from, NEW to, Backfill(from, to)
      PROVE  AbsentInv'
  BY <1>1, <1>18 DEF Backfill, AbsentInv, Unlocked, SchedType
<1>19. ASSUME BackfillLock
      PROVE  AbsentInv'
  BY <1>1, <1>19 DEF BackfillLock, Overlapping, AbsentInv, Unlocked, SchedType
<1>20. ASSUME BackfillCommit
      PROVE  AbsentInv'
  <2>1. row'.state = "ABSENT" => row.state = "ABSENT"
    BY <1>1, <1>20, BackfillWrites DEF Written
  <2>2. lock # Free
    BY <1>1, <1>20, Holders DEF BackfillCommit, LockInv
  <2>3. QED
    BY <1>1, <2>1, <2>2 DEF AbsentInv
<1>21. ASSUME NEW i, CloseRun(i)
      PROVE  AbsentInv'
  BY <1>1, <1>21 DEF CloseRun, AbsentInv, Unlocked, SchedType
<1>22. QED
  BY <1>2, <1>3, <1>4, <1>5, <1>6, <1>7, <1>8, <1>9, <1>10, <1>11, <1>12, <1>13, <1>14,
     <1>15, <1>16, <1>17, <1>18, <1>19, <1>20, <1>21 DEF Next, ManagerStep

(* The three tables agree.                                                  *)
LEMMA TableStep ==
  ASSUME SchedInv, [Next]_vars
  PROVE  TableInv'
<1> USE DEF SchedInv, tableVars, FromOutside
<1>1. SchedInv /\ SchedType /\ AbsentInv /\ TableInv
  OBVIOUS
<1>2. CASE UNCHANGED vars
  BY <1>1, <1>2 DEF vars, TableInv, OneRunPerInstant, OverlapRespected, BufferExact, SchedType
<1>3. ASSUME TimePasses
      PROVE  TableInv'
  BY <1>1, <1>3 DEF TimePasses, TableInv, OneRunPerInstant, OverlapRespected,
     BufferExact, SchedType
<1>4. ASSUME StepBack
      PROVE  TableInv'
  BY <1>1, <1>4 DEF StepBack, TableInv, OneRunPerInstant, OverlapRespected, BufferExact,
     SchedType
<1>5. ASSUME NEW m \in Manager, BeginTick(m)
      PROVE  TableInv'
  BY <1>1, <1>5 DEF BeginTick, TickFrom, Reading, TableInv, OneRunPerInstant,
     OverlapRespected, BufferExact, SchedType
<1>6. ASSUME NEW m \in Manager, DrainLock(m)
      PROVE  TableInv'
  BY <1>1, <1>6 DEF DrainLock, Goto, Drainable, TableInv, OneRunPerInstant,
     OverlapRespected, BufferExact, SchedType
<1>7. ASSUME NEW m \in Manager, DrainCommit(m)
      PROVE  TableInv'
  BY <1>1, <1>7, DrainWrites DEF Written
<1>8. ASSUME NEW m \in Manager, FireLock(m)
      PROVE  TableInv'
  BY <1>1, <1>8 DEF FireLock, Goto, Due, Overlapping, TableInv, OneRunPerInstant,
     OverlapRespected, BufferExact, SchedType
<1>9. ASSUME NEW m \in Manager, FireCommit(m)
      PROVE  TableInv'
  BY <1>1, <1>9, FireWrites DEF Written
<1>10. ASSUME NEW m \in Manager, CheckRemaining(m)
      PROVE  TableInv'
  BY <1>1, <1>10 DEF CheckRemaining, Goto, Due, Handled, EndTick, TickFrom, Reading,
     Counted, TableInv, OneRunPerInstant, OverlapRespected, BufferExact, SchedType
<1>11. ASSUME NEW m \in Manager, PassFails(m)
      PROVE  TableInv'
  BY <1>1, <1>11 DEF PassFails, Unlocked, TableInv, OneRunPerInstant, OverlapRespected,
     BufferExact, SchedType
<1>12. ASSUME NEW m \in Manager, Restart(m)
      PROVE  TableInv'
  BY <1>1, <1>12 DEF Restart, Unlocked, TableInv, OneRunPerInstant, OverlapRespected,
     BufferExact, SchedType
<1>13. ASSUME NEW m \in Manager, Resume(m)
      PROVE  TableInv'
  BY <1>1, <1>13 DEF Resume, Reading, Errored, TableInv, OneRunPerInstant,
     OverlapRespected, BufferExact, SchedType
<1>14. ASSUME NEW m \in Manager, NEW startAt, Create(m, startAt)
      PROVE  TableInv'
  <2>1. row'.buffered = row.buffered /\ UNCHANGED <<trigger, started, open>> /\ open = {}
    BY <1>1, <1>14 DEF Create, AbsentInv
  <2>2. QED
    BY <1>1, <2>1 DEF TableInv, OneRunPerInstant, OverlapRespected, BufferExact
<1>15. ASSUME Pause
      PROVE  TableInv'
  BY <1>1, <1>15 DEF Pause, TableInv, OneRunPerInstant, OverlapRespected, BufferExact,
     SchedType
<1>16. ASSUME ZoneLost
      PROVE  TableInv'
  BY <1>1, <1>16 DEF ZoneLost, TableInv, OneRunPerInstant, OverlapRespected,
     BufferExact, SchedType
<1>17. ASSUME ZoneBack
      PROVE  TableInv'
  BY <1>1, <1>17 DEF ZoneBack, TableInv, OneRunPerInstant, OverlapRespected,
     BufferExact, SchedType
<1>18. ASSUME NEW from, NEW to, Backfill(from, to)
      PROVE  TableInv'
  BY <1>1, <1>18 DEF Backfill, TableInv, OneRunPerInstant, OverlapRespected,
     BufferExact, SchedType
<1>19. ASSUME BackfillLock
      PROVE  TableInv'
  BY <1>1, <1>19 DEF BackfillLock, Overlapping, TableInv, OneRunPerInstant,
     OverlapRespected, BufferExact, SchedType
<1>20. ASSUME BackfillCommit
      PROVE  TableInv'
  BY <1>1, <1>20, BackfillWrites DEF Written
<1>21. ASSUME NEW i, CloseRun(i)
      PROVE  TableInv'
  BY <1>1, <1>21 DEF CloseRun, TableInv, OneRunPerInstant, OverlapRespected,
     BufferExact, SchedType
<1>22. QED
  BY <1>2, <1>3, <1>4, <1>5, <1>6, <1>7, <1>8, <1>9, <1>10, <1>11, <1>12, <1>13, <1>14,
     <1>15, <1>16, <1>17, <1>18, <1>19, <1>20, <1>21 DEF Next, ManagerStep

-----------------------------------------------------------------------------
(* The invariant and what follows from it *)

(* It holds before the schedule is created.                                 *)
LEMMA SchedInit == Init => SchedInv
<1>1. SUFFICES ASSUME Init
               PROVE  SchedInv
  OBVIOUS
<1>2. SchedType
  BY <1>1 DEF Init, SchedType, PassLabel, Idle, NoFill
<1>3. LockInv
  BY <1>1, Holders DEF Init, LockInv, Idle, NoFill
<1>4. ReadInv
  BY <1>1 DEF Init, ReadInv, Idle, NoFill
<1>5. AbsentInv
  BY <1>1 DEF Init, AbsentInv, NoFill
<1>6. TableInv
  BY <1>1 DEF Init, TableInv, OneRunPerInstant, OverlapRespected, BufferExact
<1>7. QED
  BY <1>2, <1>3, <1>4, <1>5, <1>6 DEF SchedInv

(* The row lock keeps what each transaction read true until it writes.      *)
THEOREM SchedulesInvariant == Spec => []SchedInv
<1>1. SchedInv /\ [Next]_vars => SchedInv'
  BY TypeStep, LockStep, ReadStep, AbsentStep, TableStep DEF SchedInv
<1>2. QED
  BY SchedInit, <1>1, PTL DEF Spec

(* An instant that was triggered has started one run and any other none,    *)
(* whichever of the managers, the drain or a backfill handled it, and after *)
(* whatever failed passes, restarts and steps of the clock.                 *)
THEOREM TriggersStartOnce == Spec => []OneRunPerInstant
BY SchedulesInvariant, PTL DEF SchedInv, TableInv

(* No two runs are open at once unless the policy allows it.                *)
THEOREM NoOverlap == Spec => []OverlapRespected
BY SchedulesInvariant, PTL DEF SchedInv, TableInv

(* The buffer and the trigger table name the same instant.                  *)
THEOREM BufferAgrees == Spec => []BufferExact
BY SchedulesInvariant, PTL DEF SchedInv, TableInv

-----------------------------------------------------------------------------
(* Arithmetic of the calendar *)

(* A number is its quotient and its remainder.                              *)
LEMMA DivMod ==
  ASSUME NEW n \in Int, NEW b \in Nat \ {0}
  PROVE  n = (b * (n \div b)) + (n % b) /\ n % b \in 0..(b - 1) /\ n \div b \in Int
OBVIOUS

(* No other two numbers make it up.                                         *)
LEMMA DivUnique ==
  ASSUME NEW n \in Int, NEW b \in Nat \ {0}, NEW q \in Int, NEW r \in 0..(b - 1),
         n = b * q + r
  PROVE  n \div b = q /\ n % b = r
OBVIOUS

(* Up to the next multiple the quotient stays.                              *)
LEMMA SameQuotient ==
  ASSUME NEW n \in Nat, NEW b \in Nat \ {0}, NEW k \in 0..((b - (n % b)) - 1)
  PROVE  (n + k) \div b = n \div b
<1>1. n = (b * (n \div b)) + (n % b) /\ n % b \in 0..(b - 1) /\ n \div b \in Int
  BY DivMod
<1> DEFINE q == n \div b
           r == (n % b) + k
<1>2. n + k = b * q + r /\ r \in 0..(b - 1) /\ q \in Int /\ n + k \in Int
  BY <1>1
<1> HIDE DEF q, r
<1>3. (n + k) \div b = q
  BY <1>2, DivUnique
<1>4. QED
  BY <1>3 DEF q

DayLength == MinutesPerHour * HoursPerDay

(* The parts of the calendar are at least one.                              *)
LEMMA CalendarType ==
  /\ MinutesPerHour \in Nat \ {0} /\ HoursPerDay \in Nat \ {0} /\ DayLength \in Nat \ {0}
  /\ Minute \in Nat \ {0} /\ LastMinute \in Nat \ {0}
<1>1. MinutesPerHour \in Nat \ {0} /\ HoursPerDay \in Nat \ {0} /\ Minute \in Nat \ {0}
      /\ LastMinute \in Nat \ {0}
  BY CalendarAssumption
<1>2. \A x, y \in Nat \ {0} : x * y \in Nat \ {0}
  OBVIOUS
<1>3. QED
  BY <1>1, <1>2 DEF DayLength

(* Without jumps the wall clock shows the minutes since the first.          *)
LEMMA Local ==
  ASSUME Jumps = {}, NEW n \in Nat
  PROVE  /\ LocalParts(n).minute = n % MinutesPerHour
         /\ LocalParts(n).hour = (n \div MinutesPerHour) % HoursPerDay
         /\ LocalParts(n).day = 1 + ((n \div DayLength) % MonthLength)
         /\ LocalParts(n).month = 1 + (((n \div DayLength) \div MonthLength) % MonthsPerYear)
         /\ LocalParts(n).weekday = (n \div DayLength) % WeekLength
<1>1. {j \in Jumps : j <= n} = {}
  OBVIOUS
<1>2. Cardinality({j \in Jumps : j <= n}) = 0
  BY <1>1, FS_EmptySet
<1>3. n + MinutesPerHour * Cardinality({j \in Jumps : j <= n}) = n
  BY <1>2, CalendarType
<1>4. QED
  BY <1>3 DEF LocalParts, DayLength

(* What is left of the day and of the hour.                                 *)
LEMMA DayLeft ==
  ASSUME Jumps = {}, NEW n \in Nat
  PROVE  /\ SkipDay(LocalParts(n)) = DayLength - (n % DayLength)
         /\ SkipHour(LocalParts(n)) = MinutesPerHour - (n % MinutesPerHour)
         /\ SkipDay(LocalParts(n)) \in Nat \ {0}
         /\ SkipHour(LocalParts(n)) \in Nat \ {0}
         /\ SkipHour(LocalParts(n)) <= SkipDay(LocalParts(n))
<1> DEFINE M == MinutesPerHour
           H == HoursPerDay
           m == n % M
           q == n \div M
           h == q % H
           d == q \div H
<1>1. M \in Nat \ {0} /\ H \in Nat \ {0} /\ DayLength \in Nat \ {0}
  BY CalendarType
<1> HIDE DEF M, H
<1>2. n = (M * q) + m /\ m \in 0..(M - 1) /\ q \in Int
  BY <1>1, DivMod
<1> HIDE DEF m, q
<1>3. q = (H * d) + h /\ h \in 0..(H - 1) /\ d \in Int
  BY <1>1, <1>2, DivMod
<1> HIDE DEF h, d
<1>4. n = ((M * H) * d) + ((M * h) + m)
  <2>1. M * ((H * d) + h) = ((M * H) * d) + (M * h)
    BY <1>1, <1>3
  <2>2. QED
    BY <1>1, <1>2, <1>3, <2>1
<1>5. M * h + M <= M * H /\ M * h \in Nat
  <2>1. h + 1 <= H /\ h \in Nat
    BY <1>1, <1>3
  <2>2. M * (h + 1) <= M * H
    BY <1>1, <2>1
  <2>3. M * (h + 1) = M * h + M
    BY <1>1, <2>1
  <2>4. M * h \in Nat
    BY <1>1, <2>1
  <2>5. QED
    BY <2>2, <2>3, <2>4
<1>6. DayLength = M * H
  BY DEF DayLength, M, H
<1>7. n % DayLength = (M * h) + m
  <2> DEFINE r == (M * h) + m
             L == M * H
  <2>1. L \in Nat \ {0} /\ r \in 0..(L - 1)
    BY <1>1, <1>2, <1>5, <1>6
  <2>2. n = (L * d) + r
    BY <1>4
  <2> HIDE DEF r, L
  <2>3. n % L = r
    BY <2>1, <2>2, <1>3, DivUnique
  <2>4. QED
    BY <2>3, <1>6 DEF r, L
<1>8. LocalParts(n).minute = m /\ LocalParts(n).hour = h
  BY Local DEF m, h, q, M, H
<1>9. SkipDay(LocalParts(n)) = M * H - (M * h + m) /\ SkipHour(LocalParts(n)) = M - m
  BY <1>8 DEF SkipDay, SkipHour, M, H
<1>10. M * H \in Nat
  BY <1>1, <1>6
<1>11. QED
  <2>1. M - m = MinutesPerHour - (n % MinutesPerHour)
    BY DEF m, M
  <2>2. QED
    BY <1>1, <1>2, <1>5, <1>6, <1>7, <1>9, <1>10, <2>1

-----------------------------------------------------------------------------
(* What the search passes over *)

(* No minute of a day that does not match does.                             *)
LEMMA DaySkipped ==
  ASSUME Jumps = {}, NEW s, NEW n \in Nat, NEW k \in 0..(SkipDay(LocalParts(n)) - 1),
         LocalParts(n).month \notin s.months \/ ~DayMatches(s, LocalParts(n))
  PROVE  ~Matches(s, n + k)
<1>1. k \in Nat /\ n + k \in Nat /\ k \in 0..((DayLength - (n % DayLength)) - 1)
  BY DayLeft
<1>2. (n + k) \div DayLength = n \div DayLength
  BY <1>1, CalendarType, SameQuotient
<1>3. /\ LocalParts(n + k).day = LocalParts(n).day
      /\ LocalParts(n + k).month = LocalParts(n).month
      /\ LocalParts(n + k).weekday = LocalParts(n).weekday
  <2>1. /\ LocalParts(n + k).day = 1 + (((n + k) \div DayLength) % MonthLength)
        /\ LocalParts(n + k).month =
             1 + ((((n + k) \div DayLength) \div MonthLength) % MonthsPerYear)
        /\ LocalParts(n + k).weekday = ((n + k) \div DayLength) % WeekLength
    BY <1>1, Local
  <2>2. /\ LocalParts(n).day = 1 + ((n \div DayLength) % MonthLength)
        /\ LocalParts(n).month = 1 + (((n \div DayLength) \div MonthLength) % MonthsPerYear)
        /\ LocalParts(n).weekday = (n \div DayLength) % WeekLength
    BY Local
  <2>3. QED
    BY <1>2, <2>1, <2>2
<1>4. DayMatches(s, LocalParts(n + k)) = DayMatches(s, LocalParts(n))
  BY <1>3 DEF DayMatches
<1>5. QED
  BY <1>3, <1>4 DEF Matches

(* No minute of an hour that does not match does.                           *)
LEMMA HourSkipped ==
  ASSUME Jumps = {}, NEW s, NEW n \in Nat, NEW k \in 0..(SkipHour(LocalParts(n)) - 1),
         LocalParts(n).hour \notin s.hours
  PROVE  ~Matches(s, n + k)
<1>1. k \in Nat /\ n + k \in Nat /\ k \in 0..((MinutesPerHour - (n % MinutesPerHour)) - 1)
  BY DayLeft
<1>2. (n + k) \div MinutesPerHour = n \div MinutesPerHour
  BY <1>1, CalendarType, SameQuotient
<1>3. LocalParts(n + k).hour = LocalParts(n).hour
  <2>1. LocalParts(n + k).hour = ((n + k) \div MinutesPerHour) % HoursPerDay
    BY <1>1, Local
  <2>2. LocalParts(n).hour = (n \div MinutesPerHour) % HoursPerDay
    BY Local
  <2>3. QED
    BY <1>2, <2>1, <2>2
<1>4. QED
  BY <1>3 DEF Matches

(* The first match from a minute on.                                        *)
Later(s, n) == {m \in n..LastMinute : Matches(s, m)}

FirstFrom(s, n) ==
  IF Later(s, n) = {} THEN Never
  ELSE Minute * (CHOOSE m \in Later(s, n) : \A j \in Later(s, n) : m <= j)

(* Minutes that do not match change nothing about the first that does.      *)
LEMMA FirstSkips ==
  ASSUME NEW s, NEW n \in Nat, NEW k \in Nat, \A j \in 0..(k - 1) : ~Matches(s, n + j)
  PROVE  FirstFrom(s, n) = FirstFrom(s, n + k)
<1>1. ASSUME NEW m \in n..LastMinute, Matches(s, m)
      PROVE  m \in (n + k)..LastMinute
  <2>1. LastMinute \in Int
    BY CalendarType
  <2>2. m - n \in Nat /\ n + (m - n) = m
    BY <2>1
  <2>3. m - n \notin 0..(k - 1)
    BY <1>1, <2>2
  <2>4. QED
    BY <2>1, <2>2, <2>3
<1>2. (n + k)..LastMinute \subseteq n..LastMinute
  BY CalendarType
<1>3. Later(s, n) = Later(s, n + k)
  BY <1>1, <1>2 DEF Later
<1>4. QED
  BY <1>3 DEF FirstFrom

(* A minute that matches is the first from there on.                        *)
LEMMA FirstIsHere ==
  ASSUME NEW s, NEW n \in Nat, n <= LastMinute, Matches(s, n)
  PROVE  FirstFrom(s, n) = Minute * n
<1> DEFINE L == Later(s, n)
           Least(m) == m \in L /\ \A j \in L : m <= j
<1>1. LastMinute \in Int
  BY CalendarType
<1>2. n \in L /\ \A j \in L : j \in Int /\ n <= j
  BY <1>1 DEF Later
<1> HIDE DEF L
<1>3. Least(n)
  BY <1>2
<1>4. \A m \in L : (\A j \in L : m <= j) => m = n
  BY <1>2
<1>5. (CHOOSE m \in L : \A j \in L : m <= j) = n
  BY <1>3, <1>4
<1>6. QED
  BY <1>2, <1>5 DEF FirstFrom, L

(* Beyond the bound nothing matches.                                        *)
LEMMA FirstBeyond ==
  ASSUME NEW s, NEW n \in Nat, n > LastMinute
  PROVE  FirstFrom(s, n) = Never
<1>1. n..LastMinute = {}
  BY CalendarType
<1>2. QED
  BY <1>1 DEF FirstFrom, Later

-----------------------------------------------------------------------------
(* The search *)

(* One step of the search that goes on with f.                              *)
SearchStep(s, f, minute) ==
  LET p == LocalParts(minute) IN
  IF minute > LastMinute THEN Never
  ELSE IF p.month \notin s.months \/ ~DayMatches(s, p) THEN f[minute + SkipDay(p)]
  ELSE IF p.hour \notin s.hours THEN f[minute + SkipHour(p)]
  ELSE IF p.minute \notin s.minutes THEN f[minute + 1]
  ELSE Minute * minute

First(s) == [n \in Nat |-> FirstFrom(s, n)]

(* The first match satisfies the steps of the search.                       *)
LEMMA FirstSolves ==
  ASSUME Jumps = {}, NEW s, NEW n \in Nat
  PROVE  FirstFrom(s, n) = SearchStep(s, First(s), n)
<1> DEFINE p == LocalParts(n)
<1>1. SkipDay(p) \in Nat \ {0} /\ SkipHour(p) \in Nat \ {0} /\ LastMinute \in Nat
  BY DayLeft, CalendarType
<1>2. \A k \in Nat : First(s)[n + k] = FirstFrom(s, n + k)
  BY DEF First
<1>3. CASE n > LastMinute
  BY <1>3, FirstBeyond DEF SearchStep
<1>4. CASE ~(n > LastMinute) /\ (p.month \notin s.months \/ ~DayMatches(s, p))
  <2>1. \A j \in 0..(SkipDay(p) - 1) : ~Matches(s, n + j)
    BY <1>4, DaySkipped
  <2>2. FirstFrom(s, n) = FirstFrom(s, n + SkipDay(p))
    BY <1>1, <2>1, FirstSkips
  <2>3. QED
    BY <1>1, <1>2, <1>4, <2>2 DEF SearchStep
<1>5. CASE /\ ~(n > LastMinute) /\ ~(p.month \notin s.months \/ ~DayMatches(s, p))
           /\ p.hour \notin s.hours
  <2>1. \A j \in 0..(SkipHour(p) - 1) : ~Matches(s, n + j)
    BY <1>5, HourSkipped
  <2>2. FirstFrom(s, n) = FirstFrom(s, n + SkipHour(p))
    BY <1>1, <2>1, FirstSkips
  <2>3. QED
    BY <1>1, <1>2, <1>5, <2>2 DEF SearchStep
<1>6. CASE /\ ~(n > LastMinute) /\ ~(p.month \notin s.months \/ ~DayMatches(s, p))
           /\ p.hour \in s.hours /\ p.minute \notin s.minutes
  <2>1. ~Matches(s, n)
    BY <1>6 DEF Matches
  <2>2. \A j \in 0..(1 - 1) : ~Matches(s, n + j)
    BY <2>1
  <2>3. FirstFrom(s, n) = FirstFrom(s, n + 1)
    BY <2>2, FirstSkips
  <2>4. QED
    BY <1>2, <1>6, <2>3 DEF SearchStep
<1>7. CASE /\ ~(n > LastMinute) /\ ~(p.month \notin s.months \/ ~DayMatches(s, p))
           /\ p.hour \in s.hours /\ p.minute \in s.minutes
  <2>1. Matches(s, n) /\ n <= LastMinute
    BY <1>1, <1>7 DEF Matches
  <2>2. FirstFrom(s, n) = Minute * n
    BY <2>1, FirstIsHere
  <2>3. QED
    BY <1>7, <2>2 DEF SearchStep
<1>8. QED
  BY <1>3, <1>4, <1>5, <1>6, <1>7

(* The steps of the search lead on, so that they have one solution.         *)
LEMMA OneSolution ==
  ASSUME Jumps = {}, NEW s, NEW f, f = [n \in Nat |-> SearchStep(s, f, n)]
  PROVE  f = First(s)
<1> DEFINE g == First(s)
           T == {n \in 0..LastMinute : f[n] # g[n]}
<1>1. \A n \in Nat : f[n] = SearchStep(s, f, n)
  OBVIOUS
<1>2. \A n \in Nat : g[n] = SearchStep(s, g, n)
  BY FirstSolves DEF First
<1>3. \A n \in Nat : n > LastMinute => f[n] = g[n]
  BY <1>1, <1>2 DEF SearchStep
<1>4. SUFFICES T = {}
  <2>1. \A n \in Nat : f[n] = g[n]
    BY <1>3, <1>4, CalendarType
  <2>2. f = [n \in Nat |-> f[n]]
    OBVIOUS
  <2>3. g = [n \in Nat |-> g[n]]
    BY DEF First
  <2> HIDE DEF g
  <2>4. QED
    BY <2>1, <2>2, <2>3 DEF g
<1>5. SUFFICES ASSUME T # {}
               PROVE  FALSE
  OBVIOUS
<1>6. PICK m \in T : \A y \in T : y <= m
  <2> HIDE DEF T
  <2>1. LastMinute \in Nat /\ T \in SUBSET (0..LastMinute)
    BY CalendarType DEF T
  <2>2. QED
    BY <1>5, <2>1, BoundedMax
<1>7. m \in Nat /\ m \in 0..LastMinute /\ f[m] # g[m] /\ LastMinute \in Nat
  BY <1>6, CalendarType
<1>8. \A k \in Nat \ {0} : f[m + k] = g[m + k]
  <2>1. SUFFICES ASSUME NEW k \in Nat \ {0}, f[m + k] # g[m + k]
                 PROVE  FALSE
    OBVIOUS
  <2>2. m + k \in Nat /\ ~(m + k <= m)
    BY <1>7
  <2>3. m + k \notin T
    BY <1>6, <2>2
  <2>4. QED
    BY <1>3, <1>7, <2>1, <2>2, <2>3
<1>9. SkipDay(LocalParts(m)) \in Nat \ {0} /\ SkipHour(LocalParts(m)) \in Nat \ {0}
      /\ 1 \in Nat \ {0}
  BY <1>7, DayLeft
<1> HIDE DEF g
<1>10. SearchStep(s, f, m) = SearchStep(s, g, m)
  BY <1>8, <1>9 DEF SearchStep
<1>11. QED
  BY <1>1, <1>2, <1>7, <1>10

(* nextCronTime finds the first match from the next minute on.              *)
LEMMA SearchIsFirst ==
  ASSUME Jumps = {}, NEW s, NEW after
  PROVE  NextCronTime(s, after) = First(s)[(after \div Minute) + 1]
<1>1. First(s) = [n \in Nat |-> SearchStep(s, First(s), n)]
  BY FirstSolves DEF First
<1>2. \A f : f = [n \in Nat |-> SearchStep(s, f, n)] => f = First(s)
  BY OneSolution
<1> DEFINE g == First(s)
<1>3. g = [n \in Nat |-> SearchStep(s, g, n)] /\
      \A f : f = [n \in Nat |-> SearchStep(s, f, n)] => f = g
  BY <1>1, <1>2
<1> HIDE DEF g
<1>4. NextCronTime(s, after) = g[(after \div Minute) + 1]
  BY <1>3 DEF NextCronTime, SearchStep
<1>5. QED
  BY <1>4 DEF g

(* The first match from a minute on is the reference's first match after    *)
(* any instant of the minute before.                                        *)
LEMMA FirstIsReference ==
  ASSUME NEW s, NEW after \in Int, after >= -1
  PROVE  First(s)[(after \div Minute) + 1] = FirstMatchAfter(s, after)
<1> DEFINE b == Minute
           n == (after \div b) + 1
           L == Later(s, n)
           R == {i \in MatchingInstants(s) : i > after}
<1>1. b \in Nat \ {0} /\ LastMinute \in Nat
  BY CalendarType
<1> HIDE DEF b
<1>2. after = (b * (after \div b)) + (after % b) /\ after % b \in 0..(b - 1) /\ after \div b \in Int
  BY <1>1, DivMod
<1>3. after \div b >= -1
  <2>1. CASE after = -1
    <3>1. -1 = b * (-1) + (b - 1) /\ b - 1 \in 0..(b - 1)
      BY <1>1
    <3>2. QED
      BY <1>1, <2>1, <3>1, DivUnique
  <2>2. CASE after \in Nat
    BY <1>1, <2>2
  <2>3. QED
    BY <2>1, <2>2
<1>4. n \in Nat
  BY <1>2, <1>3
<1>5. ASSUME NEW x \in Nat, NEW y \in Nat
      PROVE  (x <= y => b * x <= b * y) /\ (x < y => b * x + b <= b * y) /\ b * x \in Nat
  <2>1. b * x \in Nat
    BY <1>1
  <2>2. x <= y => b * x <= b * y
    BY <1>1
  <2>3. ASSUME x < y
        PROVE  b * x + b <= b * y
    <3>1. x + 1 <= y /\ x + 1 \in Nat
      BY <2>3
    <3>2. b * (x + 1) <= b * y
      BY <1>1, <3>1
    <3>3. b * (x + 1) = b * x + b
      BY <1>1
    <3>4. QED
      BY <3>2, <3>3
  <2>4. QED
    BY <2>1, <2>2, <2>3
<1> DEFINE q == after \div b
           r == after % b
<1>6. after = b * q + r /\ r \in 0..(b - 1) /\ q \in Int /\ q >= -1 /\ n = q + 1
  BY <1>2, <1>3
<1> HIDE DEF q, r, n
<1>7. \A m \in Nat : b * m > after <=> n <= m
  <2>1. SUFFICES ASSUME NEW m \in Nat
                 PROVE  b * m > after <=> n <= m
    OBVIOUS
  <2>2. CASE m <= q
    <3>1. b * m <= b * q /\ b * m \in Nat /\ b * q \in Nat
      <4>1. q \in Nat
        BY <1>6, <2>2
      <4>2. QED
        BY <1>5, <2>2, <4>1
    <3>2. QED
      BY <1>1, <1>6, <2>2, <3>1
  <2>3. CASE q < m /\ q \in Nat
    <3>1. b * q + b <= b * m /\ b * m \in Nat /\ b * q \in Nat
      BY <1>5, <2>3
    <3>2. QED
      BY <1>1, <1>6, <2>3, <3>1
  <2>4. CASE q = -1
    <3>1. b * m \in Nat /\ b * q = -b
      BY <1>1, <1>5, <2>4
    <3>2. QED
      BY <1>1, <1>6, <2>4, <3>1
  <2>5. QED
    BY <1>6, <2>2, <2>3, <2>4
<1>8. R = {b * m : m \in L}
  <2>1. MatchingInstants(s) = {b * m : m \in {k \in 0..LastMinute : Matches(s, k)}}
    BY DEF MatchingInstants, b
  <2>2. L = {m \in {k \in 0..LastMinute : Matches(s, k)} : n <= m}
    BY <1>1, <1>4, <1>6 DEF Later
  <2>3. \A m \in {k \in 0..LastMinute : Matches(s, k)} : m \in Nat /\ (b * m > after <=> n <= m)
    BY <1>1, <1>7
  <2> DEFINE K == {k \in 0..LastMinute : Matches(s, k)}
  <2> HIDE DEF K, L
  <2>4. \A i : i \in R <=> \E m \in K : i = b * m /\ n <= m
    BY <2>1, <2>3 DEF K
  <2>5. \A i : i \in {b * m : m \in L} <=> \E m \in K : i = b * m /\ n <= m
    BY <2>2 DEF K
  <2> HIDE DEF R
  <2>6. QED
    BY <2>4, <2>5
<1>9. First(s)[n] = FirstFrom(s, n)
  BY <1>4, <1>6 DEF First
<1>10. CASE L = {}
  <2>1. R = {}
    BY <1>8, <1>10
  <2>2. FirstFrom(s, n) = Never
    BY <1>10 DEF FirstFrom
  <2>3. FirstMatchAfter(s, after) = Never
    BY <2>1 DEF FirstMatchAfter
  <2>4. QED
    BY <1>9, <2>2, <2>3 DEF n, q, b
<1>11. CASE L # {}
  <2>1. L \subseteq Nat
    BY <1>1, <1>4, <1>6 DEF Later
  <2> HIDE DEF L, R
  <2> DEFINE c == CHOOSE m \in L : \A j \in L : m <= j
  <2>2. c \in L /\ \A j \in L : c <= j
    <3>1. \E m \in L : \A j \in L : m <= j
      BY <1>11, <2>1, NatMin
    <3>2. QED
      BY <3>1
  <2> HIDE DEF c
  <2>3. b * c \in R /\ \A i \in R : b * c <= i /\ i \in Nat
    BY <1>5, <1>8, <2>1, <2>2
  <2>4. \A i \in R : (\A j \in R : i <= j) => i = b * c
    BY <2>1, <2>2, <2>3
  <2>5. (CHOOSE i \in R : \A j \in R : i <= j) = b * c
    BY <2>3, <2>4
  <2>6. R # {}
    BY <2>3
  <2>7. FirstMatchAfter(s, after) = b * c
    BY <2>5, <2>6 DEF FirstMatchAfter, R
  <2>8. FirstFrom(s, n) = b * c
    BY <1>11 DEF FirstFrom, L, c, b
  <2>9. QED
    BY <1>9, <2>7, <2>8 DEF n, q, b
<1>12. QED
  BY <1>10, <1>11

(* The search for the next instant finds the first one, for every calendar, *)
(* every expression, valid or not, and every instant to search from, in a   *)
(* zone without daylight saving.                                            *)
THEOREM SearchFindsFirst == Jumps = {} => (Spec => []NextIsFirst)
<1>1. SUFFICES ASSUME Jumps = {}
               PROVE  Spec => []NextIsFirst
  OBVIOUS
<1>2. NextIsFirst
  <2>1. SUFFICES ASSUME NEW s, NEW after \in 0..(Minute * LastMinute)
                 PROVE  NextCronTime(s, after) = FirstMatchAfter(s, after)
    BY DEF NextIsFirst
  <2>2. after \in Nat
    BY CalendarType
  <2>3. QED
    BY <1>1, <2>2, SearchIsFirst, FirstIsReference
<1>3. QED
  BY <1>2, PTL

-----------------------------------------------------------------------------
(* Catching up *)

(* The clock stops before the search does.                                  *)
LEMMA BoundsType ==
  Horizon \in Nat /\ LastInstant \in Nat /\ Horizon < Never /\ Never \in Nat
<1>1. Minute * LastMinute \in Nat /\ Minute * (LastMinute + 1) = (Minute * LastMinute) + Minute
  BY CalendarType
<1>2. QED
  BY <1>1, CalendarType, ScheduleAssumption DEF Never

(* Next1 gives the next instant, if one is in sight.                        *)
LEMMA NextInstant ==
  ASSUME Jumps = {}, NEW a \in Int, a >= -1
  PROVE  /\ Next1(a) \in Nat
         /\ Next1(a) <= Horizon => Next1(a) \in Instant /\ a < Next1(a)
         /\ \A x \in Instant : a < x => /\ Next1(a) \in Instant
                                      /\ a < Next1(a) /\ Next1(a) <= x
<1> DEFINE R == {i \in MatchingInstants(Cron) : i > a}
<1>1. Next1(a) = IF R = {} THEN Never ELSE CHOOSE i \in R : \A j \in R : i <= j
  <2>1. NextCronTime(Cron, a) = FirstMatchAfter(Cron, a)
    BY SearchIsFirst, FirstIsReference
  <2>2. QED
    BY <2>1 DEF Next1, FirstMatchAfter
<1>2. MatchingInstants(Cron) \subseteq Nat
  <2>1. \A m \in Nat : Minute * m \in Nat
    BY CalendarType
  <2>2. QED
    BY <2>1 DEF MatchingInstants
<1>3. R \subseteq Nat
  BY <1>2
<1>4. Instant = {i \in MatchingInstants(Cron) : i <= LastInstant}
  BY DEF Instant
<1>5. \E x \in Instant : x > Horizon
  BY <1>4, EndlessAssumption, <1>2, BoundsType DEF Cron
<1> HIDE DEF R
<1>6. CASE R = {}
  <2>1. Next1(a) = Never
    BY <1>1, <1>6
  <2>2. ~ \E x \in Instant : a < x
    BY <1>2, <1>4, <1>6 DEF R
  <2>3. QED
    BY <2>1, <2>2, BoundsType
<1>7. CASE R # {}
  <2>1. \E i \in R : \A j \in R : i <= j
    BY <1>3, <1>7, NatMin
  <2>2. Next1(a) \in R /\ \A j \in R : Next1(a) <= j
    BY <1>1, <1>7, <2>1
  <2> DEFINE k == Next1(a)
  <2> HIDE DEF k
  <2>3. k \in R /\ \A j \in R : k <= j
    BY <2>2 DEF k
  <2>4. k \in MatchingInstants(Cron) /\ k > a /\ k \in Nat
    BY <1>3, <2>3 DEF R
  <2>5. k <= LastInstant => k \in Instant
    BY <1>4, <2>4
  <2>6. k <= Horizon => k \in Instant
    BY <1>2, <1>4, <1>5, <2>4, <2>5, BoundsType
  <2>7. ASSUME NEW x \in Instant, a < x
        PROVE  k <= x /\ k \in Instant
    <3>1. x \in R /\ x <= LastInstant
      BY <1>2, <1>4, <2>7 DEF R
    <3>2. k <= x /\ x \in Nat
      BY <1>3, <2>3, <3>1
    <3>3. QED
      BY <2>4, <2>5, <3>1, <3>2, BoundsType
  <2>8. QED
    BY <2>4, <2>6, <2>7 DEF k
<1>8. QED
  BY <1>6, <1>7

(* The last instant until now.                                              *)
Last(now) ==
  LET past == {x \in Instant : x <= now} IN CHOOSE m \in past : \A y \in past : y <= m

(* There is a last instant once one has come.                               *)
LEMMA LastIsLast ==
  ASSUME NEW now \in 0..Horizon, NEW x \in Instant, x <= now
  PROVE  Last(now) \in Instant /\ Last(now) <= now /\ \A y \in Instant : y <= now => y <= Last(now)
<1> DEFINE T == {i \in Instant : i <= now}
<1>1. T \in SUBSET (0..now) /\ T # {} /\ now \in Nat
  <2>1. now \in Nat
    BY BoundsType
  <2>2. \A i \in T : i \in Nat /\ i <= now
    BY InstantsAreNaturals
  <2>3. x \in T
    OBVIOUS
  <2> HIDE DEF T
  <2>4. QED
    BY <2>1, <2>2, <2>3
<1> HIDE DEF T
<1>2. \E m \in T : \A y \in T : y <= m
  BY <1>1, BoundedMax
<1>3. Last(now) \in T /\ \A y \in T : y <= Last(now)
  <2>1. Last(now) = CHOOSE m \in T : \A y \in T : y <= m
    BY DEF Last, T
  <2>2. QED
    BY <1>2, <2>1
<1>4. QED
  BY <1>3 DEF T

(* latestInstantUntil goes from instant to instant to the last one.         *)
LEMMA LatestIsLast ==
  ASSUME Jumps = {}, NEW now \in 0..Horizon, NEW first \in Instant, first <= now
  PROVE  LatestUntil(first, now) = Last(now)
<1> DEFINE g == [i \in Nat |-> IF Next1(i) > now THEN i ELSE Last(now)]
<1>1. now \in Nat /\ now <= Horizon /\ Horizon \in Nat /\ Instant \subseteq Nat
  BY BoundsType, InstantsAreNaturals
<1>2. ASSUME NEW i \in Nat
      PROVE  /\ Next1(i) \in Nat
             /\ Next1(i) <= now => Next1(i) \in Instant /\ i < Next1(i)
             /\ \A x \in Instant : i < x => Next1(i) <= x
  <2>1. i \in Int /\ i >= -1
    OBVIOUS
  <2>2. QED
    BY <1>1, <2>1, NextInstant
<1>3. /\ Last(now) \in Instant /\ Last(now) <= now
      /\ \A y \in Instant : y <= now => y <= Last(now)
  BY LastIsLast
<1> DEFINE l == Last(now)
<1> HIDE DEF l
<1>4. \A i \in Instant : i <= now /\ Next1(i) > now => i = l
  <2>1. SUFFICES ASSUME NEW i \in Instant, i <= now, Next1(i) > now, i # l
                 PROVE  FALSE
    OBVIOUS
  <2>2. l \in Instant /\ l <= now /\ i <= l
    BY <1>3, <2>1 DEF l
  <2>3. i \in Nat /\ l \in Nat
    BY <1>1, <2>2
  <2>4. i < l
    BY <2>1, <2>2, <2>3
  <2>5. Next1(i) <= l /\ Next1(i) \in Nat
    BY <1>2, <2>2, <2>3, <2>4
  <2>6. QED
    BY <1>1, <2>1, <2>2, <2>3, <2>5
<1>5. \A i \in Nat : g[i] = IF Next1(i) > now THEN i ELSE g[Next1(i)]
  <2>1. SUFFICES ASSUME NEW i \in Nat
                 PROVE  g[i] = IF Next1(i) > now THEN i ELSE g[Next1(i)]
    OBVIOUS
  <2>2. CASE Next1(i) > now
    BY <2>2
  <2>3. CASE ~(Next1(i) > now)
    <3>1. Next1(i) \in Nat /\ Next1(i) <= now /\ Next1(i) \in Instant
      BY <1>1, <1>2, <2>3
    <3>2. g[i] = l
      BY <2>3 DEF l
    <3> DEFINE k == Next1(i)
    <3> HIDE DEF k
    <3>3. k \in Nat /\ k <= now /\ k \in Instant
      BY <3>1 DEF k
    <3>4. g[k] = IF Next1(k) > now THEN k ELSE l
      BY <3>3 DEF l
    <3>5. g[k] = l
      BY <1>1, <1>2, <1>4, <3>3, <3>4
    <3>6. QED
      BY <2>3, <3>2, <3>5 DEF k
  <2>4. QED
    BY <2>2, <2>3
<1>6. ASSUME NEW f, f = [i \in Nat |-> IF Next1(i) > now THEN i ELSE f[Next1(i)]]
      PROVE  f = g
  <2> DEFINE T == {n \in 0..now : f[n] # g[n]}
  <2>1. \A i \in Nat : f[i] = IF Next1(i) > now THEN i ELSE f[Next1(i)]
    BY <1>6
  <2> HIDE DEF g
  <2>2. T = {}
    <3>1. SUFFICES ASSUME T # {}
                   PROVE  FALSE
      OBVIOUS
    <3>2. PICK m \in T : \A y \in T : y <= m
      <4> HIDE DEF T
      <4>1. T \in SUBSET (0..now)
        BY DEF T
      <4>2. QED
        BY <1>1, <3>1, <4>1, BoundedMax
    <3>3. m \in Nat /\ f[m] # g[m]
      BY <1>1, <3>2
    <3>4. CASE Next1(m) > now
      BY <1>5, <2>1, <3>3, <3>4
    <3>5. CASE ~(Next1(m) > now)
      <4>1. Next1(m) \in Nat /\ Next1(m) <= now /\ m < Next1(m)
        <5>1. Next1(m) \in Nat /\ (Next1(m) <= now => m < Next1(m))
          BY <1>2, <3>3
        <5>2. QED
          BY <1>1, <3>5, <5>1
      <4>2. f[Next1(m)] = g[Next1(m)]
        BY <1>1, <3>2, <3>3, <4>1
      <4>3. QED
        BY <1>5, <2>1, <3>3, <3>5, <4>2
    <3>6. QED
      BY <3>4, <3>5
  <2>3. \A n \in Nat : n > now => f[n] = g[n]
    <3>1. SUFFICES ASSUME NEW n \in Nat, n > now
                   PROVE  f[n] = g[n]
      OBVIOUS
    <3>2. Next1(n) \in Nat /\ (Next1(n) <= now => n < Next1(n))
      BY <1>2
    <3>3. Next1(n) > now
      BY <1>1, <3>1, <3>2
    <3>4. QED
      BY <1>5, <2>1, <3>3
  <2>4. \A n \in Nat : f[n] = g[n]
    BY <1>1, <2>2, <2>3
  <2>5. f = [n \in Nat |-> f[n]]
    BY <1>6
  <2>6. g = [n \in Nat |-> g[n]]
    BY DEF g
  <2>7. QED
    BY <2>4, <2>5, <2>6
<1>7. g = [i \in Nat |-> IF Next1(i) > now THEN i ELSE g[Next1(i)]]
  BY <1>5
<1> DEFINE G == g
<1> HIDE DEF G
<1>8. G = [i \in Nat |-> IF Next1(i) > now THEN i ELSE G[Next1(i)]] /\
      \A f : f = [i \in Nat |-> IF Next1(i) > now THEN i ELSE f[Next1(i)]] => f = G
  BY <1>6, <1>7 DEF G
<1>9. LatestUntil(first, now) = G[first]
  BY <1>8 DEF LatestUntil
<1>10. G[first] = Last(now)
  <2>1. G[first] = IF Next1(first) > now THEN first ELSE Last(now)
    BY <1>1 DEF G
  <2>2. Next1(first) > now => first = Last(now)
    BY <1>4 DEF l
  <2>3. QED
    BY <2>1, <2>2
<1>11. QED
  BY <1>9, <1>10

(* The schedule goes on beyond the bound of the clock.                      *)
LEMMA TwoBeyond == \E e1, e2 \in Instant : Horizon < e1 /\ e1 < e2
<1>1. PICK a \in MatchingInstants(Cron), b \in MatchingInstants(Cron) :
        Horizon < a /\ a < b /\ b <= LastInstant
  BY EndlessAssumption DEF Cron
<1>2. MatchingInstants(Cron) \subseteq Nat
  <2>1. \A m \in Nat : Minute * m \in Nat
    BY CalendarType
  <2>2. QED
    BY <2>1 DEF MatchingInstants
<1>3. a <= LastInstant
  BY <1>1, <1>2, BoundsType
<1>4. a \in Instant /\ b \in Instant
  BY <1>1, <1>3 DEF Instant
<1>5. QED
  BY <1>1, <1>4

(* There is always a next instant to wait for.                              *)
LEMMA NextInSight ==
  ASSUME Jumps = {}, NEW a \in Int, a >= -1, a <= Horizon
  PROVE  Next1(a) \in Instant
<1>1. PICK e1 \in Instant : Horizon < e1
  BY TwoBeyond
<1>2. e1 \in Nat /\ Horizon \in Nat
  BY InstantsAreNaturals, BoundsType
<1>3. QED
  BY <1>1, <1>2, NextInstant

(* What excuses that an instant that was due is passed over.                *)
Excused(x, now) ==
  \/ /\ row.catchUp = "latest_only"
     /\ \E j \in Instant : x < j /\ j <= now /\ trigger'[j] # "none"
  \/ row.catchUp = "all" /\ row.window # NoWindow /\ x < now - row.window

(* Every policy chooses an instant, and has its reason for each one before. *)
LEMMA CatchUpReasons ==
  ASSUME Jumps = {}, NEW now \in 0..Horizon, row.next \in Instant, row.next <= now,
         row.catchUp \in {"latest_only", "all"}, row.window \in Nat \cup {NoWindow}
  PROVE  LET i == CatchUpInstant(now) IN
         /\ i \in Instant
         /\ Next1(i) \in Instant
         /\ \A x \in Instant :
              row.next <= x /\ x < Next1(i) /\ x <= now /\ trigger'[x] = "none"
              /\ (i <= now => trigger'[i] # "none")
                => Excused(x, now)
<1> DEFINE i == CatchUpInstant(now)
<1>1. now \in Nat /\ now <= Horizon /\ Horizon \in Nat /\ Instant \subseteq Nat
      /\ row.next \in Nat
  <2>1. now \in Nat /\ now <= Horizon /\ Horizon \in Nat
    BY BoundsType
  <2>2. Instant \subseteq Nat
    BY InstantsAreNaturals
  <2>3. QED
    BY <2>1, <2>2
<1>2. PICK e1 \in Instant, e2 \in Instant : Horizon < e1 /\ e1 < e2
  BY TwoBeyond
<1>3. CASE row.catchUp = "latest_only"
  <2>1. i = Last(now)
    <3>1. i = LatestUntil(row.next, now)
      BY <1>3 DEF CatchUpInstant
    <3>2. QED
      BY <3>1, LatestIsLast
  <2>2. i \in Instant /\ i <= now /\ \A y \in Instant : y <= now => y <= i
    BY <2>1, LastIsLast
  <2> HIDE DEF i
  <2>3. i \in Nat /\ i < e1
    BY <1>1, <1>2, <2>2
  <2>4. Next1(i) \in Instant
    BY <1>2, <2>3, NextInstant
  <2>5. ASSUME NEW x \in Instant, x <= now, trigger'[x] = "none", trigger'[i] # "none"
        PROVE  Excused(x, now)
    <3>1. x <= i /\ x # i /\ x \in Nat
      BY <1>1, <2>2, <2>5
    <3>2. x < i
      BY <2>3, <3>1
    <3>3. QED
      BY <1>3, <2>2, <2>5, <3>2 DEF Excused
  <2>6. QED
    BY <2>2, <2>4, <2>5 DEF i
<1>4. CASE i = row.next /\ row.catchUp # "latest_only"
  <2>1. i \in Instant /\ i \in Nat /\ i <= now /\ i < e1
    BY <1>1, <1>2, <1>4
  <2> HIDE DEF i
  <2>2. Next1(i) \in Instant /\ \A x \in Instant : i < x => Next1(i) <= x
    BY <1>2, <2>1, NextInstant
  <2>3. ASSUME NEW x \in Instant, row.next <= x, x < Next1(i)
        PROVE  x = i
    <3>1. Next1(i) \in Nat /\ x \in Nat
      BY <1>1, <2>2
    <3>2. ~(i < x)
      BY <2>2, <2>3, <3>1
    <3>3. QED
      BY <1>4, <2>1, <2>3, <3>1, <3>2
  <2>4. QED
    BY <2>1, <2>2, <2>3 DEF i
<1>5. CASE /\ row.catchUp = "all" /\ row.window # NoWindow /\ row.next < now - row.window
           /\ i = Next1(now - row.window - 1)
  <2> DEFINE a == now - row.window - 1
  <2>1. row.window \in Nat
    BY <1>5
  <2>2. a \in Int /\ a >= -1 /\ a < e1
    BY <1>1, <1>2, <1>5, <2>1
  <2> HIDE DEF a
  <2>3. i = Next1(a)
    BY <1>5 DEF a
  <2>4. i \in Instant /\ i <= e1 /\ \A x \in Instant : a < x => i <= x
    BY <1>2, <2>2, <2>3, NextInstant
  <2> HIDE DEF i
  <2>5. i \in Nat /\ i < e2
    BY <1>1, <1>2, <2>4
  <2>6. Next1(i) \in Instant /\ \A x \in Instant : i < x => Next1(i) <= x
    BY <1>2, <2>5, NextInstant
  <2>7. ASSUME NEW x \in Instant, x < Next1(i), x <= now, trigger'[x] = "none",
               i <= now => trigger'[i] # "none"
        PROVE  Excused(x, now)
    <3>1. x \in Nat
      BY <1>1
    <3>2. CASE x < now - row.window
      BY <1>5, <3>2 DEF Excused
    <3>3. CASE ~(x < now - row.window)
      <4>1. a < x
        BY <1>1, <2>1, <3>1, <3>3 DEF a
      <4>2. i <= x
        BY <2>4, <4>1
      <4>3. x = i
        <5>1. Next1(i) \in Nat
          BY <1>1, <2>6
        <5>2. ~(i < x)
          BY <2>6, <2>7, <3>1, <5>1
        <5>3. QED
          BY <2>5, <3>1, <4>2, <5>2
      <4>4. QED
        BY <2>7, <4>3
    <3>4. QED
      BY <3>2, <3>3
  <2>8. QED
    BY <2>4, <2>6, <2>7 DEF i
<1>6. \/ row.catchUp = "latest_only"
      \/ i = row.next /\ row.catchUp # "latest_only"
      \/ /\ row.catchUp = "all" /\ row.window # NoWindow /\ row.next < now - row.window
         /\ i = Next1(now - row.window - 1)
  BY DEF CatchUpInstant
<1>7. QED
  BY <1>3, <1>4, <1>5, <1>6


(* What a step leaves of the readings of the clock.                         *)
Readings ==
  \A o \in Manager : /\ mgr'[o].now \in {mgr[o].now, 0, Reading(o)}
                     /\ clock'[o] \in {clock[o], 0, Reading(o)}

(* A tick reads the clock,                                                  *)
LEMMA TickReads ==
  ASSUME SchedType, NEW m \in Manager, TickFrom(m)
  PROVE  Readings
<1> DEFINE r == Reading(m)
<1>1. mgr' = [mgr EXCEPT ![m] = [Idle EXCEPT !.pc = "drain", !.now = r]]
      /\ clock' = [clock EXCEPT ![m] = r]
  BY DEF TickFrom
<1> HIDE DEF r
<1>2. mgr'[m].now = r /\ clock'[m] = r
      /\ \A o \in Manager : o # m => mgr'[o] = mgr[o] /\ clock'[o] = clock[o]
  BY <1>1 DEF SchedType, Idle
<1>3. QED
  BY <1>2 DEF Readings, r

(* the end of a pass forgets what was read,                                 *)
LEMMA IdleReads ==
  ASSUME SchedType, NEW m \in Manager, mgr' = [mgr EXCEPT ![m] = Idle],
         \A o \in Manager : clock'[o] \in {clock[o], 0}
  PROVE  Readings
<1>1. mgr'[m].now = 0 /\ \A o \in Manager : o # m => mgr'[o] = mgr[o]
  BY DEF SchedType, Idle
<1>2. QED
  BY <1>1 DEF Readings

(* and handling a trigger may do either or nothing.                         *)
LEMMA HandledReads ==
  ASSUME SchedType, NEW m \in Manager, NEW fired \in Int, Handled(m, fired)
  PROVE  Readings
<1>1. CASE mgr[m].handled + 1 < BatchSize
  BY <1>1 DEF Handled, SchedType, Readings
<1>2. CASE ~(mgr[m].handled + 1 < BatchSize)
  <2>1. CASE TickFrom(m)
    BY <2>1, TickReads
  <2>2. CASE mgr' = [mgr EXCEPT ![m] = Idle] /\ UNCHANGED clock
    BY <2>2, IdleReads
  <2>3. QED
    BY <1>2, <2>1, <2>2 DEF Handled, EndTick
<1>3. QED
  BY <1>1, <1>2

(* No step does anything else with the readings.                            *)
LEMMA ReadingsStep ==
  ASSUME SchedInv, [Next]_vars
  PROVE  Readings
<1>1. SchedType
  BY DEF SchedInv
<1>2. CASE UNCHANGED <<mgr, clock>>
  BY <1>2 DEF Readings
<1>3. ASSUME NEW m \in Manager, ManagerStep(m)
      PROVE  Readings
  <2>1. CASE BeginTick(m)
    BY <1>1, <2>1, TickReads DEF BeginTick
  <2>2. CASE DrainLock(m)
    BY <1>1, <2>2 DEF DrainLock, Goto, SchedType, Readings
  <2>3. CASE DrainCommit(m)
    BY <1>1, <2>3 DEF DrainCommit, SchedType, Readings
  <2>4. CASE FireLock(m)
    BY <1>1, <2>4 DEF FireLock, Goto, SchedType, Readings
  <2>5. CASE FireCommit(m)
    <3>1. CASE Goto(m, "check") /\ UNCHANGED clock
      BY <1>1, <3>1 DEF Goto, SchedType, Readings
    <3>2. CASE Handled(m, 1)
      BY <1>1, <3>2, HandledReads
    <3>3. QED
      BY <2>5, <3>1, <3>2 DEF FireCommit
  <2>6. CASE CheckRemaining(m)
    <3>1. CASE Handled(m, 0)
      BY <1>1, <3>1, HandledReads
    <3>2. CASE TickFrom(m)
      BY <1>1, <3>2, TickReads
    <3>3. CASE mgr' = [mgr EXCEPT ![m] = Idle] /\ UNCHANGED clock
      BY <1>1, <3>3, IdleReads
    <3>4. QED
      BY <2>6, <3>1, <3>2, <3>3 DEF CheckRemaining, EndTick
  <2>7. QED
    BY <1>3, <2>1, <2>2, <2>3, <2>4, <2>5, <2>6 DEF ManagerStep
<1>4. ASSUME NEW m \in Manager, PassFails(m) \/ Restart(m)
      PROVE  Readings
  <2>1. mgr' = [mgr EXCEPT ![m] = Idle] /\ \A o \in Manager : clock'[o] \in {clock[o], 0}
    BY <1>1, <1>4 DEF PassFails, Restart, SchedType
  <2>2. QED
    BY <1>1, <2>1, IdleReads
<1>5. ASSUME NEW m \in Manager, NEW startAt, Resume(m) \/ Create(m, startAt)
      PROVE  Readings
  <2>1. UNCHANGED mgr /\ clock' = [clock EXCEPT ![m] = Reading(m)]
    BY <1>5 DEF Resume, Create
  <2> DEFINE r == Reading(m)
  <2>2. r = Reading(m)
    OBVIOUS
  <2> HIDE DEF r
  <2>3. clock'[m] = r /\ \A o \in Manager : o # m => clock'[o] = clock[o]
    BY <1>1, <2>1, <2>2 DEF SchedType
  <2>4. QED
    BY <2>1, <2>2, <2>3 DEF Readings
<1>6. QED
  <2>1. \/ UNCHANGED <<mgr, clock>>
        \/ \E m \in Manager : ManagerStep(m) \/ PassFails(m) \/ Restart(m) \/ Resume(m)
                              \/ \E startAt \in {-1, Reading(m)} : Create(m, startAt)
    BY DEF Next, vars, TimePasses, StepBack, Pause, ZoneLost, ZoneBack, Backfill,
           BackfillLock, BackfillCommit, CloseRun
  <2>2. QED
    BY <1>2, <1>3, <1>4, <1>5, <2>1

(* The clock, the policies and the next instant of the schedule.            *)
ClockInv ==
  /\ source \in 0..Horizon
  /\ clock \in [Manager -> 0..Horizon]
  /\ \A m \in Manager : mgr[m].now \in 0..Horizon

NextInv ==
  /\ row.next \in Instant \cup {None}
  /\ row.state = "ACTIVE" => row.next \in Instant
  /\ row.state \in {"ABSENT", "ACTIVE", "PAUSED", "ERRORED"}
  /\ row.catchUp \in {"latest_only", "all"}
  /\ row.window \in Nat \cup {NoWindow}

(* A manager fires an instant that is due.                                  *)
DueInv ==
  \A m \in Manager : mgr[m].pc = "firing" => Due(mgr[m].now)

CatchUpInv == ClockInv /\ NextInv /\ DueInv

(* What a manager reads is within the bound.                                *)
LEMMA ReadingInRange ==
  ASSUME ClockInv, NEW m \in Manager
  PROVE  Reading(m) \in 0..Horizon
BY DEF ClockInv, Reading

(* The clock stays within its bound.                                        *)
LEMMA ClockStep ==
  ASSUME SchedInv, ClockInv, [Next]_vars
  PROVE  ClockInv'
<1>1. Readings /\ clock' \in [Manager -> Int]
  BY ReadingsStep, TypeStep DEF SchedType
<1>2. source' \in 0..Horizon
  <2>1. \/ source' = source
        \/ source < Horizon /\ source' = source + 1
        \/ source' \in 0..(source - 1)
    BY DEF Next, vars, TimePasses, StepBack, ManagerStep, BeginTick, DrainLock, DrainCommit,
           FireLock, FireCommit, CheckRemaining, PassFails, Restart, Resume, Create, Pause,
           ZoneLost, ZoneBack, Backfill, BackfillLock, BackfillCommit, CloseRun
  <2>2. source \in 0..Horizon /\ Horizon \in Nat
    BY BoundsType DEF ClockInv
  <2>3. QED
    BY <2>1, <2>2
<1>3. 0 \in 0..Horizon
  BY BoundsType
<1>4. \A m \in Manager : mgr'[m].now \in 0..Horizon /\ clock'[m] \in 0..Horizon
  BY <1>1, <1>3, ReadingInRange DEF Readings, ClockInv
<1>5. QED
  BY <1>1, <1>2, <1>4 DEF ClockInv

(* Who writes the row lets its lock go.                                     *)
RowWriter ==
  \/ \E m \in Manager : \/ DrainCommit(m) \/ FireCommit(m) \/ Resume(m)
                        \/ \E startAt \in {-1, Reading(m)} : Create(m, startAt)
  \/ Pause \/ BackfillCommit

(* The row changes in no other way.                                         *)
LEMMA RowWritten ==
  ASSUME SchedInv, [Next]_vars
  PROVE  row' = row \/ (RowWriter /\ lock' = Free)
<1>1. row' = row \/ RowWriter
  BY DEF RowWriter, Next, vars, tableVars, TimePasses, StepBack, ManagerStep, BeginTick,
         DrainLock, FireLock, CheckRemaining, PassFails, Restart, ZoneLost, ZoneBack,
         Backfill, BackfillLock, CloseRun
<1>2. RowWriter => lock' = Free
  BY DEF RowWriter, DrainCommit, FireCommit, Resume, Create, Pause, BackfillCommit,
         SchedInv, AbsentInv
<1>3. QED
  BY <1>1, <1>2

(* An active schedule knows its next instant.                               *)
LEMMA NextStep ==
  ASSUME Jumps = {}, SchedInv, CatchUpInv, [Next]_vars
  PROVE  NextInv'
<1>1. SchedType /\ ClockInv /\ NextInv /\ DueInv
  BY DEF SchedInv, CatchUpInv
<1>2. CASE row' = row
  BY <1>1, <1>2 DEF NextInv
<1>3. ASSUME NEW m \in Manager, DrainCommit(m)
      PROVE  NextInv'
  BY <1>1, <1>3 DEF DrainCommit, SchedType, NextInv
<1>4. ASSUME NEW m \in Manager, FireCommit(m)
      PROVE  NextInv'
  <2> DEFINE k == Next1(CatchUpInstant(mgr[m].now))
  <2>1. /\ mgr[m].now \in 0..Horizon
        /\ row.next \in Instant /\ row.next <= mgr[m].now
        /\ row.catchUp \in {"latest_only", "all"} /\ row.window \in Nat \cup {NoWindow}
    BY <1>1, <1>4 DEF FireCommit, ClockInv, NextInv, DueInv, Due
  <2>2. k \in Instant
    BY <2>1, CatchUpReasons
  <2>3. \/ row' = [row EXCEPT !.state = "ERRORED", !.next = None]
        \/ row' = [row EXCEPT !.next = k]
        \/ \E b \in Instant \cup {None} : row' = [row EXCEPT !.next = k, !.buffered = b]
    BY <1>4 DEF FireCommit, Errored
  <2> HIDE DEF k
  <2>4. QED
    BY <1>1, <2>2, <2>3 DEF SchedType, NextInv
<1>5. ASSUME NEW m \in Manager, Resume(m)
      PROVE  NextInv'
  <2> DEFINE k == Next1(Reading(m))
  <2>1. Reading(m) \in Int /\ Reading(m) >= -1 /\ Reading(m) <= Horizon
    BY <1>1, BoundsType, ReadingInRange
  <2>2. k \in Instant
    BY <2>1, NextInSight
  <2>3. \/ row' = [row EXCEPT !.state = "ERRORED", !.next = None]
        \/ row' = [row EXCEPT !.state = "ACTIVE", !.next = k]
    BY <1>5 DEF Resume, Errored
  <2> HIDE DEF k
  <2>4. QED
    BY <1>1, <2>2, <2>3 DEF SchedType, NextInv
<1>6. ASSUME NEW m \in Manager, NEW startAt \in {-1, Reading(m)}, Create(m, startAt)
      PROVE  NextInv'
  <2> DEFINE k == Next1(startAt)
  <2>1. Reading(m) \in Int /\ Reading(m) >= -1 /\ Reading(m) <= Horizon /\ Horizon \in Nat
    BY <1>1, BoundsType, ReadingInRange
  <2>2. startAt \in Int /\ startAt >= -1 /\ startAt <= Horizon
    BY <2>1
  <2>3. k \in Instant
    BY <2>2, NextInSight
  <2>4. \E o \in Overlaps, c \in CatchUps, w \in Windows :
          row' = [row EXCEPT !.state = "ACTIVE", !.next = k,
                             !.overlap = o, !.catchUp = c, !.window = w]
    BY <1>6 DEF Create
  <2> HIDE DEF k
  <2>5. QED
    BY <1>1, <2>3, <2>4, ScheduleAssumption DEF SchedType, NextInv
<1>7. ASSUME Pause
      PROVE  NextInv'
  BY <1>1, <1>7 DEF Pause, SchedType, NextInv
<1>8. ASSUME BackfillCommit
      PROVE  NextInv'
  BY <1>1, <1>8 DEF BackfillCommit, tableVars, SchedType, NextInv
<1>9. QED
  BY RowWritten, <1>2, <1>3, <1>4, <1>5, <1>6, <1>7, <1>8 DEF RowWriter

(* Only FireLock begins to fire, and it found something due.                *)
LEMMA FiringBegins ==
  ASSUME SchedInv, [Next]_vars, NEW m \in Manager, mgr'[m].pc = "firing"
  PROVE  mgr'[m].now = mgr[m].now /\ (mgr[m].pc = "firing" \/ Due(mgr[m].now))
<1>1. SchedType
  BY DEF SchedInv
<1>2. CASE UNCHANGED mgr
  BY <1>2
<1>3. ASSUME NEW p \in Manager, Moves(p)
      PROVE  mgr'[m] = mgr[m]
  BY <1>3 DEF Moves
<1>4. ASSUME NEW p \in Manager, DrainLock(p)
      PROVE  mgr'[m] = mgr[m]
  BY <1>1, <1>4 DEF DrainLock, Goto, SchedType
<1>5. ASSUME NEW p \in Manager, FireLock(p)
      PROVE  mgr'[m].now = mgr[m].now /\ (mgr[m].pc = "firing" \/ Due(mgr[m].now))
  BY <1>1, <1>5 DEF FireLock, Goto, SchedType
<1>6. ASSUME NEW p \in Manager, \/ BeginTick(p) \/ DrainCommit(p) \/ FireCommit(p)
                                \/ CheckRemaining(p) \/ PassFails(p) \/ Restart(p)
      PROVE  Moves(p)
  <2>1. CASE BeginTick(p)
    BY <1>1, <2>1, TickMoves DEF BeginTick
  <2>2. CASE DrainCommit(p)
    BY <2>2, DrainWrites
  <2>3. CASE FireCommit(p)
    BY <2>3, FireWrites
  <2>4. CASE CheckRemaining(p)
    <3>1. CASE Handled(p, 0)
      BY <1>1, <3>1, HandledMoves
    <3>2. CASE TickFrom(p)
      BY <1>1, <3>2, TickMoves
    <3>3. CASE mgr' = [mgr EXCEPT ![p] = Idle] /\ UNCHANGED clock
      BY <1>1, <3>3, IdleMoves DEF SchedType
    <3>4. QED
      BY <2>4, <3>1, <3>2, <3>3 DEF CheckRemaining, EndTick
  <2>5. CASE PassFails(p) \/ Restart(p)
    <3>1. clock' \in [Manager -> Int] /\ mgr' = [mgr EXCEPT ![p] = Idle]
      BY <1>1, <2>5 DEF PassFails, Restart, SchedType
    <3>2. QED
      BY <1>1, <3>1, IdleMoves
  <2>6. QED
    BY <1>6, <2>1, <2>2, <2>3, <2>4, <2>5
<1>7. \/ UNCHANGED mgr
      \/ \E p \in Manager : \/ DrainLock(p) \/ FireLock(p) \/ BeginTick(p) \/ DrainCommit(p)
                            \/ FireCommit(p) \/ CheckRemaining(p) \/ PassFails(p)
                            \/ Restart(p)
  BY DEF Next, vars, ManagerStep, TimePasses, StepBack, Pause, ZoneLost, ZoneBack,
         Backfill, BackfillLock, BackfillCommit, CloseRun, Resume, Create
<1>8. QED
  BY <1>2, <1>3, <1>4, <1>5, <1>6, <1>7

(* What the lock found due stays due until it is fired.                     *)
LEMMA DueStep ==
  ASSUME SchedInv, DueInv, [Next]_vars
  PROVE  DueInv'
<1>1. SchedType /\ LockInv'
  BY LockStep DEF SchedInv
<1>2. CASE lock' = Free
  <2>1. \A m \in Manager : mgr'[m].pc # "firing"
    BY <1>1, <1>2, Holders DEF LockInv
  <2>2. QED
    BY <2>1 DEF DueInv
<1>3. CASE lock' # Free
  <2>1. row' = row
    BY <1>3, RowWritten
  <2>2. ASSUME NEW m \in Manager, mgr'[m].pc = "firing"
        PROVE  mgr'[m].now = mgr[m].now /\ (mgr[m].pc = "firing" \/ Due(mgr[m].now))
    BY <2>2, FiringBegins
  <2>3. QED
    BY <2>1, <2>2 DEF DueInv, Due
<1>4. QED
  BY <1>2, <1>3


(* Nothing is due before the schedule is created.                           *)
LEMMA CatchUpInit == Init => CatchUpInv
BY BoundsType DEF Init, CatchUpInv, ClockInv, NextInv, DueInv, Idle

(* Without the zone's jumps the next instant is always known.               *)
THEOREM CatchUpInvariant == Jumps = {} => (Spec => [](SchedInv /\ CatchUpInv))
<1>1. SUFFICES ASSUME Jumps = {}
               PROVE  Spec => [](SchedInv /\ CatchUpInv)
  OBVIOUS
<1>2. SchedInv /\ CatchUpInv /\ [Next]_vars => CatchUpInv'
  BY <1>1, ClockStep, NextStep, DueStep DEF CatchUpInv
<1>3. CatchUpInv => NextInv /\ ClockInv
  BY DEF CatchUpInv
<1>4. QED
  BY SchedulesInvariant, CatchUpInit, <1>2, PTL DEF Spec

(* One firing of a manager.                                                 *)
LEMMA FiringExcused ==
  ASSUME Jumps = {}, SchedInv, CatchUpInv, [Next]_vars, NEW m \in Manager, Fires(m),
         NEW x \in Passed, x <= mgr[m].now
  PROVE  Excused(x, mgr[m].now)
<1> DEFINE i == CatchUpInstant(mgr[m].now)
<1>1. SchedType /\ LockInv /\ ClockInv /\ NextInv /\ DueInv
  BY DEF SchedInv, CatchUpInv
<1>2. mgr[m].pc = "firing" /\ row'.next # row.next /\ row'.state = "ACTIVE"
  BY DEF Fires
<1>3. lock = m
  BY <1>1, <1>2 DEF LockInv
<1>4. FireCommit(m)
  <2>1. RowWriter
    BY <1>2, RowWritten
  <2>2. lock # Free /\ lock # Operator
    BY <1>3, Holders
  <2>3. ~fill.busy /\ \A p \in Manager : mgr[p].pc \in {"draining", "firing"} => p = m
    BY <1>1, <1>3, <2>2 DEF LockInv
  <2>4. QED
    BY <1>2, <2>1, <2>2, <2>3
    DEF RowWriter, DrainCommit, FireCommit, Resume, Create, Pause, BackfillCommit,
        SchedInv, AbsentInv
<1>5. /\ mgr[m].now \in 0..Horizon
      /\ row.next \in Instant /\ row.next <= mgr[m].now
      /\ row.catchUp \in {"latest_only", "all"} /\ row.window \in Nat \cup {NoWindow}
  BY <1>1, <1>2 DEF ClockInv, NextInv, DueInv, Due
<1>6. zoneKnown
  BY <1>1, <1>2, <1>4 DEF FireCommit, Errored, SchedType
<1>7. row'.next = Next1(i)
  <2> DEFINE k == Next1(i)
  <2>1. \/ row' = [row EXCEPT !.next = k]
        \/ \E b \in Instant \cup {None} : row' = [row EXCEPT !.next = k, !.buffered = b]
    BY <1>4, <1>6 DEF FireCommit
  <2> HIDE DEF k
  <2>2. row'.next = k
    BY <1>1, <2>1 DEF SchedType
  <2>3. QED
    BY <2>2 DEF k
<1>8. i \in Instant
  BY <1>5, CatchUpReasons
<1>9. i <= mgr[m].now => trigger'[i] # "none"
  <2>1. CASE mgr[m].known
    <3>1. trigger' = trigger
      BY <1>4, <1>6, <2>1 DEF FireCommit
    <3>2. trigger[i] # "none"
      BY <1>2, <2>1 DEF SchedInv, ReadInv
    <3>3. QED
      BY <3>1, <3>2
  <2>2. CASE ~mgr[m].known /\ i <= mgr[m].now
    <3> DEFINE now == mgr[m].now
    <3>0. ~(i > now)
      <4>1. i \in Nat
        BY <1>8, InstantsAreNaturals
      <4>2. now \in Int
        BY <1>5, BoundsType
      <4>3. i <= now
        BY <2>2
      <4> HIDE DEF i, now
      <4>4. ~(i > now)
        BY <4>1, <4>2, <4>3
      <4>5. QED
        BY <4>4 DEF now
    <3>1. PICK b \in Instant \cup {None} : HandleTrigger(i, mgr[m].overlap, b)
      BY <1>4, <1>6, <2>2, <3>0 DEF FireCommit
    <3> HIDE DEF i
    <3>2. QED
      BY <1>1, <1>8, <3>1 DEF HandleTrigger, Replaced, SchedType
  <2>3. QED
    BY <2>1, <2>2
<1>10. x \in Instant /\ row.next <= x /\ x < Next1(i) /\ trigger'[x] = "none"
  BY <1>7 DEF Passed
<1>11. QED
  BY <1>5, <1>9, <1>10, CatchUpReasons

(* Catching up passes over no instant without the reason the policy gives:  *)
(* a later one that was due and has its trigger, or the window.  For every  *)
(* number of managers, every calendar and expression without daylight       *)
(* saving, and whatever fails or restarts on the way.                       *)
THEOREM CatchUpPasses == Jumps = {} => (Spec => CatchUpExact)
<1>1. SUFFICES ASSUME Jumps = {}
               PROVE  Spec => CatchUpExact
  OBVIOUS
<1> DEFINE A == \A m \in Manager : Fires(m) =>
                 \A i \in Passed : i <= mgr[m].now =>
                   \/ /\ row.catchUp = "latest_only"
                      /\ \E j \in Instant : i < j /\ j <= mgr[m].now /\ trigger'[j] # "none"
                   \/ row.catchUp = "all" /\ row.window # NoWindow /\ i < mgr[m].now - row.window
<1>2. SchedInv /\ CatchUpInv /\ [Next]_vars => [A]_vars
  <2>1. SUFFICES ASSUME SchedInv, CatchUpInv, [Next]_vars
                 PROVE  A
    OBVIOUS
  <2>2. QED
    BY <1>1, <2>1, FiringExcused DEF Excused
<1>3. Spec => [](SchedInv /\ CatchUpInv)
  BY <1>1, CatchUpInvariant
<1>4. CatchUpExact <=> [][A]_vars
  BY DEF CatchUpExact
<1>5. QED
  BY <1>2, <1>3, <1>4, PTL DEF Spec

=============================================================================
