---------------------------- MODULE RunLocksProofs ----------------------------
(***************************************************************************)
(* What the row locks keep for a tree of any size and any number of        *)
(* transactions on it, and what closing a run means for its children and   *)
(* its chain: no child is left behind, no chain is without its one end,    *)
(* every timer that fired is in the history of its run, and a parent has   *)
(* heard of the end of each child exactly once, however the transactions   *)
(* on the family interleave.                                               *)
(***************************************************************************)
EXTENDS RunLocks, OrderLemmas, FiniteSetTheorems, SequenceTheorems, TLAPS

-----------------------------------------------------------------------------
(* Rows *)

TimerState == {"none", "PENDING", "FIRED", "CANCELLED"}

HistoryRow == [asked : BOOLEAN, started : Nat, heard : [Run -> Seq({"completed", "failed"})],
               fired : Nat]

RunRow == [status : Status, parent : Nat, child : Nat, first : Nat, policy : Policy,
           limits : SUBSET Timeout, history : HistoryRow, wake : BOOLEAN,
           timers : [Timer -> TimerState]]

ClosingType == Ending \cup {"run_cancelled", "run_terminated", "run_timed_out"}

(* What no statement changes of a row once it is there.                     *)
SameRun(a, b) ==
  /\ a.parent = b.parent
  /\ a.child = b.child
  /\ a.first = b.first
  /\ a.policy = b.policy
  /\ a.limits = b.limits

(* A closed row takes no event and no other status.                         *)
StaysClosed(a, b) ==
  a.status # "RUNNING" => b.history = a.history /\ b.status = a.status

(* Nothing was started or heard of.                                         *)
SameTold(a, b) == b.history.heard = a.history.heard /\ b.history.started = a.history.started

(* No timer moved.                                                          *)
SameTimers(a, b) == b.timers = a.timers /\ b.history.fired = a.history.fired

(* One more outcome was heard of, of the child of that number.              *)
HearsOf(seen, link, status, row) ==
  /\ row.history.started = seen.history.started
  /\ row.history.heard = [seen.history.heard EXCEPT ![link] = Append(@, OutcomeOf(status))]

LEMMA SizeIsNat == MaxRuns \in Nat /\ 1 \in Run
BY TreeAssumption DEF TreeAssumption, Run

(* No row is there with no history.                                         *)
LEMMA NoHistoryType == NoHistory \in HistoryRow
<1>1. << >> \in Seq({"completed", "failed"})
  BY EmptySeq
<1>2. [c \in Run |-> << >>] \in [Run -> Seq({"completed", "failed"})]
  BY <1>1
<1>3. QED
  BY <1>2 DEF NoHistory, HistoryRow

LEMMA AbsentType == Absent \in RunRow /\ Absent.status = "ABSENT" /\ Absent.parent = None
                    /\ \A t \in Timer : Absent.timers[t] = "none"
BY NoHistoryType DEF Absent, RunRow, NoTimers, TimerState, Status, Policy, None

(* A new row is an open run.                                                *)
LEMMA NewRowType ==
  ASSUME NEW parent \in Nat, NEW child \in Nat, NEW first \in Nat, NEW policy \in Policy,
         NEW limits \in SUBSET Timeout
  PROVE  LET row == NewRow(parent, child, first, policy, limits) IN
         /\ row \in RunRow
         /\ row.status = "RUNNING"
         /\ row.parent = parent
         /\ row.first = first
         /\ row.child = child
         /\ row.policy = policy
         /\ row.limits = limits
         /\ row.timers = Armed(limits)
         /\ row.history = NoHistory
<1>1. Armed(limits) \in [Timer -> TimerState]
  BY DEF Armed, TimerState
<1>2. QED
  BY <1>1, NoHistoryType DEF NewRow, RunRow, Status

(* A request for cancellation is an event, or there is one already.         *)
LEMMA AskedType ==
  ASSUME NEW row \in RunRow
  PROVE  /\ AskedToCancel(row) \in RunRow
         /\ SameRun(row, AskedToCancel(row))
         /\ AskedToCancel(row).status = row.status
         /\ AskedToCancel(row).timers = row.timers
         /\ AskedToCancel(row).history.asked
         /\ SameTold(row, AskedToCancel(row))
         /\ SameTimers(row, AskedToCancel(row))
<1>1. row.history \in HistoryRow
  BY DEF RunRow
<1>2. /\ [row.history EXCEPT !.asked = TRUE] \in HistoryRow
      /\ [row.history EXCEPT !.asked = TRUE].asked
      /\ [row.history EXCEPT !.asked = TRUE].heard = row.history.heard
      /\ [row.history EXCEPT !.asked = TRUE].started = row.history.started
      /\ [row.history EXCEPT !.asked = TRUE].fired = row.history.fired
  BY <1>1 DEF HistoryRow
<1> DEFINE h == [row.history EXCEPT !.asked = TRUE]
           r == [row EXCEPT !.history.asked = TRUE, !.wake = TRUE]
<1>3. r = [row EXCEPT !.history = h, !.wake = TRUE]
  BY DEF RunRow
<1> HIDE DEF h
<1>4. [row EXCEPT !.history = h, !.wake = TRUE] \in RunRow
      /\ SameRun(row, [row EXCEPT !.history = h, !.wake = TRUE])
      /\ [row EXCEPT !.history = h, !.wake = TRUE].status = row.status
      /\ [row EXCEPT !.history = h, !.wake = TRUE].timers = row.timers
      /\ [row EXCEPT !.history = h, !.wake = TRUE].history = h
  BY <1>2 DEF RunRow, SameRun, h
<1>5. CASE row.history.asked
  BY <1>5 DEF AskedToCancel, SameRun, SameTold, SameTimers
<1>6. CASE ~row.history.asked
  <2>1. AskedToCancel(row) = r
    BY <1>6 DEF AskedToCancel
  <2> HIDE DEF r
  <2>2. QED
    BY <2>1, <1>3, <1>4, <1>2 DEF h, SameTold, SameTimers
<1>7. QED
  BY <1>5, <1>6

(* Closing a run takes it out of the open ones.                             *)
LEMMA ClosedType ==
  ASSUME NEW row \in RunRow, NEW type \in ClosingType
  PROVE  /\ ClosedRow(row, type) \in RunRow
         /\ SameRun(row, ClosedRow(row, type))
         /\ ClosedRow(row, type).status = StatusOf(type)
         /\ StatusOf(type) \notin {"ABSENT", "RUNNING"}
         /\ ClosedRow(row, type).history = row.history
         /\ ClosedRow(row, type).timers = row.timers
<1>1. StatusOf(type) \in Status \ {"ABSENT", "RUNNING"}
  BY DEF StatusOf, ClosingType, Ending, Status
<1>2. QED
  BY <1>1 DEF ClosedRow, RunRow, SameRun

(* The parent of a run that closed has one event more.                      *)
LEMMA ToldType ==
  ASSUME NEW row \in RunRow, NEW c, NEW s
  PROVE  /\ Told(row, c, s) \in RunRow
         /\ SameRun(row, Told(row, c, s))
         /\ Told(row, c, s).status = row.status
         /\ Told(row, c, s).timers = row.timers
         /\ Told(row, c, s).history.asked = row.history.asked
         /\ SameTimers(row, Told(row, c, s))
         /\ HearsOf(row, c, s, Told(row, c, s))
<1> DEFINE old == row.history.heard
           heard == [old EXCEPT ![c] = Append(@, OutcomeOf(s))]
           h == [row.history EXCEPT !.heard = heard]
<1>1. row.history \in HistoryRow /\ old \in [Run -> Seq({"completed", "failed"})]
  BY DEF RunRow, HistoryRow
<1>2. heard \in [Run -> Seq({"completed", "failed"})]
  <2>1. OutcomeOf(s) \in {"completed", "failed"}
    BY DEF OutcomeOf
  <2>2. \A x \in Run : Append(old[x], OutcomeOf(s)) \in Seq({"completed", "failed"})
    BY <1>1, <2>1, AppendProperties
  <2> HIDE DEF old
  <2>3. QED
    BY <1>1, <2>2
<1> HIDE DEF heard
<1>3. /\ h \in HistoryRow /\ h.asked = row.history.asked
      /\ h.started = row.history.started /\ h.fired = row.history.fired /\ h.heard = heard
  BY <1>1, <1>2 DEF HistoryRow
<1>4. Told(row, c, s) = [row EXCEPT !.history = h, !.wake = TRUE]
  BY <1>1 DEF Told, RunRow, heard, HistoryRow
<1> HIDE DEF h
<1>5. /\ [row EXCEPT !.history = h, !.wake = TRUE] \in RunRow
      /\ SameRun(row, [row EXCEPT !.history = h, !.wake = TRUE])
      /\ [row EXCEPT !.history = h, !.wake = TRUE].status = row.status
      /\ [row EXCEPT !.history = h, !.wake = TRUE].timers = row.timers
      /\ [row EXCEPT !.history = h, !.wake = TRUE].history = h
  BY <1>3 DEF RunRow, SameRun
<1>6. QED
  BY <1>3, <1>4, <1>5 DEF SameTimers, HearsOf, heard

(* A timer that is settled is the only thing that changes.                  *)
LEMMA SettledType ==
  ASSUME NEW row \in RunRow, NEW t \in Timer, NEW state \in TimerState
  PROVE  /\ SettledTimer(row, t, state) \in RunRow
         /\ SameRun(row, SettledTimer(row, t, state))
         /\ SettledTimer(row, t, state).status = row.status
         /\ SettledTimer(row, t, state).history = row.history
         /\ SettledTimer(row, t, state).timers = [row.timers EXCEPT ![t] = state]
<1> DEFINE ts == [row.timers EXCEPT ![t] = state]
<1>1. ts \in [Timer -> TimerState]
  BY DEF RunRow
<1>2. SettledTimer(row, t, state) = [row EXCEPT !.timers = ts]
  BY DEF SettledTimer, RunRow
<1> HIDE DEF ts
<1>3. QED
  BY <1>1, <1>2 DEF RunRow, SameRun, ts

(* The timer that fired leaves an event.                                    *)
LEMMA FiredType ==
  ASSUME NEW row \in RunRow, NEW t \in Timer
  PROVE  /\ FiredRow(row, t) \in RunRow
         /\ SameRun(row, FiredRow(row, t))
         /\ FiredRow(row, t).status = row.status
         /\ FiredRow(row, t).history.asked = row.history.asked
         /\ FiredRow(row, t).timers = [row.timers EXCEPT ![t] = "FIRED"]
         /\ SameTold(row, FiredRow(row, t))
         /\ FiredRow(row, t).history.fired = row.history.fired + 1
<1> DEFINE s == SettledTimer(row, t, "FIRED")
           h == [s.history EXCEPT !.fired = @ + 1]
<1>1. /\ s \in RunRow
      /\ SameRun(row, s)
      /\ s.status = row.status
      /\ s.history = row.history
      /\ s.timers = [row.timers EXCEPT ![t] = "FIRED"]
  BY SettledType DEF TimerState
<1> HIDE DEF s
<1>2. /\ h \in HistoryRow /\ h.asked = s.history.asked
      /\ h.heard = s.history.heard /\ h.started = s.history.started
      /\ h.fired = s.history.fired + 1
  <2>1. s.history \in HistoryRow
    BY <1>1 DEF RunRow
  <2>2. QED
    BY <2>1 DEF HistoryRow
<1>3. FiredRow(row, t) = [s EXCEPT !.history = h, !.wake = TRUE]
  BY <1>1 DEF FiredRow, s, RunRow
<1> HIDE DEF h
<1>4. /\ [s EXCEPT !.history = h, !.wake = TRUE] \in RunRow
      /\ SameRun(s, [s EXCEPT !.history = h, !.wake = TRUE])
      /\ [s EXCEPT !.history = h, !.wake = TRUE].status = s.status
      /\ [s EXCEPT !.history = h, !.wake = TRUE].timers = s.timers
      /\ [s EXCEPT !.history = h, !.wake = TRUE].history = h
  BY <1>1, <1>2 DEF RunRow, SameRun
<1>5. QED
  BY <1>1, <1>2, <1>3, <1>4 DEF SameRun, SameTold

(* A decision adds to the history and may start the timer.                  *)
LEMMA DecidedType ==
  ASSUME NEW row \in RunRow, NEW d \in Decisions(row)
  PROVE  /\ DecidedRow(row, d) \in RunRow
         /\ SameRun(row, DecidedRow(row, d))
         /\ DecidedRow(row, d).status = row.status
         /\ DecidedRow(row, d).history.asked = row.history.asked
         /\ \A t \in Timeout : DecidedRow(row, d).timers[t] = row.timers[t]
         /\ DecidedRow(row, d).history.heard = row.history.heard
         /\ DecidedRow(row, d).history.fired = row.history.fired
         /\ DecidedRow(row, d).history.started = row.history.started + Len(d.kids)
         /\ \/ DecidedRow(row, d).timers["timer-1"] = row.timers["timer-1"]
            \/ /\ row.timers["timer-1"] = "none"
               /\ DecidedRow(row, d).timers["timer-1"] = "PENDING"
<1> DEFINE h == [row.history EXCEPT !.started = @ + Len(d.kids)]
           ts == [row.timers EXCEPT !["timer-1"] = IF d.timer THEN "PENDING" ELSE @]
<1>1. Len(d.kids) \in Nat
  BY DEF Decisions
<1>2. /\ h \in HistoryRow /\ h.asked = row.history.asked
      /\ h.heard = row.history.heard /\ h.fired = row.history.fired
      /\ h.started = row.history.started + Len(d.kids)
  <2>1. row.history \in HistoryRow
    BY DEF RunRow
  <2>2. QED
    BY <1>1, <2>1 DEF HistoryRow
<1>3. /\ ts \in [Timer -> TimerState] /\ \A t \in Timeout : ts[t] = row.timers[t]
      /\ \/ ts["timer-1"] = row.timers["timer-1"]
         \/ row.timers["timer-1"] = "none" /\ ts["timer-1"] = "PENDING"
  <2>1. row.timers \in [Timer -> TimerState] /\ Timeout \subseteq Timer
        /\ "timer-1" \notin Timeout
    BY DEF RunRow, Timer, Timeout
  <2>2. d.timer => row.timers["timer-1"] = "none"
    BY DEF Decisions
  <2>3. QED
    BY <2>1, <2>2 DEF TimerState, Timer
<1>4. DecidedRow(row, d) = [row EXCEPT !.history = h, !.timers = ts, !.wake = FALSE]
  BY DEF DecidedRow, RunRow
<1> HIDE DEF h, ts
<1> DEFINE new == [row EXCEPT !.history = h, !.timers = ts, !.wake = FALSE]
<1>5. new \in RunRow /\ SameRun(row, new) /\ new.status = row.status
      /\ new.history = h /\ new.timers = ts
  BY <1>2, <1>3 DEF RunRow, SameRun
<1> HIDE DEF new
<1>6. QED
  BY <1>2, <1>3, <1>4, <1>5 DEF new

-----------------------------------------------------------------------------
(* Transactions *)

TxKind == {"none", "decide", "cancel", "terminate", "timer"}

OpName == {"lock", "body", "notify", "children", "policy"}

OpRow == [op : OpName, run : Run]

Written == UNION {[S -> RunRow] : S \in SUBSET Run}

DecisionRow == [kids : Seq(ChildKind), timer : BOOLEAN, ends : {"none"} \cup ClosingType]

TxRow == [kind : TxKind, run : Nat, timer : Timer \cup {"none"}, seen : HistoryRow,
          decision : DecisionRow \cup {<< >>}, new : Seq(Run), todo : Seq(OpRow),
          held : SUBSET Run, wrote : Written]

(* What a transaction has written is rows of runs.                          *)
LEMMA WrittenType ==
  /\ \A f \in Written : DOMAIN f \subseteq Run /\ f \in [DOMAIN f -> RunRow]
  /\ \A S \in SUBSET Run : [S -> RunRow] \subseteq Written
  /\ << >> \in Written
  /\ DOMAIN << >> = {}
<1>1. DOMAIN << >> = {}
  OBVIOUS
<1>2. << >> \in [{} -> RunRow]
  OBVIOUS
<1>3. QED
  BY <1>1, <1>2 DEF Written

LEMMA NoTxType == NoTx \in TxRow
<1>1. << >> \in Seq(Run) /\ << >> \in Seq(OpRow)
  BY EmptySeq
<1>2. QED
  BY <1>1, NoHistoryType, WrittenType DEF NoTx, TxRow, TxKind, None

(* The rest of what a transaction has to do, and what is put before it.     *)
LEMMA TodoRest ==
  ASSUME NEW todo \in Seq(OpRow), todo # << >>
  PROVE  /\ Len(todo) \in Nat \ {0}
         /\ DOMAIN todo = 1..Len(todo)
         /\ Head(todo) = todo[1]
         /\ Head(todo) \in OpRow
         /\ Tail(todo) \in Seq(OpRow)
         /\ DOMAIN Tail(todo) = 1..(Len(todo) - 1)
         /\ \A i \in DOMAIN Tail(todo) : Tail(todo)[i] = todo[i + 1] /\ i + 1 \in DOMAIN todo
<1>1. Len(todo) \in Nat \ {0} /\ DOMAIN todo = 1..Len(todo)
  BY EmptySeq, LenProperties
<1>2. /\ Head(todo) \in OpRow
      /\ Tail(todo) \in Seq(OpRow)
      /\ Len(Tail(todo)) = Len(todo) - 1
      /\ \A i \in 1..Len(Tail(todo)) : Tail(todo)[i] = todo[i + 1]
  BY HeadTailProperties
<1>3. DOMAIN Tail(todo) = 1..(Len(todo) - 1)
  BY <1>2, LenProperties
<1>4. Head(todo) = todo[1]
  OBVIOUS
<1>5. \A i \in 1..(Len(todo) - 1) : i + 1 \in 1..Len(todo)
  BY <1>1
<1>6. QED
  BY <1>1, <1>2, <1>3, <1>4, <1>5

LEMMA TodoBefore ==
  ASSUME NEW a \in Seq(OpRow), NEW b \in Seq(OpRow)
  PROVE  /\ a \o b \in Seq(OpRow)
         /\ Len(a) \in Nat /\ DOMAIN a = 1..Len(a)
         /\ Len(b) \in Nat /\ DOMAIN b = 1..Len(b)
         /\ DOMAIN (a \o b) = 1..(Len(a) + Len(b))
         /\ \A i \in 1..Len(a) : (a \o b)[i] = a[i]
         /\ \A i \in 1..Len(b) : (a \o b)[Len(a) + i] = b[i]
         /\ \A i \in 1..(Len(a) + Len(b)) :
              i \in 1..Len(a) \/ (i - Len(a) \in 1..Len(b) /\ i = Len(a) + (i - Len(a)))
<1>1. /\ a \o b \in Seq(OpRow)
      /\ DOMAIN a = 1..Len(a) /\ Len(a) \in Nat
      /\ DOMAIN b = 1..Len(b) /\ Len(b) \in Nat
      /\ Len(a \o b) = Len(a) + Len(b)
      /\ DOMAIN (a \o b) = 1..(Len(a) + Len(b))
      /\ \A i \in 1..Len(a) : (a \o b)[i] = a[i]
      /\ \A i \in 1..Len(b) : (a \o b)[Len(a) + i] = b[i]
  BY ConcatProperties, LenProperties
<1>2. ASSUME NEW i \in 1..(Len(a) + Len(b)), i \notin 1..Len(a)
      PROVE  i - Len(a) \in 1..Len(b) /\ i = Len(a) + (i - Len(a))
  BY <1>1, <1>2
<1>3. QED
  BY <1>1, <1>2

(* The statements of a set of runs are one for each, in the order of their  *)
(* ids.                                                                     *)
LEMMA EachOf ==
  ASSUME NEW S \in SUBSET Run, NEW name \in OpName
  PROVE  /\ Each(name, S) \in Seq(OpRow)
         /\ DOMAIN Each(name, S) = 1..Cardinality(S)
         /\ Len(Each(name, S)) = Cardinality(S)
         /\ Cardinality(S) \in Nat
         /\ \A i \in 1..Cardinality(S) :
              /\ Nth(S, i) \in S
              /\ Each(name, S)[i] = Op(name, Nth(S, i))
<1> DEFINE n == Cardinality(S)
<1>1. n \in Nat
  BY SizeIsNat, IntervalFinite, FS_Subset, FS_CardinalityType DEF Run
<1>2. \A i \in 1..n : Nth(S, i) \in S
  <2>1. \A i \in 1..n : \E s \in S : Cardinality({u \in S : u <= s}) = i
    BY SizeIsNat, PlaceTaken DEF Run
  <2>2. QED
    BY <2>1 DEF Nth
<1>3. \A x \in Run : Op(name, x) \in OpRow
  BY DEF Op, OpRow
<1> HIDE DEF n
<1> DEFINE e == [i \in 1..n |-> Op(name, Nth(S, i))]
<1>4. e \in [1..n -> OpRow]
  BY <1>2, <1>3
<1>5. e \in Seq(OpRow) /\ Len(e) = n
  <2>1. e \in Seq(OpRow)
    BY <1>4, <1>1, SeqDef
  <2>2. DOMAIN e = 1..n
    OBVIOUS
  <2> HIDE DEF e
  <2>3. Len(e) \in Nat /\ DOMAIN e = 1..Len(e)
    BY <2>1, LenProperties
  <2>4. QED
    BY <2>1, <2>2, <2>3, <1>1
<1>6. Each(name, S) = e
  BY DEF Each, n
<1>7. QED
  BY <1>1, <1>2, <1>5, <1>6 DEF n

(* Every one of them has its statement.                                     *)
LEMMA EachOne ==
  ASSUME NEW S \in SUBSET Run, NEW x \in S
  PROVE  \E i \in 1..Cardinality(S) : Nth(S, i) = x
<1>1. MaxRuns \in Nat
  BY SizeIsNat
<1> DEFINE i == Cardinality({y \in S : y <= x})
<1>2. i \in 1..Cardinality(S)
  <2>1. IsFiniteSet(S) /\ Cardinality(S) \in Nat
    BY <1>1, IntervalFinite, FS_Subset, FS_CardinalityType DEF Run
  <2>2. {x} \subseteq {y \in S : y <= x}
    BY DEF Run
  <2>3. {y \in S : y <= x} \subseteq S
    OBVIOUS
  <2>4. IsFiniteSet({y \in S : y <= x}) /\ i <= Cardinality(S) /\ i \in Nat
    BY <2>1, <2>3, FS_Subset, FS_CardinalityType
  <2>5. Cardinality({x}) = 1
    BY FS_Singleton
  <2>6. Cardinality({x}) <= i
    BY <2>2, <2>4, FS_Subset
  <2>7. QED
    BY <2>1, <2>4, <2>5, <2>6
<1>3. \A y \in S : Cardinality({z \in S : z <= y}) = i => y = x
  <2>1. SUFFICES ASSUME NEW y \in S, Cardinality({z \in S : z <= y}) = i
                 PROVE  y = x
    OBVIOUS
  <2>2. \A a, b \in S : a < b => Cardinality({z \in S : z <= a}) # Cardinality({z \in S : z <= b})
    <3>1. SUFFICES ASSUME NEW a \in S, NEW b \in S, a < b
                   PROVE  Cardinality({z \in S : z <= a}) # Cardinality({z \in S : z <= b})
      OBVIOUS
    <3> DEFINE A == {z \in S : z <= a}
               B == {z \in S : z <= b}
    <3>2. A \subseteq B /\ b \in B /\ b \notin A
      <4>1. \A z \in S : z \in Int
        BY DEF Run
      <4>2. \A p, q, z \in Int : p < q => (z <= p => z <= q) /\ q <= q /\ ~(q <= p)
        OBVIOUS
      <4>3. QED
        BY <3>1, <4>1, <4>2
    <3>3. IsFiniteSet(B)
      BY <1>1, IntervalFinite, FS_Subset DEF Run
    <3> HIDE DEF A, B
    <3>4. Cardinality(A) # Cardinality(B)
      BY <3>2, <3>3, FS_Subset
    <3>5. QED
      BY <3>4 DEF A, B
  <2>3. x < y \/ y < x \/ x = y
    BY DEF Run
  <2>4. QED
    BY <2>1, <2>2, <2>3
<1>4. Nth(S, i) = x
  BY <1>3 DEF Nth
<1>5. QED
  BY <1>2, <1>4

-----------------------------------------------------------------------------
(* The inductive invariant.  Its parts speak of one transaction X over the  *)
(* committed rows rs, so that a step of one transaction and a commit of     *)
(* another are told apart.                                                  *)

(* The rows have their shape. *)
TypeInv ==
  /\ runs \in [Run -> RunRow]
  /\ tx \in [Tx -> TxRow]
  /\ begun \in 0..MaxBegun

Exists(rs, x) == x \in Run /\ rs[x].status # "ABSENT"

RowIn(rs, X, x) == IF x \in DOMAIN X.wrote THEN X.wrote[x] ELSE rs[x]

(* The transaction sees the run: it is there, or it has just created it. *)
KnownTo(rs, X, x) == x \in Run /\ RowIn(rs, X, x).status # "ABSENT"

(* A run comes after its parent, which is there, and after the head of its  *)
(* chain.                                                                   *)
LinksOK(rs, x, row) ==
  /\ row.parent < x
  /\ row.parent # None => Exists(rs, row.parent)
  /\ row.first \in 1..x

RowsOK(rs) == \A x \in Run : IF Exists(rs, x) THEN LinksOK(rs, x, rs[x]) ELSE rs[x] = Absent

(* What is written of a run that is there is written under its lock, keeps  *)
(* what identifies the run, and leaves it alone once it is closed.  A run   *)
(* is created by the transaction that holds its parent.                     *)
WroteOK(rs, X) ==
  \A x \in DOMAIN X.wrote :
    LET row == X.wrote[x] IN
    /\ row.status # "ABSENT"
    /\ LinksOK(rs, x, row)
    /\ Exists(rs, x) => x \in X.held /\ SameRun(rs[x], row) /\ StaysClosed(rs[x], row)
    /\ ~Exists(rs, x) => row.parent \in X.held \cup {None}

(* The first row a transaction locks: the parent of its run, if it has one  *)
(* and the run may be closed.                                               *)
OutermostIn(rs, X) ==
  IF (X.kind = "timer" /\ X.timer \notin Timeout) \/ rs[X.run].parent = None
    THEN X.run ELSE rs[X.run].parent

(* What a transaction has locked hangs together: below its first row, every *)
(* other one it holds is a child of one it holds.                           *)
HeldOK(rs, X) ==
  \A x \in X.held :
    /\ KnownTo(rs, X, x)
    /\ OutermostIn(rs, X) <= x
    /\ x = OutermostIn(rs, X) \/ RowIn(rs, X, x).parent \in X.held

(* It has not come to its body. *)
Beginning(rs, X) ==
  LET first == OutermostIn(rs, X) IN
  /\ X.wrote = << >>
  /\ \/ first = X.run /\ X.held = {} /\ X.todo = <<Op("body", X.run)>>
     \/ first # X.run /\ X.held = {} /\ X.todo = <<Op("lock", first), Op("body", X.run)>>
     \/ first # X.run /\ X.held = {first} /\ X.todo = <<Op("body", X.run)>>

(* The parents of the runs it still has to deal with are held already; a    *)
(* child is dealt with once it is locked.                                   *)
StatementOK(rs, X, i) ==
  LET x == X.todo[i].run IN
  /\ KnownTo(rs, X, x)
  /\ RowIn(rs, X, x).parent \in X.held \cup {None}
  /\ \/ X.todo[i].op \in {"notify", "children"} /\ x \in X.held
     \/ X.todo[i].op = "lock" /\ RowIn(rs, X, x).parent # None
     \/ /\ X.todo[i].op = "policy" /\ RowIn(rs, X, x).parent # None
        /\ x \in X.held \/ \E j \in 1..(i - 1) : X.todo[j] = Op("lock", x)

Acted(rs, X) == X.run \in X.held /\ \A i \in DOMAIN X.todo : StatementOK(rs, X, i)

TxOK(rs, X) ==
  /\ WroteOK(rs, X)
  /\ HeldOK(rs, X)
  /\ X # NoTx => /\ X.kind # "none"
                 /\ Exists(rs, X.run)
                 /\ X.kind = "timer" => X.timer \in Timer
                 /\ Beginning(rs, X) \/ Acted(rs, X)

(* Two transactions hold different rows and create different runs. *)
Apart(rs, X, Y) ==
  /\ X.held \cap Y.held = {}
  /\ \A x \in DOMAIN X.wrote : ~Exists(rs, x) => x \notin DOMAIN Y.wrote

LocksInv ==
  /\ TypeInv
  /\ RowsOK(runs)
  /\ \A t \in Tx : TxOK(runs, tx[t])
  /\ \A t, u \in Tx : t # u => Apart(runs, tx[t], tx[u])

-----------------------------------------------------------------------------
(* What the invariant says of a transaction *)

LEMMA OfTx ==
  ASSUME LocksInv, NEW t \in Tx
  PROVE  /\ runs \in [Run -> RunRow]
         /\ tx[t] \in TxRow
         /\ tx[t].run \in Nat
         /\ tx[t].held \subseteq Run
         /\ tx[t].wrote \in Written
         /\ DOMAIN tx[t].wrote \subseteq Run
         /\ tx[t].wrote \in [DOMAIN tx[t].wrote -> RunRow]
         /\ tx[t].todo \in Seq(OpRow)
         /\ TxOK(runs, tx[t])
<1>1. runs \in [Run -> RunRow] /\ tx[t] \in TxRow /\ TxOK(runs, tx[t])
  BY DEF LocksInv, TypeInv
<1>2. /\ tx[t].run \in Nat
      /\ tx[t].held \subseteq Run
      /\ tx[t].wrote \in Written
      /\ tx[t].todo \in Seq(OpRow)
  BY <1>1 DEF TxRow
<1>3. QED
  BY <1>1, <1>2, WrittenType

(* A row a transaction sees is a row, and its links are in order.           *)
LEMMA SeenRow ==
  ASSUME LocksInv, NEW t \in Tx, NEW x \in Run
  PROVE  /\ RowIn(runs, tx[t], x) \in RunRow
         /\ RowIn(runs, tx[t], x).parent \in Nat
         /\ KnownTo(runs, tx[t], x) => LinksOK(runs, x, RowIn(runs, tx[t], x))
         /\ Exists(runs, x) => /\ KnownTo(runs, tx[t], x)
                               /\ SameRun(runs[x], RowIn(runs, tx[t], x))
<1>1. /\ runs \in [Run -> RunRow]
      /\ tx[t].wrote \in [DOMAIN tx[t].wrote -> RunRow]
      /\ WroteOK(runs, tx[t])
  BY OfTx DEF TxOK
<1>2. RowIn(runs, tx[t], x) \in RunRow
  BY <1>1 DEF RowIn
<1>3. RowIn(runs, tx[t], x).parent \in Nat
  BY <1>2 DEF RunRow
<1>4. RowsOK(runs)
  BY DEF LocksInv
<1>5. CASE x \in DOMAIN tx[t].wrote
  <2>1. RowIn(runs, tx[t], x) = tx[t].wrote[x]
    BY <1>5 DEF RowIn
  <2>2. QED
    BY <2>1, <1>1, <1>2, <1>3, <1>5 DEF WroteOK, KnownTo
<1>6. CASE x \notin DOMAIN tx[t].wrote
  <2>1. RowIn(runs, tx[t], x) = runs[x]
    BY <1>6 DEF RowIn
  <2>2. QED
    BY <2>1, <1>2, <1>3, <1>4 DEF RowsOK, KnownTo, Exists, SameRun
<1>7. QED
  BY <1>5, <1>6

(* The first row is there, and no run comes before its parent.              *)
LEMMA FirstRow ==
  ASSUME LocksInv, NEW t \in Tx, Exists(runs, tx[t].run)
  PROVE  /\ OutermostIn(runs, tx[t]) \in Run
         /\ Exists(runs, OutermostIn(runs, tx[t]))
         /\ OutermostIn(runs, tx[t]) <= tx[t].run
         /\ OutermostIn(runs, tx[t]) # tx[t].run =>
              /\ OutermostIn(runs, tx[t]) = runs[tx[t].run].parent
              /\ runs[tx[t].run].parent # None
<1>1. tx[t].run \in Run /\ LinksOK(runs, tx[t].run, runs[tx[t].run])
  BY DEF Exists, LocksInv, RowsOK
<1>2. runs[tx[t].run].parent \in Nat
  BY <1>1, OfTx DEF RunRow
<1>3. QED
  BY <1>1, <1>2 DEF OutermostIn, LinksOK, Exists, Run

(* A step of one transaction keeps the invariant if it keeps its part.      *)
LEMMA LocalStep ==
  ASSUME LocksInv, NEW t \in Tx, NEW X \in TxRow,
         runs' = runs, begun' \in 0..MaxBegun,
         tx' = [tx EXCEPT ![t] = X],
         TxOK(runs, X),
         \A u \in Tx \ {t} : Apart(runs, X, tx[u])
  PROVE  LocksInv'
<1>1. /\ tx' \in [Tx -> TxRow]
      /\ tx'[t] = X
      /\ \A u \in Tx \ {t} : tx'[u] = tx[u]
  BY DEF LocksInv, TypeInv
<1>2. TypeInv'
  BY <1>1 DEF LocksInv, TypeInv
<1>3. RowsOK(runs')
  BY DEF LocksInv
<1>4. \A u \in Tx : TxOK(runs, tx'[u])
  BY <1>1 DEF LocksInv
<1>5. ASSUME NEW u \in Tx, NEW v \in Tx, u # v
      PROVE  Apart(runs, tx'[u], tx'[v])
  <2>1. Apart(runs, tx[u], tx[v])
    BY <1>5 DEF LocksInv
  <2>2. CASE u = t
    BY <2>2, <1>1, <1>5
  <2>3. CASE v = t
    <3>1. Apart(runs, X, tx[u])
      BY <2>3, <1>5
    <3>2. Apart(runs, tx[u], X)
      BY <3>1 DEF Apart
    <3>3. QED
      BY <3>2, <2>3, <1>1, <1>5
  <2>4. QED
    BY <2>1, <2>2, <2>3, <1>1
<1>6. QED
  BY <1>2, <1>3, <1>4, <1>5 DEF LocksInv

(* The ways an action rewrites its transaction.                             *)
LEMMA TxStep ==
  ASSUME LocksInv, NEW t \in Tx, NEW held, NEW wrote, NEW todo
  PROVE  /\ [tx EXCEPT ![t].held = held, ![t].todo = todo]
              = [tx EXCEPT ![t] = [tx[t] EXCEPT !.held = held, !.todo = todo]]
         /\ [tx EXCEPT ![t].wrote = wrote, ![t].todo = todo]
              = [tx EXCEPT ![t] = [tx[t] EXCEPT !.wrote = wrote, !.todo = todo]]
         /\ [tx EXCEPT ![t].todo = todo]
              = [tx EXCEPT ![t] = [tx[t] EXCEPT !.todo = todo]]
         /\ [tx EXCEPT ![t].held = held, ![t].wrote = wrote, ![t].todo = todo]
              = [tx EXCEPT ![t] = [tx[t] EXCEPT !.held = held, !.wrote = wrote, !.todo = todo]]
BY DEF LocksInv, TypeInv

(* A transaction with something to do is one.                               *)
LEMMA HasTodo ==
  ASSUME LocksInv, NEW t \in Tx, tx[t].todo # << >>
  PROVE  /\ tx[t] # NoTx
         /\ Exists(runs, tx[t].run)
         /\ Beginning(runs, tx[t]) \/ Acted(runs, tx[t])
         /\ tx[t].todo \in Seq(OpRow)
         /\ At(t) \in Run
         /\ Head(tx[t].todo) = tx[t].todo[1]
         /\ Head(tx[t].todo) \in OpRow
         /\ 1 \in DOMAIN tx[t].todo
         /\ Tail(tx[t].todo) \in Seq(OpRow)
         /\ \A i \in DOMAIN Tail(tx[t].todo) :
              /\ i \in Nat
              /\ Tail(tx[t].todo)[i] = tx[t].todo[i + 1]
              /\ i + 1 \in DOMAIN tx[t].todo
<1>1. tx[t] # NoTx
  BY DEF NoTx
<1>2. Exists(runs, tx[t].run) /\ (Beginning(runs, tx[t]) \/ Acted(runs, tx[t]))
      /\ tx[t].todo \in Seq(OpRow)
  BY <1>1, OfTx DEF TxOK
<1> DEFINE todo == tx[t].todo
<1>3. /\ Len(todo) \in Nat \ {0}
      /\ DOMAIN todo = 1..Len(todo)
      /\ Head(todo) = todo[1]
      /\ Head(todo) \in OpRow
      /\ Tail(todo) \in Seq(OpRow)
      /\ DOMAIN Tail(todo) = 1..(Len(todo) - 1)
      /\ \A i \in DOMAIN Tail(todo) : Tail(todo)[i] = todo[i + 1] /\ i + 1 \in DOMAIN todo
  BY <1>2, TodoRest
<1> HIDE DEF todo
<1>4. 1 \in DOMAIN todo /\ \A i \in DOMAIN Tail(todo) : i \in Nat
  BY <1>3
<1>5. Head(todo).run \in Run
  BY <1>3 DEF OpRow
<1>6. QED
  BY <1>1, <1>2, <1>3, <1>4, <1>5 DEF todo, At

-----------------------------------------------------------------------------
(* Statements *)

(* A transaction that has acted takes one more lock of a row it knows, below *)
(* one it holds.                                                            *)
LEMMA OneMoreLock ==
  ASSUME LocksInv, NEW t \in Tx, NEW x \in Run,
         KnownTo(runs, tx[t], x), RowIn(runs, tx[t], x).parent \in tx[t].held,
         NEW Y \in TxRow, Y.kind = tx[t].kind, Y.run = tx[t].run, Y.timer = tx[t].timer,
         Y.wrote = tx[t].wrote, Y.held = tx[t].held \cup {x}
  PROVE  HeldOK(runs, Y) /\ WroteOK(runs, Y)
<1>1. HeldOK(runs, tx[t]) /\ WroteOK(runs, tx[t])
  BY OfTx DEF TxOK
<1>2. OutermostIn(runs, Y) = OutermostIn(runs, tx[t])
  BY DEF OutermostIn
<1>3. \A y \in Run : RowIn(runs, Y, y) = RowIn(runs, tx[t], y)
  BY DEF RowIn
<1>4. \A y \in Run : KnownTo(runs, Y, y) <=> KnownTo(runs, tx[t], y)
  BY <1>3 DEF KnownTo
<1>5. OutermostIn(runs, tx[t]) <= x
  <2> DEFINE first == OutermostIn(runs, tx[t])
             p == RowIn(runs, tx[t], x).parent
  <2>1. first <= p
    BY <1>1 DEF HeldOK
  <2>2. p < x /\ p \in Nat
    BY SeenRow DEF LinksOK
  <2>3. tx[t].held # {} /\ p \in Run
    BY OfTx
  <2>4. tx[t] # NoTx
    BY <2>3 DEF NoTx
  <2>5. first \in Run
    BY <2>4, OfTx, FirstRow DEF TxOK
  <2> HIDE DEF first, p
  <2>6. first <= x
    BY <2>1, <2>2, <2>5 DEF Run
  <2>7. QED
    BY <2>6 DEF first
<1>6. tx[t].held \subseteq Run
  BY OfTx
<1>7. HeldOK(runs, Y)
  BY <1>1, <1>2, <1>3, <1>4, <1>5, <1>6 DEF HeldOK
<1>8. WroteOK(runs, Y)
  BY <1>1 DEF WroteOK
<1>9. QED
  BY <1>7, <1>8

LEMMA LockKeeps ==
  ASSUME LocksInv, NEW t \in Tx, Lock(t)
  PROVE  LocksInv'
<1> DEFINE X == tx[t]
           x == At(t)
<1>1. /\ X.todo # << >>
      /\ Head(X.todo).op = "lock"
      /\ FreeToLock(t, x)
      /\ tx' = [tx EXCEPT ![t].held = X.held \cup {x}, ![t].todo = Tail(X.todo)]
      /\ runs' = runs /\ begun' = begun
  BY DEF Lock, NextIs, Rest, LocksInv, TypeInv
<1>3. /\ X # NoTx
      /\ Exists(runs, X.run)
      /\ Beginning(runs, X) \/ Acted(runs, X)
      /\ x \in Run
      /\ Head(X.todo) = X.todo[1]
      /\ Head(X.todo) \in OpRow
      /\ 1 \in DOMAIN X.todo
      /\ Tail(X.todo) \in Seq(OpRow)
      /\ \A i \in DOMAIN Tail(X.todo) :
           i \in Nat /\ Tail(X.todo)[i] = X.todo[i + 1] /\ i + 1 \in DOMAIN X.todo
  BY <1>1, HasTodo
<1>4. /\ X \in TxRow
      /\ X.held \subseteq Run
      /\ X.wrote \in Written
      /\ HeldOK(runs, X) /\ WroteOK(runs, X)
  BY OfTx DEF TxOK
<1> DEFINE held == X.held \cup {x}
           todo == Tail(X.todo)
           Y == [X EXCEPT !.held = held, !.todo = todo]
<1>2. tx' = [tx EXCEPT ![t] = Y]
  BY <1>1, TxStep
<1>5. /\ Y \in TxRow
      /\ Y.kind = X.kind
      /\ Y.run = X.run
      /\ Y.timer = X.timer
      /\ Y.held = X.held \cup {x}
      /\ Y.wrote = X.wrote
      /\ Y.todo = Tail(X.todo)
  <2>1. held \in SUBSET Run /\ todo \in Seq(OpRow)
    BY <1>3, <1>4
  <2> HIDE DEF X, held, todo
  <2>2. Y \in TxRow /\ Y.kind = X.kind /\ Y.run = X.run /\ Y.timer = X.timer
        /\ Y.held = held /\ Y.wrote = X.wrote /\ Y.todo = todo
    BY <2>1, <1>4 DEF TxRow
  <2> HIDE DEF Y
  <2>3. QED
    BY <2>2 DEF held, todo
<1> HIDE DEF Y
<1>6. \A u \in Tx \ {t} : Apart(runs, Y, tx[u])
  BY <1>1, <1>5 DEF Apart, LocksInv, FreeToLock
<1>7. /\ OutermostIn(runs, Y) = OutermostIn(runs, X)
      /\ \A y \in Run : RowIn(runs, Y, y) = RowIn(runs, X, y)
      /\ \A y \in Run : KnownTo(runs, Y, y) <=> KnownTo(runs, X, y)
  BY <1>5 DEF OutermostIn, RowIn, KnownTo
<1>8. ASSUME Beginning(runs, X)
      PROVE  TxOK(runs, Y)
  <2> DEFINE first == OutermostIn(runs, X)
  <2>1. first # X.run /\ X.held = {} /\ X.wrote = << >>
        /\ X.todo = <<Op("lock", first), Op("body", X.run)>>
    BY <1>1, <1>8 DEF Beginning, Op
  <2>2. x = first /\ Y.todo = <<Op("body", X.run)>> /\ Y.held = {first} /\ Y.wrote = << >>
    BY <2>1, <1>5 DEF At, Op
  <2>3. Beginning(runs, Y)
    BY <2>1, <2>2, <1>5, <1>7 DEF Beginning
  <2>4. Exists(runs, first) /\ first \in Run /\ first <= first
    BY <1>3, FirstRow DEF Run
  <2>5. KnownTo(runs, X, first)
    BY <2>4, SeenRow
  <2>6. HeldOK(runs, Y)
    BY <2>2, <2>4, <2>5, <1>7 DEF HeldOK
  <2>7. WroteOK(runs, Y)
    BY <2>2, WrittenType DEF WroteOK
  <2>8. QED
    BY <2>3, <2>6, <2>7, <1>3, <1>5, OfTx DEF TxOK
<1>9. ASSUME Acted(runs, X)
      PROVE  TxOK(runs, Y)
  <2>1. StatementOK(runs, X, 1)
    BY <1>9, <1>3 DEF Acted
  <2>2. /\ KnownTo(runs, X, x)
        /\ RowIn(runs, X, x).parent \in X.held
    BY <2>1, <1>1, <1>3 DEF StatementOK, At
  <2>3. HeldOK(runs, Y) /\ WroteOK(runs, Y)
    BY <2>2, <1>3, <1>5, OneMoreLock
  <2>4. X.todo[1] = Op("lock", x)
    BY <1>1, <1>3 DEF At, Op, OpRow
  <2>5. ASSUME NEW i \in DOMAIN Y.todo
        PROVE  StatementOK(runs, Y, i)
    <3>1. i \in Nat /\ Y.todo[i] = X.todo[i + 1] /\ i + 1 \in DOMAIN X.todo
      BY <1>3, <1>5
    <3>2. StatementOK(runs, X, i + 1)
      BY <3>1, <1>9 DEF Acted
    <3> DEFINE y == X.todo[i + 1].run
    <3>3. KnownTo(runs, Y, y) /\ RowIn(runs, Y, y).parent \in Y.held \cup {None}
          /\ RowIn(runs, Y, y) = RowIn(runs, X, y)
      BY <3>2, <1>5, <1>7 DEF StatementOK, KnownTo
    <3>4. CASE \E j \in 1..i : X.todo[j] = Op("lock", y)
      <4>1. PICK j \in 1..i : X.todo[j] = Op("lock", y)
        BY <3>4
      <4>2. CASE j = 1
        <5>1. y = x
          BY <4>1, <4>2, <2>4 DEF Op
        <5>2. y \in Y.held
          BY <5>1, <1>5
        <5>3. QED
          BY <5>2, <3>1, <3>2, <3>3, <1>5 DEF StatementOK
      <4>3. CASE j # 1
        <5>1. j - 1 \in 1..(i - 1) /\ j = (j - 1) + 1
          BY <4>3, <3>1
        <5>2. 1..(i - 1) \subseteq DOMAIN Y.todo
          <6>1. Len(Y.todo) \in Nat /\ DOMAIN Y.todo = 1..Len(Y.todo)
            BY <1>5, <1>3, LenProperties
          <6>2. QED
            BY <6>1
        <5>3. Y.todo[j - 1] = X.todo[j]
          BY <5>1, <5>2, <1>3, <1>5
        <5>4. \E k \in 1..(i - 1) : Y.todo[k] = Op("lock", y)
          BY <5>1, <5>3, <4>1
        <5>5. QED
          BY <5>4, <3>1, <3>2, <3>3, <1>5 DEF StatementOK
      <4>4. QED
        BY <4>2, <4>3
    <3>5. CASE ~\E j \in 1..i : X.todo[j] = Op("lock", y)
      <4>1. (i + 1) - 1 = i
        BY <3>1
      <4>2. QED
        BY <3>1, <3>2, <3>3, <3>5, <1>5, <4>1 DEF StatementOK
    <3>6. QED
      BY <3>4, <3>5
  <2>6. Acted(runs, Y)
    BY <2>5, <1>9, <1>5 DEF Acted
  <2>7. QED
    BY <2>3, <2>6, <1>3, <1>5, OfTx DEF TxOK
<1>10. QED
  <2>1. begun' \in 0..MaxBegun
    BY <1>1 DEF LocksInv, TypeInv
  <2>2. TxOK(runs, Y)
    BY <1>8, <1>9, <1>3
  <2>3. QED
    BY <2>1, <2>2, <1>1, <1>2, <1>5, <1>6, LocalStep

(* At its body a transaction has written nothing, and holds the parent of   *)
(* its run if it may close it.                                              *)
LEMMA AtBody ==
  ASSUME LocksInv, NEW t \in Tx, NextIs(t, "body")
  PROVE  /\ tx[t] # NoTx
         /\ At(t) = tx[t].run
         /\ tx[t].run \in Run
         /\ Exists(runs, tx[t].run)
         /\ tx[t].wrote = << >>
         /\ tx[t].held \subseteq {OutermostIn(runs, tx[t])}
         /\ OutermostIn(runs, tx[t]) # tx[t].run => tx[t].held = {OutermostIn(runs, tx[t])}
<1> DEFINE X == tx[t]
<1>1. /\ X.todo # << >> /\ Head(X.todo).op = "body"
      /\ X # NoTx
      /\ Exists(runs, X.run)
      /\ Beginning(runs, X) \/ Acted(runs, X)
      /\ Head(X.todo) = X.todo[1]
      /\ 1 \in DOMAIN X.todo
  BY HasTodo DEF NextIs
<1>2. ~Acted(runs, X)
  <2>1. Acted(runs, X) => StatementOK(runs, X, 1)
    BY <1>1 DEF Acted
  <2>2. QED
    BY <2>1, <1>1 DEF StatementOK
<1>3. Beginning(runs, X)
  BY <1>1, <1>2
<1>4. X.todo = <<Op("body", X.run)>>
  BY <1>1, <1>3 DEF Beginning, Op
<1>5. At(t) = X.run
  BY <1>4 DEF At, Op
<1>6. QED
  BY <1>1, <1>3, <1>4, <1>5 DEF Beginning, Exists, Op

(* After the body it holds its run, and what it has left to do is to tell   *)
(* the parent, which it holds, and to look for the children.                *)
LEMMA ActKeeps ==
  ASSUME LocksInv, NEW t \in Tx, NextIs(t, "body"), FreeToLock(t, At(t)),
         runs' = runs, begun' = begun,
         NEW Y \in TxRow, tx' = [tx EXCEPT ![t] = Y],
         Y.kind = tx[t].kind, Y.run = tx[t].run, Y.timer = tx[t].timer,
         Y.held = tx[t].held \cup {At(t)},
         Y.todo = << >> \/ Y.todo = AfterClose(At(t), "run_continued_as_new")
           \/ Y.todo = AfterClose(At(t), "run_terminated"),
         Y.todo # << >> => ~(Y.kind = "timer" /\ Y.timer \notin Timeout),
         WroteOK(runs, Y),
         \A u \in Tx \ {t} : \A x \in DOMAIN Y.wrote :
           ~Exists(runs, x) => x \notin DOMAIN tx[u].wrote
  PROVE  LocksInv'
<1> DEFINE X == tx[t]
           r == X.run
           first == OutermostIn(runs, X)
<1>1. /\ X # NoTx
      /\ At(t) = r
      /\ r \in Run
      /\ Exists(runs, r)
      /\ X.held \subseteq {first}
      /\ first # r => X.held = {first}
  BY AtBody
<1>2. /\ first \in Run /\ Exists(runs, first) /\ first <= r
      /\ first # r => first = runs[r].parent /\ runs[r].parent # None
  BY <1>1, FirstRow
<1>3. OutermostIn(runs, Y) = first
  BY DEF OutermostIn
<1>4. ASSUME NEW x \in Run, Exists(runs, x)
      PROVE  KnownTo(runs, Y, x) /\ SameRun(runs[x], RowIn(runs, Y, x))
  <2>1. CASE x \in DOMAIN Y.wrote
    BY <2>1, <1>4 DEF WroteOK, KnownTo, RowIn
  <2>2. CASE x \notin DOMAIN Y.wrote
    BY <2>2, <1>4 DEF KnownTo, RowIn, Exists, SameRun
  <2>3. QED
    BY <2>1, <2>2
<1>5. HeldOK(runs, Y)
  <2>1. SUFFICES ASSUME NEW x \in Y.held
                 PROVE  /\ KnownTo(runs, Y, x)
                        /\ first <= x
                        /\ x = first \/ RowIn(runs, Y, x).parent \in Y.held
    BY <1>3 DEF HeldOK
  <2>2. CASE x = first
    BY <2>2, <1>2, <1>4 DEF Run
  <2>3. CASE x # first
    <3>1. x = r /\ first # r
      BY <2>3, <1>1
    <3>2. RowIn(runs, Y, r).parent = first
      BY <3>1, <1>1, <1>2, <1>4 DEF SameRun
    <3>3. first \in Y.held
      BY <3>1, <1>1
    <3>4. QED
      BY <3>1, <3>2, <3>3, <1>1, <1>2, <1>4
  <2>4. QED
    BY <2>2, <2>3
<1>6. Y.todo # << >> => RowIn(runs, Y, r).parent \in Y.held \cup {None}
  <2>1. SUFFICES ASSUME Y.todo # << >>
                 PROVE  runs[r].parent \in Y.held \cup {None}
    BY <1>1, <1>4 DEF SameRun
  <2>2. CASE runs[r].parent = None
    BY <2>2
  <2>3. CASE runs[r].parent # None
    <3>1. first = runs[r].parent
      BY <2>1, <2>3 DEF OutermostIn
    <3>2. LinksOK(runs, r, runs[r]) /\ runs[r].parent \in Nat
      BY <1>1, OfTx DEF LocksInv, RowsOK, RunRow
    <3>3. first # r
      BY <3>1, <3>2, <1>1 DEF LinksOK, Run
    <3>4. QED
      BY <3>1, <3>3, <1>1
  <2>4. QED
    BY <2>2, <2>3
<1>7. Acted(runs, Y)
  <2>1. r \in Y.held /\ Y.run = r
    BY <1>1
  <2>2. ASSUME NEW i \in DOMAIN Y.todo
        PROVE  StatementOK(runs, Y, i)
    <3>1. Y.todo # << >> /\ Y.todo[i].run = r /\ Y.todo[i].op \in {"notify", "children"}
      BY <1>1 DEF AfterClose, Op
    <3>2. QED
      BY <3>1, <2>1, <1>1, <1>4, <1>6 DEF StatementOK
  <2>3. QED
    BY <2>1, <2>2 DEF Acted
<1>8. TxOK(runs, Y)
  BY <1>1, <1>5, <1>7, OfTx DEF TxOK
<1>9. \A u \in Tx \ {t} : Apart(runs, Y, tx[u])
  BY DEF Apart, LocksInv, FreeToLock
<1>10. begun' \in 0..MaxBegun
  BY DEF LocksInv, TypeInv
<1>11. QED
  BY <1>8, <1>9, <1>10, LocalStep

-----------------------------------------------------------------------------
(* What the bodies do *)

(* One transaction moves, and stays the transaction it is. *)
Moved(t, Y) ==
  /\ Y \in TxRow
  /\ tx' = [tx EXCEPT ![t] = Y]
  /\ Y.kind = tx[t].kind
  /\ Y.run = tx[t].run
  /\ Y.timer = tx[t].timer

(* It has found nothing to do, or it has written its run alone: to go on    *)
(* with it, or to close it.                                                 *)
WritesNothing(Y) == Y.wrote = << >> /\ Y.todo = << >>

GoesOn(old, row) ==
  /\ row.status = old.status
  /\ old.status = "RUNNING" => \A x \in Timeout : row.timers[x] = old.timers[x]

EndsForGood(old, row) ==
  /\ old.status = "RUNNING"
  /\ row.status \notin {"ABSENT", "RUNNING", "CONTINUED_AS_NEW"}

Rewritten(old, row) ==
  /\ row \in RunRow
  /\ SameRun(old, row)
  /\ StaysClosed(old, row)
  /\ old.history.asked => row.history.asked

(* A write leaves the timers alone, or it is that of a timer, which is      *)
(* cancelled with its run or has fired.                                     *)
SettlesTimer(Y, old, row) ==
  \/ SameTimers(old, row) /\ (row.status = old.status \/ old.status = "RUNNING")
  \/ /\ Y.kind = "timer"
     /\ \/ /\ row.timers = [old.timers EXCEPT ![Y.timer] = "CANCELLED"]
           /\ row.status = old.status
           /\ row.history.fired = old.history.fired
        \/ /\ row.timers = [old.timers EXCEPT ![Y.timer] = "FIRED"]
           /\ Y.timer \in Timeout
           /\ row.status = "TIMED_OUT" /\ old.status = "RUNNING"
           /\ row.history.fired = old.history.fired
        \/ /\ row.timers = [old.timers EXCEPT ![Y.timer] = "FIRED"]
           /\ Y.timer \notin Timeout
           /\ row.status = old.status
           /\ row.history.fired = old.history.fired + 1

WritesRun(r, Y) ==
  /\ DOMAIN Y.wrote = {r}
  /\ Rewritten(runs[r], Y.wrote[r])
  /\ SameTold(runs[r], Y.wrote[r])
  /\ SettlesTimer(Y, runs[r], Y.wrote[r])
  /\ \/ Y.todo = << >> /\ GoesOn(runs[r], Y.wrote[r])
     \/ /\ Y.todo = AfterClose(r, "run_terminated") /\ EndsForGood(runs[r], Y.wrote[r])
        /\ ~(Y.kind = "timer" /\ Y.timer \notin Timeout)

(* The body of a decision also creates runs: children, or the next of the   *)
(* chain.                                                                   *)
IsNew(x, row) ==
  /\ x \in Run
  /\ ~Exists(runs, x)
  /\ row \in RunRow
  /\ row.status = "RUNNING"
  /\ row.timers = Armed(row.limits)
  /\ row.history = NoHistory

IsChild(r, x, row) == row.parent = r /\ row.first = x

IsNext(old, row) ==
  /\ row.child = None
  /\ row.parent = old.parent
  /\ row.first = old.first
  /\ row.policy = old.policy
  /\ row.limits = old.limits

(* The children a decision starts have the next numbers, one each, and ids  *)
(* that are as far behind those of the runs there are.                      *)
NumbersChildren(r, Y) ==
  LET old == runs[r].history.started
      now == Y.wrote[r].history.started
      new == DOMAIN Y.wrote \ {r}
  IN
  /\ old <= now
  /\ \A x \in new : Y.wrote[x].child \in (old + 1)..now
  /\ \A x, y \in new : Y.wrote[x].child = Y.wrote[y].child => x = y
  /\ now = old \/ \E x \in new : Y.wrote[x].child = now
  /\ \A x \in new, z \in Run : Exists(runs, z) => z + (Y.wrote[x].child - old) <= x

NumbersNext(r, Y) ==
  /\ SameTold(runs[r], Y.wrote[r])
  /\ \A x \in DOMAIN Y.wrote \ {r}, z \in Run : Exists(runs, z) => z < x

WritesDecision(t, r, Y) ==
  LET old == runs[r]
      row == Y.wrote[r]
      new == DOMAIN Y.wrote \ {r}
  IN
  /\ Y.kind = "decide"
  /\ r \in DOMAIN Y.wrote
  /\ old.status = "RUNNING"
  /\ row \in RunRow
  /\ SameRun(old, row)
  /\ row.history.asked = old.history.asked
  /\ \A x \in Timeout : row.timers[x] = old.timers[x]
  /\ row.history.heard = old.history.heard
  /\ row.history.fired = old.history.fired
  /\ \/ row.timers["timer-1"] = old.timers["timer-1"]
     \/ old.timers["timer-1"] = "none" /\ row.timers["timer-1"] = "PENDING"
  /\ IF row.status = "CONTINUED_AS_NEW" THEN NumbersNext(r, Y) ELSE NumbersChildren(r, Y)
  /\ \A x \in new :
       /\ IsNew(x, Y.wrote[x])
       /\ r < x
       /\ \A u \in Tx \ {t} : x \notin DOMAIN tx[u].wrote
  /\ \/ /\ row.status = "RUNNING" /\ Y.todo = << >>
        /\ \A x \in new : IsChild(r, x, Y.wrote[x])
     \/ /\ row.status \notin {"ABSENT", "RUNNING", "CONTINUED_AS_NEW"}
        /\ Y.todo = AfterClose(r, "run_terminated")
        /\ \A x \in new : IsChild(r, x, Y.wrote[x])
     \/ /\ row.status = "CONTINUED_AS_NEW"
        /\ Y.todo = AfterClose(r, "run_continued_as_new")
        /\ ~old.history.asked
        /\ \E x \in new : new = {x} /\ IsNext(old, Y.wrote[x])

(* Statements are statements. *)
LEMMA AfterCloseType ==
  ASSUME NEW r \in Run, NEW type
  PROVE  /\ AfterClose(r, type) \in Seq(OpRow)
         /\ AfterClose(r, type) # << >>
         /\ type = "run_continued_as_new" => AfterClose(r, type) = <<Op("children", r)>>
         /\ type # "run_continued_as_new" =>
              AfterClose(r, type) = <<Op("notify", r), Op("children", r)>>
<1>1. /\ Op("notify", r) \in OpRow /\ Op("children", r) \in OpRow
  BY DEF Op, OpRow, OpName
<1>2. CASE type = "run_continued_as_new"
  BY <1>1, <1>2 DEF AfterClose
<1>3. CASE type # "run_continued_as_new"
  <2>1. AfterClose(r, type) = <<Op("notify", r), Op("children", r)>>
    <3> DEFINE a == Op("notify", r)
               b == Op("children", r)
    <3>1. AfterClose(r, type) = <<a>> \o <<b>>
      BY <1>3 DEF AfterClose
    <3>2. a \in OpRow /\ b \in OpRow
      BY <1>1
    <3> HIDE DEF a, b
    <3>4. /\ <<a>> \in Seq(OpRow) /\ <<b>> \in Seq(OpRow) /\ <<a, b>> \in Seq(OpRow)
          /\ Len(<<a>>) = 1 /\ Len(<<b>>) = 1 /\ Len(<<a, b>>) = 2
      BY <3>2
    <3>5. /\ <<a>> \o <<b>> \in Seq(OpRow)
          /\ Len(<<a>> \o <<b>>) = 2
          /\ \A i \in 1..2 : (<<a>> \o <<b>>)[i] = IF i <= 1 THEN <<a>>[i] ELSE <<b>>[i - 1]
      BY <3>4, ConcatProperties
    <3>6. \A i \in 1..2 : (<<a>> \o <<b>>)[i] = <<a, b>>[i]
      <4>1. 1..2 = {1, 2}
        OBVIOUS
      <4>2. (<<a>> \o <<b>>)[1] = <<a>>[1] /\ (<<a>> \o <<b>>)[2] = <<b>>[2 - 1]
        BY <3>5
      <4>3. (<<a>> \o <<b>>)[1] = a /\ (<<a>> \o <<b>>)[2] = b
        BY <4>2
      <4>4. QED
        BY <4>1, <4>3
    <3>7. <<a>> \o <<b>> = <<a, b>>
      BY <3>4, <3>5, <3>6, SeqEqual
    <3>3. QED
      BY <3>1, <3>7 DEF a, b
  <2>2. QED
    BY <2>1, <1>1, <1>3
<1>4. QED
  BY <1>2, <1>3

(* A body that writes its run alone, or nothing.                            *)
LEMMA ActDoes ==
  ASSUME LocksInv, NEW t \in Tx, NextIs(t, "body"),
         NEW wrote \in Written, NEW ends, Act(t, wrote, ends)
  PROVE  \E Y : /\ Moved(t, Y)
                /\ Y.held = tx[t].held \cup {At(t)}
                /\ Y.wrote = wrote
                /\ Y.todo = IF ends = "none" THEN << >> ELSE AfterClose(At(t), ends)
<1> DEFINE X == tx[t]
           held == X.held \cup {At(t)}
           todo == IF ends = "none" THEN << >> ELSE AfterClose(At(t), ends)
           Y == [X EXCEPT !.held = held, !.wrote = wrote, !.todo = todo]
<1>1. X \in TxRow /\ X.held \subseteq Run /\ At(t) \in Run
  BY OfTx, AtBody
<1>2. held \in SUBSET Run /\ todo \in Seq(OpRow)
  BY <1>1, AfterCloseType, EmptySeq
<1>3. tx' = [tx EXCEPT ![t].held = held, ![t].wrote = wrote, ![t].todo = todo]
  <2>1. tx \in [Tx -> TxRow]
    BY DEF LocksInv, TypeInv
  <2>2. QED
    BY <2>1 DEF Act
<1> HIDE DEF held, todo, X
<1>4. tx' = [tx EXCEPT ![t] = [tx[t] EXCEPT !.held = held, !.wrote = wrote, !.todo = todo]]
  BY <1>3, TxStep
<1>5. /\ Y \in TxRow
      /\ Y.kind = X.kind
      /\ Y.run = X.run
      /\ Y.timer = X.timer
      /\ Y.held = held
      /\ Y.wrote = wrote
      /\ Y.todo = todo
  BY <1>1, <1>2 DEF TxRow
<1>6. tx' = [tx EXCEPT ![t] = Y]
  BY <1>4 DEF X
<1> HIDE DEF Y
<1>7. QED
  BY <1>5, <1>6 DEF held, todo, X, Moved

(* What any body does. *)
BodyDoes(t) ==
  \E Y : /\ Moved(t, Y)
         /\ Y.held = tx[t].held \cup {At(t)}
         /\ \/ WritesNothing(Y)
            \/ WritesRun(At(t), Y)
            \/ WritesDecision(t, At(t), Y)

LEMMA RefusedDoes ==
  ASSUME LocksInv, NEW t \in Tx, NextIs(t, "body"), RefusedBody(t)
  PROVE  BodyDoes(t)
<1>1. << >> \in Written
  BY WrittenType
<1>2. \E Y : /\ Moved(t, Y)
             /\ Y.held = tx[t].held \cup {At(t)}
             /\ Y.wrote = << >>
             /\ Y.todo = IF "none" = "none" THEN << >> ELSE AfterClose(At(t), "none")
  <2>1. Act(t, << >>, "none")
    BY DEF RefusedBody
  <2>2. QED
    BY <1>1, <2>1, ActDoes
<1>3. QED
  BY <1>2 DEF BodyDoes, WritesNothing

(* Any body that writes its run alone.                                      *)
LEMMA OneRowDoes ==
  ASSUME LocksInv, NEW t \in Tx, NextIs(t, "body"),
         NEW wrote, NEW ends \in {"none", "run_terminated", "run_timed_out"},
         Act(t, wrote, ends),
         DOMAIN wrote = {At(t)}, wrote = [x \in {At(t)} |-> wrote[x]],
         Rewritten(runs[At(t)], wrote[At(t)]),
         SameTold(runs[At(t)], wrote[At(t)]),
         SettlesTimer(tx[t], runs[At(t)], wrote[At(t)]),
         ends = "none" => GoesOn(runs[At(t)], wrote[At(t)]),
         ends # "none" => /\ EndsForGood(runs[At(t)], wrote[At(t)])
                          /\ ~(tx[t].kind = "timer" /\ tx[t].timer \notin Timeout)
  PROVE  BodyDoes(t)
<1> DEFINE r == At(t)
<1>1. r \in Run
  BY AtBody
<1>2. wrote \in Written
  <2>1. wrote \in [{r} -> RunRow]
    BY DEF Rewritten
  <2>2. QED
    BY <2>1, <1>1, WrittenType
<1>3. PICK Y : /\ Moved(t, Y)
               /\ Y.held = tx[t].held \cup {r}
               /\ Y.wrote = wrote
               /\ Y.todo = IF ends = "none" THEN << >> ELSE AfterClose(r, ends)
  BY <1>2, ActDoes
<1>4. ends # "none" => Y.todo = AfterClose(r, "run_terminated")
  BY <1>1, <1>3, AfterCloseType
<1>5. WritesRun(r, Y)
  <2>1. SettlesTimer(Y, runs[r], Y.wrote[r])
    BY <1>3 DEF SettlesTimer, Moved
  <2>2. QED
    BY <2>1, <1>3, <1>4 DEF WritesRun, Moved
<1>6. QED
  BY <1>3, <1>5 DEF BodyDoes

LEMMA CancelDoes ==
  ASSUME LocksInv, NEW t \in Tx, NextIs(t, "body"), CancelBody(t)
  PROVE  BodyDoes(t)
<1> DEFINE r == At(t)
           wrote == [x \in {r} |-> AskedToCancel(runs[x])]
<1>1. r \in Run /\ r = tx[t].run /\ runs[r] \in RunRow
  BY AtBody, OfTx
<1>2. Act(t, wrote, "none") /\ runs[r].status = "RUNNING"
  BY <1>1 DEF CancelBody, Refused, Open
<1>3. wrote[r] = AskedToCancel(runs[r]) /\ DOMAIN wrote = {r}
      /\ wrote = [x \in {r} |-> wrote[x]]
  OBVIOUS
<1> HIDE DEF wrote
<1>4. Rewritten(runs[r], wrote[r]) /\ GoesOn(runs[r], wrote[r])
  BY <1>1, <1>2, <1>3, AskedType DEF Rewritten, GoesOn, StaysClosed, SameTimers
<1>5. SameTold(runs[r], wrote[r]) /\ SettlesTimer(tx[t], runs[r], wrote[r])
  BY <1>1, <1>3, AskedType DEF SettlesTimer
<1>6. QED
  BY <1>2, <1>3, <1>4, <1>5, OneRowDoes

LEMMA TerminateDoes ==
  ASSUME LocksInv, NEW t \in Tx, NextIs(t, "body"), TerminateBody(t)
  PROVE  BodyDoes(t)
<1> DEFINE r == At(t)
           wrote == [x \in {r} |-> ClosedRow(runs[x], "run_terminated")]
<1>1. r \in Run /\ r = tx[t].run /\ runs[r] \in RunRow
  BY AtBody, OfTx
<1>2. Act(t, wrote, "run_terminated") /\ runs[r].status = "RUNNING" /\ tx[t].kind = "terminate"
  BY <1>1 DEF TerminateBody, Refused, Open
<1>3. wrote[r] = ClosedRow(runs[r], "run_terminated") /\ DOMAIN wrote = {r}
      /\ wrote = [x \in {r} |-> wrote[x]]
  OBVIOUS
<1> HIDE DEF wrote
<1>4. Rewritten(runs[r], wrote[r]) /\ EndsForGood(runs[r], wrote[r])
  BY <1>1, <1>2, <1>3, ClosedType DEF Rewritten, EndsForGood, StaysClosed, ClosingType, StatusOf
<1>5. SameTold(runs[r], wrote[r]) /\ SettlesTimer(tx[t], runs[r], wrote[r])
  <2>1. "run_terminated" \in ClosingType
    BY DEF ClosingType
  <2>2. wrote[r].history = runs[r].history /\ wrote[r].timers = runs[r].timers
    BY <2>1, <1>1, <1>3, ClosedType
  <2>3. QED
    BY <2>2, <1>2 DEF SettlesTimer, SameTold, SameTimers
<1>6. QED
  BY <1>2, <1>3, <1>4, <1>5, OneRowDoes

LEMMA TimerDoes ==
  ASSUME LocksInv, NEW t \in Tx, NextIs(t, "body"), TimerBody(t)
  PROVE  BodyDoes(t)
<1> DEFINE r == At(t)
           timer == tx[t].timer
           settled(state) == SettledTimer(runs[r], timer, state)
<1>1. /\ r \in Run /\ r = tx[t].run /\ runs[r] \in RunRow
      /\ timer \in Timer
      /\ tx[t].kind = "timer"
  BY AtBody, OfTx DEF TxOK, TimerBody
<1>2. CASE ~Open(runs, r)
  <2> DEFINE wrote == [x \in {r} |-> settled("CANCELLED")]
  <2>1. Act(t, wrote, "none")
    BY <1>2 DEF TimerBody
  <2>2. wrote[r] = settled("CANCELLED") /\ DOMAIN wrote = {r}
        /\ wrote = [x \in {r} |-> wrote[x]]
    OBVIOUS
  <2> HIDE DEF wrote
  <2>3. Rewritten(runs[r], wrote[r]) /\ GoesOn(runs[r], wrote[r])
    <3> DEFINE row == settled("CANCELLED")
    <3>1. /\ row \in RunRow /\ SameRun(runs[r], row) /\ row.status = runs[r].status
          /\ row.history = runs[r].history
      BY <1>1, SettledType DEF TimerState
    <3> HIDE DEF row
    <3>2. wrote[r] = row /\ runs[r].status # "RUNNING"
      BY <2>2, <1>2 DEF row, Open
    <3>3. QED
      BY <3>1, <3>2 DEF Rewritten, GoesOn, StaysClosed
  <2>4. SameTold(runs[r], wrote[r]) /\ SettlesTimer(tx[t], runs[r], wrote[r])
    <3>1. "CANCELLED" \in TimerState
      BY DEF TimerState
    <3>2. /\ settled("CANCELLED").status = runs[r].status
          /\ settled("CANCELLED").history = runs[r].history
          /\ settled("CANCELLED").timers = [runs[r].timers EXCEPT ![timer] = "CANCELLED"]
      BY <3>1, <1>1, SettledType
    <3>3. QED
      BY <3>2, <2>2, <1>1 DEF SettlesTimer, SameTold
  <2>5. QED
    BY <2>1, <2>2, <2>3, <2>4, OneRowDoes
<1>3. CASE Open(runs, r) /\ timer \in Timeout
  <2> DEFINE wrote == [x \in {r} |-> ClosedRow(settled("FIRED"), "run_timed_out")]
  <2>1. Act(t, wrote, "run_timed_out")
    BY <1>3 DEF TimerBody
  <2>2. wrote[r] = ClosedRow(settled("FIRED"), "run_timed_out") /\ DOMAIN wrote = {r}
        /\ wrote = [x \in {r} |-> wrote[x]]
    OBVIOUS
  <2> HIDE DEF wrote
  <2> DEFINE s == settled("FIRED")
  <2>3. /\ s \in RunRow /\ SameRun(runs[r], s) /\ s.history = runs[r].history
        /\ s.timers = [runs[r].timers EXCEPT ![timer] = "FIRED"]
    BY <1>1, SettledType DEF TimerState
  <2> HIDE DEF s
  <2>4. wrote[r] = ClosedRow(s, "run_timed_out")
    BY <2>2 DEF s
  <2>5. Rewritten(runs[r], wrote[r]) /\ EndsForGood(runs[r], wrote[r])
    BY <1>3, <2>3, <2>4, ClosedType
      DEF Rewritten, EndsForGood, StaysClosed, ClosingType, StatusOf, SameRun, Open
  <2>6. SameTold(runs[r], wrote[r]) /\ SettlesTimer(tx[t], runs[r], wrote[r])
    <3>1. "run_timed_out" \in ClosingType /\ StatusOf("run_timed_out") = "TIMED_OUT"
      BY DEF ClosingType, StatusOf
    <3>2. /\ wrote[r].history = runs[r].history
          /\ wrote[r].timers = [runs[r].timers EXCEPT ![timer] = "FIRED"]
          /\ wrote[r].status = "TIMED_OUT"
      BY <3>1, <2>3, <2>4, ClosedType
    <3>3. QED
      BY <3>2, <1>1, <1>3 DEF SettlesTimer, SameTold, Open
  <2>7. QED
    BY <2>1, <2>2, <2>5, <2>6, <1>3, OneRowDoes
<1>4. CASE Open(runs, r) /\ timer \notin Timeout
  <2> DEFINE wrote == [x \in {r} |-> FiredRow(runs[x], timer)]
  <2>1. Act(t, wrote, "none")
    BY <1>4 DEF TimerBody
  <2>2. wrote[r] = FiredRow(runs[r], timer) /\ DOMAIN wrote = {r}
        /\ wrote = [x \in {r} |-> wrote[x]]
    OBVIOUS
  <2> HIDE DEF wrote
  <2>3. \A x \in Timeout : FiredRow(runs[r], timer).timers[x] = runs[r].timers[x]
    <3>1. FiredRow(runs[r], timer).timers = [runs[r].timers EXCEPT ![timer] = "FIRED"]
      BY <1>1, FiredType
    <3>2. runs[r].timers \in [Timer -> TimerState] /\ Timeout \subseteq Timer
      BY <1>1 DEF RunRow, Timer
    <3>3. QED
      BY <3>1, <3>2, <1>4
  <2>4. Rewritten(runs[r], wrote[r]) /\ GoesOn(runs[r], wrote[r])
    <3> DEFINE row == FiredRow(runs[r], timer)
    <3>1. /\ row \in RunRow /\ SameRun(runs[r], row) /\ row.status = runs[r].status
          /\ row.history.asked = runs[r].history.asked
      BY <1>1, FiredType
    <3> HIDE DEF row
    <3>2. wrote[r] = row /\ \A x \in Timeout : row.timers[x] = runs[r].timers[x]
      BY <2>2, <2>3 DEF row
    <3>3. runs[r].status = "RUNNING"
      BY <1>4 DEF Open
    <3>4. QED
      BY <3>1, <3>2, <3>3 DEF Rewritten, GoesOn, StaysClosed
  <2>5. SameTold(runs[r], wrote[r]) /\ SettlesTimer(tx[t], runs[r], wrote[r])
    <3>1. /\ SameTold(runs[r], FiredRow(runs[r], timer))
          /\ FiredRow(runs[r], timer).status = runs[r].status
          /\ FiredRow(runs[r], timer).timers = [runs[r].timers EXCEPT ![timer] = "FIRED"]
          /\ FiredRow(runs[r], timer).history.fired = runs[r].history.fired + 1
      BY <1>1, FiredType
    <3>2. QED
      BY <3>1, <2>2, <1>1, <1>4 DEF SettlesTimer
  <2>6. QED
    BY <2>1, <2>2, <2>4, <2>5, OneRowDoes
<1>5. QED
  BY <1>2, <1>3, <1>4

(* The ids of new runs come after those of all there are or are about to    *)
(* be.                                                                      *)
LEMMA FreshIsNew ==
  ASSUME LocksInv, NEW r \in Run, Exists(runs, r), NEW n \in Nat
  PROVE  /\ DOMAIN Fresh(n) = 1..n
         /\ \A i \in 1..n :
              /\ Fresh(n)[i] > r
              /\ ~(Fresh(n)[i] \in Run /\ Exists(runs, Fresh(n)[i]))
              /\ \A u \in Tx : Fresh(n)[i] \notin DOMAIN tx[u].wrote
              /\ \A z \in Run : Exists(runs, z) => z + i <= Fresh(n)[i]
         /\ \A i, j \in 1..n : Fresh(n)[i] = Fresh(n)[j] => i = j
<1>1. Taken \subseteq 0..MaxRuns /\ MaxRuns \in Nat
  <2>1. \A u \in Tx : DOMAIN tx[u].wrote \subseteq Run
    BY OfTx
  <2>2. QED
    BY <2>1, SizeIsNat DEF Taken, Run
<1>2. r \in Taken
  <2>1. runs[r] # Absent
    BY AbsentType DEF Exists
  <2>2. QED
    BY <2>1 DEF Taken
<1>3. \E m \in Taken : \A x \in Taken : x <= m
  <2> HIDE DEF Taken
  <2>1. QED
    BY <1>1, <1>2, BoundedMax
<1> DEFINE last == CHOOSE m \in Taken : \A x \in Taken : x <= m
<1>4. last \in Taken /\ \A x \in Taken : x <= last
  BY <1>3
<1>5. Fresh(n) = [i \in 1..n |-> last + i]
  BY DEF Fresh
<1> HIDE DEF last
<1>6. last \in Nat
  BY <1>1, <1>4
<1>7. ASSUME NEW i \in 1..n
      PROVE  Fresh(n)[i] \notin Taken /\ Fresh(n)[i] > r
  <2>1. last + i > last
    BY <1>6
  <2>2. \A x \in Taken : x \in Nat /\ x < last + i
    BY <2>1, <1>1, <1>4, <1>6
  <2>3. last + i \notin Taken /\ last + i > r
    BY <2>2, <1>2, <1>6
  <2>4. QED
    BY <2>3, <1>5
<1>8. \A x \in Run : Exists(runs, x) => x \in Taken
  BY AbsentType DEF Exists, Taken
<1>9. \A u \in Tx : DOMAIN tx[u].wrote \subseteq Taken
  BY DEF Taken
<1>10. ASSUME NEW i \in 1..n, NEW z \in Taken
       PROVE  z + i <= Fresh(n)[i]
  <2>1. z <= last /\ z \in Nat
    BY <1>1, <1>4
  <2>2. z + i <= last + i
    BY <2>1, <1>6
  <2>3. QED
    BY <2>2, <1>5
<1>11. ASSUME NEW i \in 1..n, NEW j \in 1..n, Fresh(n)[i] = Fresh(n)[j]
       PROVE  i = j
  <2>1. last + i = last + j
    BY <1>5, <1>11
  <2>2. QED
    BY <2>1, <1>6
<1>12. QED
  BY <1>5, <1>7, <1>8, <1>9, <1>10, <1>11

(* What a workflow decides is a decision.                                   *)
LEMMA DecisionType ==
  ASSUME NEW row \in RunRow, NEW d \in Decisions(row)
  PROVE  /\ d \in DecisionRow
         /\ NewRuns(d) \in Nat
         /\ DOMAIN d.kids = 1..Len(d.kids)
         /\ \A i \in DOMAIN d.kids : d.kids[i].policy \in Policy /\ d.kids[i].limits \subseteq Timeout
         /\ d.ends = "run_continued_as_new" =>
              ~row.history.asked /\ NewRuns(d) = 1 /\ Len(d.kids) = 0
         /\ d.ends # "run_continued_as_new" => NewRuns(d) = Len(d.kids)
         /\ d.ends = "none" \/ d.ends \in ClosingType
<1>1. /\ d.kids \in {<< >>} \cup {<<k>> : k \in ChildKind} \cup {<<k, l>> : k, l \in ChildKind}
      /\ d.timer \in BOOLEAN
      /\ d.ends \in {"none", "run_cancelled"} \cup Endings
      /\ d = [kids |-> d.kids, timer |-> d.timer, ends |-> d.ends]
      /\ row.history.asked => d.ends \in {"none", "run_cancelled"}
  BY DEF Decisions
<1>2. d.kids \in Seq(ChildKind)
  <2>1. CASE d.kids = << >>
    BY <2>1
  <2>2. CASE \E k \in ChildKind : d.kids = <<k>>
    BY <2>2
  <2>3. CASE \E k, l \in ChildKind : d.kids = <<k, l>>
    BY <2>3
  <2>4. QED
    BY <1>1, <2>1, <2>2, <2>3
<1>3. d.ends \in {"none"} \cup ClosingType
  BY <1>1, TreeAssumption DEF TreeAssumption, ClosingType, Ending
<1>4. d \in DecisionRow
  BY <1>1, <1>2, <1>3 DEF DecisionRow
<1>5. Len(d.kids) \in Nat /\ DOMAIN d.kids = 1..Len(d.kids)
      /\ \A i \in DOMAIN d.kids : d.kids[i] \in ChildKind
  <2>1. Len(d.kids) \in Nat /\ DOMAIN d.kids = 1..Len(d.kids)
        /\ d.kids \in [1..Len(d.kids) -> ChildKind]
    BY <1>2, LenProperties
  <2>2. QED
    BY <2>1
<1>6. \A k \in ChildKind : k.policy \in Policy /\ k.limits \subseteq Timeout
  BY TreeAssumption DEF TreeAssumption
<1>7. d.ends = "run_continued_as_new" => ~row.history.asked /\ Len(d.kids) = 0
  <2>1. d.ends = "run_continued_as_new" => d.kids = << >>
    BY DEF Decisions
  <2>2. QED
    BY <2>1, <1>1
<1>8. QED
  BY <1>3, <1>4, <1>5, <1>6, <1>7 DEF NewRuns

(* The rows a decision adds are new runs.                                   *)
LEMMA AddedType ==
  ASSUME LocksInv, NEW r \in Run, Exists(runs, r), NEW d \in Decisions(runs[r]),
         NEW new, DOMAIN new = 1..NewRuns(d), \A i \in DOMAIN new : new[i] \in Run,
         NEW i \in DOMAIN new
  PROVE  LET row == AddedRows(runs, r, d, new)[i] IN
         /\ row \in RunRow
         /\ row.status = "RUNNING"
         /\ row.timers = Armed(row.limits)
         /\ row.history = NoHistory
         /\ IF d.ends = "run_continued_as_new" THEN IsNext(runs[r], row)
            ELSE IsChild(r, new[i], row) /\ row.child = runs[r].history.started + i
<1> DEFINE row == AddedRows(runs, r, d, new)[i]
           old == runs[r]
<1>1. /\ old \in RunRow
      /\ old.parent \in Nat /\ old.first \in Nat /\ old.policy \in Policy
      /\ old.limits \in SUBSET Timeout
      /\ old.history.started \in Nat
  <2>1. old \in RunRow
    BY DEF LocksInv, TypeInv
  <2>2. old.history \in HistoryRow
    BY <2>1 DEF RunRow
  <2>3. QED
    BY <2>1, <2>2 DEF RunRow, HistoryRow
<1>2. /\ DOMAIN d.kids = 1..Len(d.kids)
      /\ \A k \in DOMAIN d.kids : d.kids[k].policy \in Policy /\ d.kids[k].limits \subseteq Timeout
      /\ d.ends # "run_continued_as_new" => NewRuns(d) = Len(d.kids)
  BY <1>1, DecisionType
<1>3. CASE d.ends = "run_continued_as_new"
  <2> DEFINE parent == old.parent
             first == old.first
             policy == old.policy
             limits == old.limits
  <2>1. row = NewRow(parent, None, first, policy, limits)
    BY <1>3 DEF AddedRows, ContinuedRow
  <2>2. /\ None \in Nat /\ parent \in Nat /\ first \in Nat /\ policy \in Policy
        /\ limits \in SUBSET Timeout
    BY <1>1 DEF None
  <2> HIDE DEF row, parent, first, policy, limits
  <2>3. row \in RunRow /\ row.status = "RUNNING" /\ row.parent = parent
        /\ row.first = first /\ row.policy = policy /\ row.limits = limits
        /\ row.timers = Armed(limits) /\ row.child = None /\ row.history = NoHistory
    BY <2>1, <2>2, NewRowType
  <2>4. QED
    BY <2>3, <1>3 DEF IsNext, row, parent, first, policy, limits
<1>4. CASE d.ends # "run_continued_as_new"
  <2> DEFINE child == old.history.started + i
             policy == d.kids[i].policy
             limits == d.kids[i].limits
             x == new[i]
  <2>1. row = NewRow(r, child, x, policy, limits)
    BY <1>4 DEF AddedRows, ChildRow
  <2>2. child \in Nat /\ policy \in Policy /\ limits \in SUBSET Timeout /\ x \in Nat /\ r \in Nat
    <3>1. i \in DOMAIN d.kids /\ i \in Nat
      BY <1>2, <1>4, DecisionType
    <3>2. x \in Run
      OBVIOUS
    <3>3. QED
      BY <1>1, <1>2, <3>1, <3>2 DEF Run
  <2> HIDE DEF child, policy, limits, x, row
  <2>3. row \in RunRow /\ row.status = "RUNNING" /\ row.parent = r /\ row.first = x
        /\ row.limits = limits /\ row.timers = Armed(limits)
        /\ row.child = child /\ row.history = NoHistory
    BY <2>1, <2>2, NewRowType
  <2>4. QED
    BY <2>3, <1>4 DEF IsChild, row, x, child
<1>5. QED
  BY <1>3, <1>4

LEMMA DecideDoes ==
  ASSUME LocksInv, NEW t \in Tx, NextIs(t, "body"), DecideBody(t)
  PROVE  BodyDoes(t)
<1> DEFINE X == tx[t]
           r == At(t)
           old == runs[r]
<1>1. /\ r \in Run /\ r = X.run /\ old \in RunRow
      /\ Exists(runs, r)
      /\ X \in TxRow
      /\ X.held \subseteq Run
  BY AtBody, OfTx
<1>2. X.kind = "decide" /\ old.status = "RUNNING"
  BY <1>1 DEF DecideBody, Refused, Open
<1>3. PICK d \in Decisions(old) :
        LET new == Fresh(NewRuns(d))
            added == AddedRows(runs, r, d, new)
            decided == DecidedRow(old, d)
        IN /\ \A i \in DOMAIN new : new[i] \in Run
           /\ tx' = [tx EXCEPT
                ![t].held = @ \cup {r},
                ![t].decision = d,
                ![t].new = new,
                ![t].wrote = [x \in {r} \cup {new[i] : i \in DOMAIN new} |->
                   IF x = r THEN (IF d.ends = "none" THEN decided ELSE ClosedRow(decided, d.ends))
                   ELSE added[CHOOSE i \in DOMAIN new : new[i] = x]],
                ![t].todo = IF d.ends = "none" THEN << >> ELSE AfterClose(r, d.ends)]
  BY DEF DecideBody
<1> DEFINE n == NewRuns(d)
           new == Fresh(n)
           added == AddedRows(runs, r, d, new)
           decided == DecidedRow(old, d)
           row == IF d.ends = "none" THEN decided ELSE ClosedRow(decided, d.ends)
           held == X.held \cup {r}
           wrote == [x \in {r} \cup {new[i] : i \in DOMAIN new} |->
                       IF x = r THEN row ELSE added[CHOOSE i \in DOMAIN new : new[i] = x]]
           todo == IF d.ends = "none" THEN << >> ELSE AfterClose(r, d.ends)
           Y == [X EXCEPT !.held = held, !.decision = d, !.new = new, !.wrote = wrote, !.todo = todo]
<1>4. /\ d \in DecisionRow
      /\ n \in Nat
      /\ d.ends = "run_continued_as_new" => ~old.history.asked /\ n = 1 /\ Len(d.kids) = 0
      /\ d.ends # "run_continued_as_new" => n = Len(d.kids)
      /\ d.ends = "none" \/ d.ends \in ClosingType
  BY <1>1, <1>3, DecisionType
<1>5. /\ DOMAIN new = 1..n
      /\ \A i \in 1..n : /\ new[i] > r
                         /\ ~(new[i] \in Run /\ Exists(runs, new[i]))
                         /\ \A u \in Tx : new[i] \notin DOMAIN tx[u].wrote
                         /\ \A z \in Run : Exists(runs, z) => z + i <= new[i]
      /\ \A i, j \in 1..n : new[i] = new[j] => i = j
  BY <1>1, <1>4, FreshIsNew
<1>6. \A i \in 1..n : new[i] \in Run
  BY <1>3, <1>5
<1>7. tx' = [tx EXCEPT ![t] = Y]
  <2>1. tx \in [Tx -> TxRow]
    BY DEF LocksInv, TypeInv
  <2>2. tx' = [tx EXCEPT ![t].held = held, ![t].decision = d, ![t].new = new,
                         ![t].wrote = wrote, ![t].todo = todo]
    BY <1>3, <2>1
  <2> HIDE DEF held, new, wrote, todo
  <2>3. QED
    BY <2>1, <2>2
<1> HIDE DEF added, decided
<1>8. /\ decided \in RunRow
      /\ SameRun(old, decided)
      /\ decided.status = "RUNNING"
      /\ decided.history.asked = old.history.asked
      /\ \A x \in Timeout : decided.timers[x] = old.timers[x]
      /\ decided.history.heard = old.history.heard
      /\ decided.history.fired = old.history.fired
      /\ decided.history.started = old.history.started + Len(d.kids)
      /\ \/ decided.timers["timer-1"] = old.timers["timer-1"]
         \/ old.timers["timer-1"] = "none" /\ decided.timers["timer-1"] = "PENDING"
  BY <1>1, <1>2, <1>3, DecidedType DEF decided
<1>9. /\ row \in RunRow
      /\ SameRun(old, row)
      /\ row.history.asked = old.history.asked
      /\ \A x \in Timeout : row.timers[x] = old.timers[x]
      /\ row.history.heard = old.history.heard
      /\ row.history.fired = old.history.fired
      /\ row.history.started = old.history.started + Len(d.kids)
      /\ \/ row.timers["timer-1"] = old.timers["timer-1"]
         \/ old.timers["timer-1"] = "none" /\ row.timers["timer-1"] = "PENDING"
      /\ d.ends = "none" => row.status = "RUNNING"
      /\ d.ends # "none" => row.status = StatusOf(d.ends)
                            /\ row.status \notin {"ABSENT", "RUNNING"}
  <2>1. CASE d.ends = "none"
    BY <2>1, <1>8
  <2>2. CASE d.ends # "none"
    <3>1. row = ClosedRow(decided, d.ends) /\ d.ends \in ClosingType
      BY <2>2, <1>4
    <3> HIDE DEF row
    <3>2. /\ row \in RunRow
          /\ SameRun(decided, row)
          /\ row.status = StatusOf(d.ends)
          /\ row.status \notin {"ABSENT", "RUNNING"}
          /\ row.history = decided.history
          /\ row.timers = decided.timers
      BY <3>1, <1>8, ClosedType
    <3>3. QED
      BY <3>2, <1>8, <2>2 DEF SameRun
  <2>3. QED
    BY <2>1, <2>2
<1>10. /\ d.ends \notin {"none", "run_continued_as_new"} => StatusOf(d.ends) # "CONTINUED_AS_NEW"
       /\ StatusOf("run_continued_as_new") = "CONTINUED_AS_NEW"
  BY <1>4 DEF StatusOf, ClosingType, Ending
<1>11. \A i \in 1..n :
         /\ added[i] \in RunRow
         /\ added[i].status = "RUNNING"
         /\ added[i].timers = Armed(added[i].limits)
         /\ added[i].history = NoHistory
         /\ d.ends = "run_continued_as_new" => IsNext(old, added[i])
         /\ d.ends # "run_continued_as_new" =>
              IsChild(r, new[i], added[i]) /\ added[i].child = old.history.started + i
  <2>1. \A i \in DOMAIN new : new[i] \in Run
    BY <1>5, <1>6
  <2>2. SUFFICES ASSUME NEW i \in DOMAIN new
                 PROVE  LET a == AddedRows(runs, r, d, new)[i] IN
                        /\ a \in RunRow
                        /\ a.status = "RUNNING"
                        /\ a.timers = Armed(a.limits)
                        /\ a.history = NoHistory
                        /\ d.ends = "run_continued_as_new" => IsNext(old, a)
                        /\ d.ends # "run_continued_as_new" =>
                             IsChild(r, new[i], a) /\ a.child = old.history.started + i
    BY <1>5 DEF added
  <2>3. DOMAIN new = 1..NewRuns(d) /\ r \in Run /\ Exists(runs, r) /\ d \in Decisions(runs[r])
    BY <1>1, <1>3, <1>5
  <2> HIDE DEF new, r, n
  <2> DEFINE a == AddedRows(runs, r, d, new)[i]
  <2>4. /\ a \in RunRow
        /\ a.status = "RUNNING"
        /\ a.timers = Armed(a.limits)
        /\ a.history = NoHistory
        /\ IF d.ends = "run_continued_as_new" THEN IsNext(runs[r], a)
           ELSE IsChild(r, new[i], a) /\ a.child = runs[r].history.started + i
    BY <2>1, <2>2, <2>3, AddedType
  <2> HIDE DEF a
  <2>5. QED
    BY <2>4 DEF a
<1> HIDE DEF new, row
<1>12. DOMAIN wrote = {r} \cup {new[i] : i \in 1..n} /\ wrote[r] = row
  BY <1>5
<1>13. ASSUME NEW x \in DOMAIN wrote \ {r}
       PROVE  \E i \in 1..n : x = new[i] /\ wrote[x] = added[i]
  <2>1. x \in {new[i] : i \in DOMAIN new} /\ x # r
    BY <1>12, <1>5, <1>13
  <2>2. wrote[x] = added[CHOOSE i \in DOMAIN new : new[i] = x]
    BY <2>1
  <2> DEFINE k == CHOOSE i \in DOMAIN new : new[i] = x
  <2>3. k \in DOMAIN new /\ new[k] = x
    BY <2>1
  <2>4. QED
    BY <2>2, <2>3, <1>5
<1> HIDE DEF wrote
<1>14. wrote \in Written
  <2>1. \A x \in DOMAIN wrote : wrote[x] \in RunRow
    BY <1>9, <1>11, <1>12, <1>13
  <2>2. DOMAIN wrote \subseteq Run
    BY <1>1, <1>6, <1>12
  <2>3. wrote \in [DOMAIN wrote -> RunRow]
    BY <2>1 DEF wrote
  <2>4. QED
    BY <2>2, <2>3, WrittenType
<1>15. held \in SUBSET Run /\ todo \in Seq(OpRow) /\ new \in Seq(Run)
  <2>1. new \in [1..n -> Run]
    BY <1>5, <1>6 DEF new, Fresh
  <2>2. new \in Seq(Run)
    BY <2>1, <1>4, SeqDef
  <2>3. QED
    BY <2>2, <1>1, AfterCloseType, EmptySeq
<1>16. /\ Y \in TxRow
       /\ Y.kind = X.kind
       /\ Y.run = X.run
       /\ Y.timer = X.timer
       /\ Y.held = held
       /\ Y.wrote = wrote
       /\ Y.todo = todo
  <2> HIDE DEF X, held, todo, new
  <2>1. QED
    BY <1>1, <1>4, <1>14, <1>15 DEF TxRow
<1> HIDE DEF Y
<1>17. ASSUME NEW x \in DOMAIN wrote \ {r}
       PROVE  /\ IsNew(x, wrote[x])
              /\ r < x
              /\ \A u \in Tx \ {t} : x \notin DOMAIN tx[u].wrote
              /\ d.ends = "run_continued_as_new" => IsNext(old, wrote[x])
              /\ d.ends # "run_continued_as_new" => IsChild(r, x, wrote[x])
  <2>1. PICK i \in 1..n : x = new[i] /\ wrote[x] = added[i]
    BY <1>13
  <2>2. x \in Run /\ ~Exists(runs, x) /\ x > r /\ \A u \in Tx : x \notin DOMAIN tx[u].wrote
    BY <2>1, <1>5, <1>6
  <2>3. r < x
    BY <2>2, <1>1 DEF Run
  <2>4. QED
    BY <2>1, <2>2, <2>3, <1>11 DEF IsNew
<1>18. d.ends = "run_continued_as_new" => \E x \in DOMAIN wrote \ {r} : DOMAIN wrote \ {r} = {x}
  <2>1. SUFFICES ASSUME n = 1
                 PROVE  \E x \in DOMAIN wrote \ {r} : DOMAIN wrote \ {r} = {x}
    BY <1>4
  <2>2. DOMAIN wrote = {r} \cup {new[1]}
    BY <2>1, <1>12
  <2>3. new[1] # r
    BY <2>1, <1>5, <1>1 DEF Run
  <2>4. QED
    BY <2>2, <2>3
<1>19. Y.wrote[r] = row /\ DOMAIN Y.wrote \ {r} = DOMAIN wrote \ {r}
  BY <1>12, <1>16
<1>20. d.ends = "run_continued_as_new" => NumbersNext(r, Y)
  <2>1. SUFFICES ASSUME d.ends = "run_continued_as_new"
                 PROVE  NumbersNext(r, Y)
    OBVIOUS
  <2>2. old.history.started \in Nat
    <3>1. old.history \in HistoryRow
      BY <1>1 DEF RunRow
    <3>2. QED
      BY <3>1 DEF HistoryRow
  <2>3. SameTold(old, Y.wrote[r])
    BY <2>1, <2>2, <1>4, <1>9, <1>19 DEF SameTold
  <2>4. ASSUME NEW x \in DOMAIN wrote \ {r}, NEW z \in Run, Exists(runs, z)
        PROVE  z < x
    <3>1. PICK i \in 1..n : x = new[i] /\ wrote[x] = added[i]
      BY <2>4, <1>13
    <3>2. z + i <= x /\ i >= 1 /\ x \in Run /\ i \in Nat /\ z \in Nat
      BY <2>4, <3>1, <1>4, <1>5, <1>6 DEF Run
    <3>3. x \in Nat
      BY <3>2 DEF Run
    <3>4. QED
      BY <3>2, <3>3
  <2>5. QED
    BY <2>3, <2>4, <1>19 DEF NumbersNext
<1>21. d.ends # "run_continued_as_new" => NumbersChildren(r, Y)
  <2>1. SUFFICES ASSUME d.ends # "run_continued_as_new"
                 PROVE  NumbersChildren(r, Y)
    OBVIOUS
  <2> DEFINE was == old.history.started
             now == row.history.started
             kids == DOMAIN wrote \ {r}
  <2>2. was \in Nat
    <3>1. old.history \in HistoryRow
      BY <1>1 DEF RunRow
    <3>2. QED
      BY <3>1 DEF HistoryRow
  <2>3. now = was + n
    BY <2>1, <1>4, <1>9
  <2> HIDE DEF was, now
  <2>4. ASSUME NEW x \in kids
        PROVE  \E i \in 1..n : x = new[i] /\ wrote[x].child = was + i
    <3>1. PICK i \in 1..n : x = new[i] /\ wrote[x] = added[i]
      BY <1>13
    <3>2. QED
      BY <3>1, <2>1, <1>11 DEF was
  <2>5. was <= now
    BY <2>2, <2>3, <1>4
  <2>6. ASSUME NEW x \in kids
        PROVE  /\ wrote[x].child \in (was + 1)..now
               /\ \A z \in Run : Exists(runs, z) => z + (wrote[x].child - was) <= x
    <3>1. PICK i \in 1..n : x = new[i] /\ wrote[x].child = was + i
      BY <2>4
    <3>2. was + i \in (was + 1)..now /\ (was + i) - was = i
      BY <2>2, <2>3, <1>4
    <3>3. QED
      BY <3>1, <3>2, <1>5
  <2>7. ASSUME NEW x \in kids, NEW y \in kids, wrote[x].child = wrote[y].child
        PROVE  x = y
    <3>1. PICK i \in 1..n : x = new[i] /\ wrote[x].child = was + i
      BY <2>4
    <3>2. PICK j \in 1..n : y = new[j] /\ wrote[y].child = was + j
      BY <2>4
    <3>3. i = j
      BY <3>1, <3>2, <2>2, <2>7
    <3>4. QED
      BY <3>1, <3>2, <3>3
  <2>8. now = was \/ \E x \in kids : wrote[x].child = now
    <3>1. CASE n = 0
      BY <3>1, <2>2, <2>3
    <3>2. CASE n # 0
      <4>1. n \in 1..n /\ n \in DOMAIN new
        BY <3>2, <1>4, <1>5
      <4>2. new[n] \in kids
        <5>1. new[n] > r /\ r \in Nat
          BY <4>1, <1>1, <1>5 DEF Run
        <5>2. QED
          BY <4>1, <5>1, <1>12
      <4>3. PICK i \in 1..n : new[n] = new[i] /\ wrote[new[n]].child = was + i
        BY <4>2, <2>4
      <4>4. i = n
        BY <4>1, <4>3, <1>5
      <4>5. QED
        BY <4>2, <4>3, <4>4, <2>3
    <3>3. QED
      BY <3>1, <3>2
  <2>9. /\ runs[r].history.started = was /\ Y.wrote[r].history.started = now
        /\ DOMAIN Y.wrote \ {r} = kids /\ Y.wrote = wrote
    BY <1>16, <1>19 DEF was, now
  <2> HIDE DEF kids, n
  <2>10. QED
    BY <2>5, <2>6, <2>7, <2>8, <2>9 DEF NumbersChildren
<1>22. WritesDecision(t, r, Y)
  <2> HIDE DEF X, old, r
  <2>1. CASE d.ends = "none"
    <3>1. Y.todo = << >>
      BY <2>1, <1>16
    <3>2. QED
      BY <3>1, <2>1, <1>2, <1>9, <1>12, <1>16, <1>17, <1>21 DEF WritesDecision, old
  <2>2. CASE d.ends = "run_continued_as_new"
    <3>1. Y.todo = AfterClose(r, "run_continued_as_new")
      BY <2>2, <1>16
    <3>2. row.status = "CONTINUED_AS_NEW"
      <4>1. row.status = StatusOf(d.ends)
        BY <2>2, <1>9
      <4>2. StatusOf(d.ends) = StatusOf("run_continued_as_new")
        BY <2>2
      <4>3. QED
        BY <4>1, <4>2, <1>10
    <3>3. \E x \in DOMAIN wrote \ {r} : DOMAIN wrote \ {r} = {x} /\ IsNext(old, wrote[x])
      BY <2>2, <1>17, <1>18
    <3>4. QED
      BY <3>1, <3>2, <3>3, <2>2, <1>2, <1>4, <1>9, <1>12, <1>16, <1>17, <1>20
      DEF WritesDecision, old
  <2>3. CASE d.ends \notin {"none", "run_continued_as_new"}
    <3>1. Y.todo = AfterClose(r, "run_terminated")
      BY <2>3, <1>1, <1>16, AfterCloseType
    <3>2. QED
      BY <3>1, <2>3, <1>2, <1>9, <1>10, <1>12, <1>16, <1>17, <1>21 DEF WritesDecision, old
  <2>4. QED
    BY <2>1, <2>2, <2>3
<1>23. QED
  BY <1>7, <1>16, <1>22 DEF BodyDoes, Moved

(* One of them is what the body of a transaction does.                      *)
LEMMA AnyBodyDoes ==
  ASSUME LocksInv, NEW t \in Tx, Body(t)
  PROVE  /\ BodyDoes(t)
         /\ NextIs(t, "body") /\ FreeToLock(t, At(t))
         /\ runs' = runs /\ begun' = begun
BY RefusedDoes, DecideDoes, CancelDoes, TerminateDoes, TimerDoes DEF Body

-----------------------------------------------------------------------------
(* The invariant is inductive *)

LEMMA BodyKeeps ==
  ASSUME LocksInv, NEW t \in Tx, Body(t)
  PROVE  LocksInv'
<1> DEFINE X == tx[t]
           r == At(t)
           old == runs[r]
<1>1. /\ BodyDoes(t)
      /\ NextIs(t, "body") /\ FreeToLock(t, r)
      /\ runs' = runs /\ begun' = begun
  BY AnyBodyDoes
<1>2. PICK Y : /\ Moved(t, Y)
               /\ Y.held = X.held \cup {r}
               /\ WritesNothing(Y) \/ WritesRun(r, Y) \/ WritesDecision(t, r, Y)
  BY <1>1 DEF BodyDoes
<1>3. /\ r \in Run /\ r = X.run /\ Exists(runs, r)
      /\ OutermostIn(runs, X) # r => X.held = {OutermostIn(runs, X)}
      /\ old \in RunRow /\ old.parent \in Nat
      /\ LinksOK(runs, r, old)
      /\ old.status # "ABSENT"
  <2>1. /\ r \in Run /\ r = X.run /\ Exists(runs, r)
        /\ OutermostIn(runs, X) # r => X.held = {OutermostIn(runs, X)}
    BY <1>1, AtBody
  <2>2. old \in RunRow /\ LinksOK(runs, r, old)
    BY <2>1 DEF LocksInv, TypeInv, RowsOK
  <2>3. QED
    BY <2>1, <2>2 DEF RunRow, Exists
<1> HIDE DEF X, r, old
<1>4. /\ WroteOK(runs, Y)
      /\ \A u \in Tx \ {t} : \A x \in DOMAIN Y.wrote :
           ~Exists(runs, x) => x \notin DOMAIN tx[u].wrote
      /\ \/ Y.todo = << >>
         \/ Y.todo = AfterClose(r, "run_continued_as_new")
         \/ Y.todo = AfterClose(r, "run_terminated")
      /\ Y.todo # << >> => ~(Y.kind = "timer" /\ Y.timer \notin Timeout)
  <2>1. CASE WritesNothing(Y)
    BY <2>1, WrittenType DEF WritesNothing, WroteOK
  <2>2. CASE WritesRun(r, Y)
    <3> DEFINE row == Y.wrote[r]
    <3>1. /\ DOMAIN Y.wrote = {r}
          /\ SameRun(old, row) /\ StaysClosed(old, row)
          /\ row.status # "ABSENT"
      BY <2>2, <1>3 DEF WritesRun, Rewritten, GoesOn, EndsForGood, old
    <3>2. LinksOK(runs, r, row)
      BY <3>1, <1>3 DEF LinksOK, SameRun
    <3>3. WroteOK(runs, Y)
      BY <3>1, <3>2, <1>2, <1>3 DEF WroteOK, old
    <3>4. /\ Y.todo = << >> \/ Y.todo = AfterClose(r, "run_terminated")
          /\ Y.todo # << >> => ~(Y.kind = "timer" /\ Y.timer \notin Timeout)
      BY <2>2 DEF WritesRun
    <3>5. QED
      BY <3>1, <3>3, <3>4, <1>3
  <2>3. CASE WritesDecision(t, r, Y)
    <3> DEFINE row == Y.wrote[r]
    <3>1. /\ r \in DOMAIN Y.wrote
          /\ old.status = "RUNNING"
          /\ SameRun(old, row)
          /\ row.status # "ABSENT"
          /\ \A x \in DOMAIN Y.wrote \ {r} :
               /\ IsNew(x, Y.wrote[x])
               /\ r < x
               /\ \A u \in Tx \ {t} : x \notin DOMAIN tx[u].wrote
               /\ IsChild(r, x, Y.wrote[x]) \/ IsNext(old, Y.wrote[x])
      BY <2>3, Zenon DEF WritesDecision, old
    <3>2. LinksOK(runs, r, row)
      BY <3>1, <1>3 DEF LinksOK, SameRun
    <3>3. X.kind = "decide" /\ r \in Y.held
      BY <2>3, <1>2 DEF WritesDecision, Moved, X
    <3>4. old.parent \in Y.held \cup {None}
      <4>1. OutermostIn(runs, X) = IF old.parent = None THEN r ELSE old.parent
        BY <3>3, <1>3 DEF OutermostIn, old
      <4>2. old.parent # r
        BY <1>3 DEF LinksOK, Run
      <4>3. QED
        BY <4>1, <4>2, <1>2, <1>3
    <3>5. ASSUME NEW x \in DOMAIN Y.wrote \ {r}
          PROVE  /\ Y.wrote[x].status # "ABSENT"
                 /\ LinksOK(runs, x, Y.wrote[x])
                 /\ ~Exists(runs, x)
                 /\ Y.wrote[x].parent \in Y.held \cup {None}
      <4>1. x \in Run /\ ~Exists(runs, x) /\ r < x /\ Y.wrote[x].status = "RUNNING"
        BY <3>1 DEF IsNew
      <4>2. CASE IsChild(r, x, Y.wrote[x])
        <5>1. Y.wrote[x].parent = r /\ Y.wrote[x].first = x /\ x \in 1..x
          BY <4>1, <4>2 DEF IsChild, Run
        <5>2. QED
          BY <5>1, <4>1, <3>3, <1>3 DEF LinksOK
      <4>3. CASE IsNext(old, Y.wrote[x])
        <5>1. Y.wrote[x].parent = old.parent /\ Y.wrote[x].first = old.first
          BY <4>3 DEF IsNext
        <5>2. old.parent < x
          BY <1>3, <4>1 DEF LinksOK, Run
        <5>3. old.first \in 1..x
          BY <1>3, <4>1 DEF LinksOK, Run
        <5>4. QED
          BY <5>1, <5>2, <5>3, <4>1, <3>4, <1>3 DEF LinksOK
      <4>4. QED
        BY <4>2, <4>3, <3>1
    <3>6. WroteOK(runs, Y)
      <4>1. SUFFICES ASSUME NEW x \in DOMAIN Y.wrote
                     PROVE  LET w == Y.wrote[x] IN
                            /\ w.status # "ABSENT"
                            /\ LinksOK(runs, x, w)
                            /\ Exists(runs, x) => /\ x \in Y.held /\ SameRun(runs[x], w)
                                                  /\ StaysClosed(runs[x], w)
                            /\ ~Exists(runs, x) => w.parent \in Y.held \cup {None}
        BY DEF WroteOK
      <4>2. CASE x = r
        BY <4>2, <3>1, <3>2, <3>3, <1>3 DEF StaysClosed, old
      <4>3. CASE x # r
        BY <4>3, <3>5
      <4>4. QED
        BY <4>2, <4>3
    <3>7. /\ Y.kind = "decide"
          /\ \/ Y.todo = << >>
             \/ Y.todo = AfterClose(r, "run_continued_as_new")
             \/ Y.todo = AfterClose(r, "run_terminated")
      BY <2>3 DEF WritesDecision
    <3>8. QED
      BY <3>1, <3>6, <3>7, <1>3
  <2>4. QED
    BY <2>1, <2>2, <2>3, <1>2
<1>5. QED
  BY <1>1, <1>2, <1>4, ActKeeps DEF Moved, X, r

(* A transaction rewrites a row it holds.                                   *)
LEMMA PutRow ==
  ASSUME LocksInv, NEW t \in Tx, NEW x \in tx[t].held, NEW row,
         Rewritten(RowIn(runs, tx[t], x), row), row.status # "ABSENT",
         NEW Y, Y.kind = tx[t].kind, Y.run = tx[t].run, Y.timer = tx[t].timer,
         Y.held = tx[t].held, Y.wrote = Put(t, x, row)
  PROVE  /\ Y.wrote \in Written
         /\ WroteOK(runs, Y)
         /\ HeldOK(runs, Y)
         /\ DOMAIN Y.wrote = DOMAIN tx[t].wrote \cup {x}
         /\ Y.wrote[x] = row
         /\ \A y \in Run : y # x => RowIn(runs, Y, y) = RowIn(runs, tx[t], y)
         /\ RowIn(runs, Y, x) = row
         /\ \A y \in Run : KnownTo(runs, tx[t], y) <=> KnownTo(runs, Y, y)
         /\ \A y \in Run : SameRun(RowIn(runs, tx[t], y), RowIn(runs, Y, y))
         /\ ~Exists(runs, x) => x \in DOMAIN tx[t].wrote
<1> DEFINE X == tx[t]
           w == Put(t, x, row)
<1>1. /\ x \in Run
      /\ DOMAIN X.wrote \subseteq Run
      /\ X.wrote \in [DOMAIN X.wrote -> RunRow]
      /\ WroteOK(runs, X) /\ HeldOK(runs, X)
      /\ row \in RunRow
  BY OfTx DEF TxOK, Rewritten
<1>2. /\ DOMAIN w = DOMAIN X.wrote \cup {x}
      /\ w[x] = row
      /\ \A y \in DOMAIN X.wrote : y # x => w[y] = X.wrote[y]
      /\ w \in [DOMAIN w -> RunRow]
  BY <1>1 DEF Put
<1> HIDE DEF w
<1>3. w \in Written
  BY <1>1, <1>2, WrittenType
<1>4. Y.wrote = w
  BY DEF w
<1>5. /\ \A y \in Run : y # x => RowIn(runs, Y, y) = RowIn(runs, X, y)
      /\ RowIn(runs, Y, x) = row
  BY <1>1, <1>2, <1>4 DEF RowIn
<1>6. KnownTo(runs, X, x) /\ SameRun(RowIn(runs, X, x), row)
  BY <1>1 DEF HeldOK, Rewritten
<1>7. /\ \A y \in Run : KnownTo(runs, X, y) <=> KnownTo(runs, Y, y)
      /\ \A y \in Run : SameRun(RowIn(runs, X, y), RowIn(runs, Y, y))
  BY <1>5, <1>6 DEF KnownTo, SameRun
<1>8. ~Exists(runs, x) => x \in DOMAIN X.wrote
  BY <1>6 DEF KnownTo, RowIn, Exists
<1>9. WroteOK(runs, Y)
  <2>1. SUFFICES ASSUME NEW y \in DOMAIN w
                 PROVE  LET o == w[y] IN
                        /\ o.status # "ABSENT"
                        /\ LinksOK(runs, y, o)
                        /\ Exists(runs, y) => /\ y \in Y.held /\ SameRun(runs[y], o)
                                              /\ StaysClosed(runs[y], o)
                        /\ ~Exists(runs, y) => o.parent \in Y.held \cup {None}
    BY <1>4 DEF WroteOK
  <2>2. CASE y # x
    <3>1. y \in DOMAIN X.wrote /\ w[y] = X.wrote[y]
      BY <1>2, <2>2
    <3>2. QED
      BY <3>1, <1>1 DEF WroteOK
  <2>3. CASE y = x
    <3> DEFINE seen == RowIn(runs, X, x)
    <3>1. LinksOK(runs, x, seen)
      BY <1>1, <1>6, SeenRow
    <3>2. LinksOK(runs, x, row)
      BY <3>1, <1>6 DEF LinksOK, SameRun
    <3>3. Exists(runs, x) => SameRun(runs[x], seen) /\ StaysClosed(runs[x], seen)
      BY <1>1 DEF RowIn, WroteOK, SameRun, StaysClosed
    <3>4. Exists(runs, x) => SameRun(runs[x], row) /\ StaysClosed(runs[x], row)
      <4>1. StaysClosed(seen, row)
        BY DEF Rewritten
      <4> HIDE DEF seen
      <4>2. QED
        BY <4>1, <3>3, <1>6 DEF SameRun, StaysClosed, seen
    <3>5. ~Exists(runs, x) => seen.parent \in X.held \cup {None}
      BY <1>8, <1>1 DEF WroteOK, RowIn
    <3>6. ~Exists(runs, x) => row.parent \in Y.held \cup {None}
      BY <3>5, <1>6 DEF SameRun
    <3>7. QED
      BY <2>3, <3>2, <3>4, <3>6, <1>2
  <2>4. QED
    BY <2>2, <2>3
<1>10. HeldOK(runs, Y)
  <2>1. OutermostIn(runs, Y) = OutermostIn(runs, X)
    BY DEF OutermostIn
  <2>2. X.held \subseteq Run
    BY OfTx
  <2>3. \A y \in Run : RowIn(runs, Y, y).parent = RowIn(runs, X, y).parent
    BY <1>7 DEF SameRun
  <2>4. QED
    BY <2>1, <2>2, <2>3, <1>1, <1>7 DEF HeldOK
<1>11. QED
  BY <1>2, <1>3, <1>4, <1>5, <1>7, <1>8, <1>9, <1>10

(* What is left to do stays possible, behind what a statement puts before   *)
(* it.                                                                      *)
LEMMA RestStaysOK ==
  ASSUME LocksInv, NEW t \in Tx, Acted(runs, tx[t]), tx[t].todo # << >>,
         Head(tx[t].todo).op # "lock",
         NEW Y, Y.run = tx[t].run, Y.held = tx[t].held,
         \A x \in Run : KnownTo(runs, tx[t], x) => KnownTo(runs, Y, x),
         \A x \in Run : RowIn(runs, Y, x).parent = RowIn(runs, tx[t], x).parent,
         NEW a \in Seq(OpRow), Y.todo = a \o Tail(tx[t].todo),
         \A i \in 1..Len(a) : StatementOK(runs, Y, i)
  PROVE  Acted(runs, Y)
<1> DEFINE X == tx[t]
           b == Tail(X.todo)
<1>1. /\ b \in Seq(OpRow)
      /\ X.todo[1].op # "lock"
      /\ \A i \in DOMAIN b : i \in Nat /\ b[i] = X.todo[i + 1] /\ i + 1 \in DOMAIN X.todo
  BY HasTodo
<1>2. /\ Len(a) \in Nat
      /\ Len(b) \in Nat /\ DOMAIN b = 1..Len(b)
      /\ DOMAIN Y.todo = 1..(Len(a) + Len(b))
      /\ \A i \in 1..Len(b) : Y.todo[Len(a) + i] = b[i]
      /\ \A i \in 1..(Len(a) + Len(b)) :
           i \in 1..Len(a) \/ (i - Len(a) \in 1..Len(b) /\ i = Len(a) + (i - Len(a)))
  BY <1>1, TodoBefore
<1> HIDE DEF b
<1>3. ASSUME NEW k \in 1..Len(b)
      PROVE  StatementOK(runs, Y, Len(a) + k)
  <2>1. /\ k \in Nat
        /\ k + 1 \in DOMAIN X.todo
        /\ Y.todo[Len(a) + k] = X.todo[k + 1]
    BY <1>1, <1>2
  <2>2. StatementOK(runs, X, k + 1)
    BY <2>1 DEF Acted
  <2> DEFINE y == X.todo[k + 1].run
  <2>3. /\ KnownTo(runs, Y, y)
        /\ RowIn(runs, Y, y).parent = RowIn(runs, X, y).parent
        /\ RowIn(runs, Y, y).parent \in Y.held \cup {None}
    BY <2>2 DEF StatementOK, KnownTo
  <2>4. (\E j \in 1..k : X.todo[j] = Op("lock", y)) =>
           \E j \in 1..(Len(a) + k - 1) : Y.todo[j] = Op("lock", y)
    <3>1. SUFFICES ASSUME NEW j \in 1..k, X.todo[j] = Op("lock", y)
                   PROVE  \E i \in 1..(Len(a) + k - 1) : Y.todo[i] = Op("lock", y)
      OBVIOUS
    <3>2. j # 1
      BY <3>1, <1>1 DEF Op
    <3>3. j - 1 \in 1..Len(b) /\ j = (j - 1) + 1 /\ Len(a) + (j - 1) \in 1..(Len(a) + k - 1)
      BY <3>2, <2>1, <1>2
    <3>4. Y.todo[Len(a) + (j - 1)] = X.todo[j]
      BY <3>3, <1>1, <1>2
    <3>5. QED
      BY <3>1, <3>3, <3>4
  <2>5. (k + 1) - 1 = k /\ (Len(a) + k) - 1 = Len(a) + k - 1
    BY <2>1, <1>2
  <2> HIDE DEF y
  <2>6. \/ X.todo[k + 1].op \in {"notify", "children"} /\ y \in X.held
        \/ X.todo[k + 1].op = "lock" /\ RowIn(runs, X, y).parent # None
        \/ /\ X.todo[k + 1].op = "policy" /\ RowIn(runs, X, y).parent # None
           /\ y \in X.held \/ \E j \in 1..k : X.todo[j] = Op("lock", y)
    BY <2>2, <2>5 DEF StatementOK, y
  <2>7. Y.todo[Len(a) + k].run = y
    BY <2>1 DEF y
  <2>8. QED
    BY <2>1, <2>3, <2>4, <2>5, <2>6, <2>7 DEF StatementOK
<1>4. \A i \in DOMAIN Y.todo : StatementOK(runs, Y, i)
  BY <1>2, <1>3
<1>5. QED
  BY <1>4 DEF Acted

-----------------------------------------------------------------------------
(* What is done with a parent and with children *)

(* A transaction with a statement other than a lock before it has acted.    *)
LEMMA AtStatement ==
  ASSUME LocksInv, NEW t \in Tx, NEW name \in {"notify", "children", "policy"}, NextIs(t, name)
  PROVE  /\ Acted(runs, tx[t])
         /\ tx[t].todo # << >>
         /\ Head(tx[t].todo).op = name
         /\ At(t) \in tx[t].held
         /\ At(t) \in Run
         /\ KnownTo(runs, tx[t], At(t))
         /\ RowIn(runs, tx[t], At(t)).parent \in tx[t].held \cup {None}
         /\ name = "policy" => RowIn(runs, tx[t], At(t)).parent # None
<1>1. /\ tx[t].todo # << >>
      /\ Head(tx[t].todo).op = name
      /\ Beginning(runs, tx[t]) \/ Acted(runs, tx[t])
      /\ Head(tx[t].todo) = tx[t].todo[1]
      /\ 1 \in DOMAIN tx[t].todo
      /\ At(t) \in Run
  BY HasTodo DEF NextIs
<1>2. ~Beginning(runs, tx[t])
  BY <1>1 DEF Beginning, Op
<1>3. StatementOK(runs, tx[t], 1)
  BY <1>1, <1>2 DEF Acted
<1>4. At(t) = tx[t].todo[1].run /\ tx[t].todo[1].op = name
  BY <1>1 DEF At
<1>5. ~\E j \in 1..(1 - 1) : tx[t].todo[j] = Op("lock", At(t))
  OBVIOUS
<1>6. QED
  BY <1>1, <1>2, <1>3, <1>4, <1>5 DEF StatementOK

(* The number under which the parent knows the chain of x.                  *)
LinkSeen(X, x) ==
  LET row == RowIn(runs, X, x) IN
  IF row.child # None THEN row.child ELSE RowIn(runs, X, row.first).child

(* The parent of a run that closed is told, if it is open, or nothing is    *)
(* done.                                                                    *)
TellsParent(t, Y) ==
  LET x == At(t)
      p == RowIn(runs, tx[t], x).parent
      seen == RowIn(runs, tx[t], p)
  IN
  /\ p \in tx[t].held
  /\ LinkSeen(tx[t], x) # None
  /\ \E row : /\ Y.wrote = Put(t, p, row)
              /\ Rewritten(seen, row)
              /\ row.status = seen.status
              /\ row.status = "RUNNING"
              /\ row.history.asked = seen.history.asked
              /\ SameTimers(seen, row)
              /\ HearsOf(seen, LinkSeen(tx[t], x), RowIn(runs, tx[t], x).status, row)

NobodyToTell(t) ==
  LET p == RowIn(runs, tx[t], At(t)).parent IN
  \/ p = None
  \/ LinkSeen(tx[t], At(t)) = None
  \/ RowIn(runs, tx[t], p).status # "RUNNING"

NotifyDoes(t) ==
  \E Y : /\ Moved(t, Y)
         /\ Y.held = tx[t].held
         /\ Y.todo = Tail(tx[t].todo)
         /\ (Y.wrote = tx[t].wrote /\ NobodyToTell(t)) \/ TellsParent(t, Y)

LEMMA AnyNotifyDoes ==
  ASSUME LocksInv, NEW t \in Tx, NotifyParent(t)
  PROVE  NotifyDoes(t) /\ NextIs(t, "notify") /\ runs' = runs /\ begun' = begun
<1> DEFINE X == tx[t]
           x == At(t)
           p == RowIn(runs, X, x).parent
           todo == Tail(X.todo)
<1>1. /\ NextIs(t, "notify") /\ runs' = runs /\ begun' = begun
      /\ x \in X.held /\ x \in Run
      /\ p \in X.held \cup {None}
      /\ X.todo # << >>
  BY AtStatement DEF NotifyParent
<1>2. /\ X \in TxRow
      /\ X.held \subseteq Run
      /\ X.wrote \in Written
      /\ todo \in Seq(OpRow)
  BY <1>1, OfTx, HasTodo
<1>3. \A y : Row(t, y) = RowIn(runs, X, y)
  BY DEF Row, RowIn
<1>4. CASE p = None
  <2> DEFINE Y == [X EXCEPT !.todo = todo]
  <2>1. tx' = [tx EXCEPT ![t].todo = todo]
    BY <1>3, <1>4 DEF NotifyParent, Rest
  <2> HIDE DEF todo
  <2>2. tx' = [tx EXCEPT ![t] = Y]
    BY <2>1, TxStep
  <2> HIDE DEF X
  <2>3. Y \in TxRow /\ Y.kind = X.kind /\ Y.run = X.run /\ Y.timer = X.timer
        /\ Y.held = X.held /\ Y.wrote = X.wrote /\ Y.todo = todo
    BY <1>2 DEF TxRow
  <2> HIDE DEF Y
  <2>4. NobodyToTell(t)
    BY <1>4 DEF NobodyToTell, X
  <2>5. QED
    BY <1>1, <2>2, <2>3, <2>4 DEF NotifyDoes, Moved, X, todo
<1>5. CASE p # None
  <2>1. p \in X.held /\ p \in Run
    BY <1>1, <1>2, <1>5
  <2> DEFINE wrote == Notified(t, x)
             held == X.held
             Y == [X EXCEPT !.held = held, !.wrote = wrote, !.todo = todo]
             link == LinkOf(t, x)
             seen == RowIn(runs, X, p)
             row == Told(seen, link, RowIn(runs, X, x).status)
  <2>2. tx' = [tx EXCEPT ![t].held = held, ![t].wrote = wrote, ![t].todo = todo]
    <3>1. tx' = [tx EXCEPT ![t].held = @ \cup {p}, ![t].wrote = wrote, ![t].todo = todo]
      <4>1. Row(t, At(t)).parent = p
        BY <1>3
      <4>2. tx' = [tx EXCEPT ![t].held = @ \cup {Row(t, At(t)).parent},
                             ![t].wrote = Notified(t, At(t)),
                             ![t].todo = Rest(t)]
        BY <1>5, <4>1 DEF NotifyParent
      <4>3. QED
        BY <4>1, <4>2 DEF Rest
    <3>2. X.held \cup {p} = X.held
      BY <2>1
    <3>3. tx \in [Tx -> TxRow]
      BY DEF LocksInv, TypeInv
    <3> HIDE DEF wrote, todo, p
    <3>4. QED
      BY <3>1, <3>2, <3>3
  <2>3. /\ \/ wrote = X.wrote /\ (link = None \/ seen.status # "RUNNING")
           \/ wrote = Put(t, p, row) /\ link # None /\ seen.status = "RUNNING"
        /\ link = LinkSeen(X, x)
    BY <1>3 DEF Notified, LinkOf, LinkSeen
  <2>4. seen \in RunRow
    BY <2>1, SeenRow
  <2>5. seen.status = "RUNNING" =>
          /\ Rewritten(seen, row)
          /\ row.status = seen.status
          /\ row.history.asked = seen.history.asked
          /\ SameTimers(seen, row)
          /\ HearsOf(seen, link, RowIn(runs, X, x).status, row)
    <3> DEFINE s == RowIn(runs, X, x).status
    <3> HIDE DEF seen, link, s
    <3>1. row = Told(seen, link, s)
      BY DEF s
    <3> HIDE DEF row
    <3>2. /\ Told(seen, link, s) \in RunRow
          /\ SameRun(seen, Told(seen, link, s))
          /\ Told(seen, link, s).status = seen.status
          /\ Told(seen, link, s).timers = seen.timers
          /\ Told(seen, link, s).history.asked = seen.history.asked
          /\ SameTimers(seen, Told(seen, link, s))
          /\ HearsOf(seen, link, s, Told(seen, link, s))
      BY <2>4, ToldType
    <3>3. /\ row \in RunRow /\ SameRun(seen, row) /\ row.status = seen.status
          /\ row.timers = seen.timers /\ row.history.asked = seen.history.asked
          /\ SameTimers(seen, row)
      BY <3>1, <3>2
    <3>4. HearsOf(seen, link, s, row)
      BY <3>1, <3>2
    <3>5. seen.status = "RUNNING" => Rewritten(seen, row)
      BY <3>3 DEF Rewritten, StaysClosed
    <3>6. QED
      BY <3>3, <3>4, <3>5 DEF s
  <2>6. wrote \in Written
    <3>1. CASE wrote = X.wrote
      BY <3>1, <1>2
    <3>2. CASE wrote = Put(t, p, row) /\ seen.status = "RUNNING"
      <4>1. row.status # "ABSENT" /\ Rewritten(seen, row)
        BY <2>5, <3>2
      <4> DEFINE Z == [X EXCEPT !.wrote = wrote]
      <4>2. Z.kind = X.kind /\ Z.run = X.run /\ Z.timer = X.timer /\ Z.held = X.held
            /\ Z.wrote = wrote
        <5> HIDE DEF X, wrote
        <5>1. QED
          BY <1>2 DEF TxRow
      <4> HIDE DEF Z, wrote, row
      <4>3. Z.wrote \in Written
        BY <2>1, <4>1, <4>2, <3>2, PutRow
      <4>4. QED
        BY <4>2, <4>3
    <3>3. QED
      <4> HIDE DEF wrote, row, link, seen, p
      <4>1. QED
        BY <2>3, <3>1, <3>2
  <2> HIDE DEF held, wrote, todo
  <2>7. tx' = [tx EXCEPT ![t] = Y]
    BY <2>2, TxStep
  <2>8. Y \in TxRow /\ Y.kind = X.kind /\ Y.run = X.run /\ Y.timer = X.timer
        /\ Y.held = held /\ Y.wrote = wrote /\ Y.todo = todo
    <3>1. held \in SUBSET Run
      BY <1>2 DEF held
    <3> HIDE DEF X
    <3>2. QED
      BY <1>2, <2>6, <3>1 DEF TxRow
  <2> HIDE DEF Y
  <2>9. (Y.wrote = X.wrote /\ NobodyToTell(t)) \/ TellsParent(t, Y)
    <3>1. CASE wrote = X.wrote /\ (link = None \/ seen.status # "RUNNING")
      <4> HIDE DEF link, row
      <4>1. QED
        BY <2>3, <2>8, <3>1 DEF NobodyToTell
    <3>2. CASE wrote = Put(t, p, row) /\ link # None /\ seen.status = "RUNNING"
      <4> HIDE DEF link, row
      <4>1. QED
        BY <2>1, <2>3, <2>5, <2>8, <3>2 DEF TellsParent
    <3>3. QED
      <4> HIDE DEF link, row, seen
      <4>1. QED
        BY <2>3, <3>1, <3>2
  <2>10. QED
    BY <1>1, <2>7, <2>8, <2>9 DEF NotifyDoes, Moved, held, todo
<1>6. QED
  BY <1>4, <1>5

(* A statement leaves what is written, or rewrites one row that is held.     *)
RewritesRow(t, Y) ==
  \E x \in tx[t].held : \E row :
    /\ Y.wrote = Put(t, x, row)
    /\ Rewritten(RowIn(runs, tx[t], x), row)
    /\ row.status # "ABSENT"

RowsStayOK(t, Y) ==
  /\ WroteOK(runs, Y)
  /\ HeldOK(runs, Y)
  /\ \A x \in Run : KnownTo(runs, tx[t], x) => KnownTo(runs, Y, x)
  /\ \A x \in Run : RowIn(runs, Y, x).parent = RowIn(runs, tx[t], x).parent
  /\ \A x \in DOMAIN Y.wrote : ~Exists(runs, x) => x \in DOMAIN tx[t].wrote

LEMMA RewriteKeepsRows ==
  ASSUME LocksInv, NEW t \in Tx,
         NEW Y, Y.kind = tx[t].kind, Y.run = tx[t].run, Y.timer = tx[t].timer,
         Y.held = tx[t].held, RewritesRow(t, Y)
  PROVE  RowsStayOK(t, Y)
<1>1. PICK x \in tx[t].held : \E row : /\ Y.wrote = Put(t, x, row)
                                       /\ Rewritten(RowIn(runs, tx[t], x), row)
                                       /\ row.status # "ABSENT"
  BY DEF RewritesRow
<1>2. PICK row : /\ Y.wrote = Put(t, x, row)
                 /\ Rewritten(RowIn(runs, tx[t], x), row)
                 /\ row.status # "ABSENT"
  BY <1>1
<1>3. /\ WroteOK(runs, Y)
      /\ HeldOK(runs, Y)
      /\ DOMAIN Y.wrote = DOMAIN tx[t].wrote \cup {x}
      /\ \A y \in Run : KnownTo(runs, tx[t], y) <=> KnownTo(runs, Y, y)
      /\ \A y \in Run : SameRun(RowIn(runs, tx[t], y), RowIn(runs, Y, y))
      /\ ~Exists(runs, x) => x \in DOMAIN tx[t].wrote
  BY <1>2, PutRow
<1>4. QED
  BY <1>3 DEF RowsStayOK, SameRun

LEMMA SameRowsStayOK ==
  ASSUME LocksInv, NEW t \in Tx,
         NEW Y, Y.kind = tx[t].kind, Y.run = tx[t].run, Y.timer = tx[t].timer,
         Y.held = tx[t].held, Y.wrote = tx[t].wrote
  PROVE  RowsStayOK(t, Y)
<1> DEFINE X == tx[t]
<1>1. \A x : RowIn(runs, Y, x) = RowIn(runs, X, x)
  BY DEF RowIn
<1>2. \A x : KnownTo(runs, Y, x) <=> KnownTo(runs, X, x)
  BY <1>1 DEF KnownTo
<1>3. OutermostIn(runs, Y) = OutermostIn(runs, X)
  BY DEF OutermostIn
<1>4. HeldOK(runs, X) /\ WroteOK(runs, X)
  BY OfTx DEF TxOK
<1>5. HeldOK(runs, Y)
  BY <1>1, <1>2, <1>3, <1>4 DEF HeldOK
<1>6. WroteOK(runs, Y)
  BY <1>4 DEF WroteOK
<1>7. QED
  BY <1>1, <1>2, <1>5, <1>6 DEF RowsStayOK

(* The rows a transaction holds may be rewritten, and statements that are   *)
(* possible put before the others.                                          *)
LEMMA StatementKeeps ==
  ASSUME LocksInv, NEW t \in Tx, NEW name \in {"notify", "children", "policy"}, NextIs(t, name),
         runs' = runs, begun' = begun,
         NEW Y, Moved(t, Y), Y.held = tx[t].held,
         Y.wrote = tx[t].wrote \/ RewritesRow(t, Y),
         NEW a \in Seq(OpRow), Y.todo = a \o Tail(tx[t].todo),
         \A i \in 1..Len(a) :
           LET x == a[i].run IN
           /\ x \in Run
           /\ KnownTo(runs, tx[t], x)
           /\ RowIn(runs, tx[t], x).parent \in tx[t].held \cup {None}
           /\ \/ a[i].op \in {"notify", "children"} /\ x \in tx[t].held
              \/ a[i].op = "lock" /\ RowIn(runs, tx[t], x).parent # None
              \/ /\ a[i].op = "policy" /\ RowIn(runs, tx[t], x).parent # None
                 /\ \E j \in 1..(i - 1) : a[j] = Op("lock", x)
  PROVE  LocksInv'
<1> DEFINE X == tx[t]
<1>1. /\ Acted(runs, X)
      /\ X.todo # << >>
      /\ Head(X.todo).op # "lock"
  BY AtStatement
<1>2. /\ Y \in TxRow /\ tx' = [tx EXCEPT ![t] = Y]
      /\ Y.kind = X.kind /\ Y.run = X.run /\ Y.timer = X.timer
  BY DEF Moved
<1>3. /\ X # NoTx /\ X.kind # "none" /\ Exists(runs, X.run)
      /\ X.kind = "timer" => X.timer \in Timer
      /\ WroteOK(runs, X) /\ HeldOK(runs, X)
      /\ DOMAIN X.wrote \subseteq Run
  BY <1>1, HasTodo, OfTx DEF TxOK
<1>4. /\ WroteOK(runs, Y)
      /\ HeldOK(runs, Y)
      /\ \A x \in Run : KnownTo(runs, X, x) => KnownTo(runs, Y, x)
      /\ \A x \in Run : RowIn(runs, Y, x).parent = RowIn(runs, X, x).parent
      /\ \A x \in DOMAIN Y.wrote : ~Exists(runs, x) => x \in DOMAIN X.wrote
  <2>1. RowsStayOK(t, Y)
    BY <1>2, RewriteKeepsRows, SameRowsStayOK
  <2>2. QED
    BY <2>1 DEF RowsStayOK
<1>5. ASSUME NEW i \in 1..Len(a)
      PROVE  StatementOK(runs, Y, i)
  <2> DEFINE x == a[i].run
  <2>1. /\ Y.todo[i] = a[i]
        /\ \A j \in 1..(i - 1) : Y.todo[j] = a[j]
    <3>1. /\ Tail(X.todo) \in Seq(OpRow)
      BY <1>1, HasTodo
    <3>2. Len(a) \in Nat /\ \A j \in 1..Len(a) : (a \o Tail(X.todo))[j] = a[j]
      BY <3>1, TodoBefore
    <3>3. \A j \in 1..(i - 1) : j \in 1..Len(a)
      BY <3>2
    <3>4. QED
      BY <3>2, <3>3
  <2>2. /\ x \in Run
        /\ KnownTo(runs, Y, x)
        /\ RowIn(runs, Y, x).parent = RowIn(runs, X, x).parent
        /\ RowIn(runs, Y, x).parent \in Y.held \cup {None}
    BY <1>4
  <2>3. \/ a[i].op \in {"notify", "children"} /\ x \in Y.held
        \/ a[i].op = "lock" /\ RowIn(runs, Y, x).parent # None
        \/ /\ a[i].op = "policy" /\ RowIn(runs, Y, x).parent # None
           /\ \E j \in 1..(i - 1) : Y.todo[j] = Op("lock", x)
    BY <2>1, <2>2
  <2>4. QED
    BY <2>1, <2>2, <2>3 DEF StatementOK
<1>6. Acted(runs, Y)
  BY <1>1, <1>2, <1>4, <1>5, RestStaysOK
<1>7. TxOK(runs, Y)
  BY <1>2, <1>3, <1>4, <1>6 DEF TxOK
<1>8. \A u \in Tx \ {t} : Apart(runs, Y, tx[u])
  BY <1>4 DEF Apart, LocksInv
<1>9. begun' \in 0..MaxBegun
  BY DEF LocksInv, TypeInv
<1>10. QED
  BY <1>2, <1>7, <1>8, <1>9, LocalStep

LEMMA NotifyKeeps ==
  ASSUME LocksInv, NEW t \in Tx, NotifyParent(t)
  PROVE  LocksInv'
<1>1. /\ NotifyDoes(t) /\ NextIs(t, "notify") /\ runs' = runs /\ begun' = begun
  BY AnyNotifyDoes
<1>2. PICK Y : /\ Moved(t, Y)
               /\ Y.held = tx[t].held
               /\ Y.todo = Tail(tx[t].todo)
               /\ Y.wrote = tx[t].wrote \/ TellsParent(t, Y)
  BY <1>1 DEF NotifyDoes
<1>3. /\ << >> \in Seq(OpRow)
      /\ Len(<< >>) = 0
      /\ Y.todo = << >> \o Tail(tx[t].todo)
  <2>1. Tail(tx[t].todo) \in Seq(OpRow)
    BY <1>1, AtStatement, HasTodo
  <2>2. QED
    BY <2>1, <1>2, EmptySeq, ConcatEmptySeq
<1>4. Y.wrote = tx[t].wrote \/ RewritesRow(t, Y)
  <2>1. ASSUME TellsParent(t, Y)
        PROVE  RewritesRow(t, Y)
    <3> DEFINE p == RowIn(runs, tx[t], At(t)).parent
    <3>1. PICK row : /\ Y.wrote = Put(t, p, row)
                     /\ Rewritten(RowIn(runs, tx[t], p), row)
                     /\ row.status = "RUNNING"
      BY <2>1 DEF TellsParent
    <3>2. p \in tx[t].held
      BY <2>1 DEF TellsParent
    <3>3. QED
      BY <3>1, <3>2 DEF RewritesRow
  <2>2. QED
    BY <2>1, <1>2
<1>5. \A i \in 1..Len(<< >>) : FALSE
  BY <1>3
<1> DEFINE a == << >>
<1>6. a \in Seq(OpRow) /\ Y.todo = a \o Tail(tx[t].todo) /\ ~\E i \in 1..Len(a) : TRUE
  BY <1>3, <1>5
<1> HIDE DEF a
<1>7. QED
  BY <1>1, <1>2, <1>4, <1>6, StatementKeeps

(* The run may go on although its parent is closed. *)
Settled(row) ==
  \/ row.status # "RUNNING"
  \/ row.policy = "abandon"
  \/ row.policy = "cancel" /\ row.history.asked

(* A child is asked to cancel, or closed with what that entails, or left    *)
(* alone.                                                                   *)
PolicyDoes(t) ==
  LET r == At(t) IN
  \E Y, a :
    /\ Moved(t, Y)
    /\ Y.held = tx[t].held
    /\ Y.todo = a \o Tail(tx[t].todo)
    /\ Y.wrote = tx[t].wrote \/ RewritesRow(t, Y)
    /\ a = << >> \/ a = AfterClose(r, "run_terminated")
    /\ \/ a = << >> /\ Y.wrote = tx[t].wrote /\ Settled(RowIn(runs, tx[t], r))
       \/ \E row : /\ Y.wrote = Put(t, r, row)
                   /\ Rewritten(RowIn(runs, tx[t], r), row)
                   /\ Settled(row)
                   /\ SameTimers(RowIn(runs, tx[t], r), row)
                   /\ SameTold(RowIn(runs, tx[t], r), row)
                   /\ \/ /\ a = << >> /\ row.status = "RUNNING"
                         /\ row.status = RowIn(runs, tx[t], r).status
                      \/ a = AfterClose(r, "run_terminated") /\ EndsForGood(RowIn(runs, tx[t], r), row)

LEMMA AnyPolicyDoes ==
  ASSUME LocksInv, NEW t \in Tx, ApplyPolicy(t)
  PROVE  PolicyDoes(t) /\ NextIs(t, "policy") /\ runs' = runs /\ begun' = begun
<1> DEFINE X == tx[t]
           r == At(t)
           row == Row(t, r)
           policy == IF row.status = "RUNNING" THEN row.policy ELSE "abandon"
           wrote == CASE policy = "cancel" -> Put(t, r, AskedToCancel(row))
                      [] policy = "terminate" -> Put(t, r, ClosedRow(row, "run_terminated"))
                      [] OTHER -> X.wrote
           a == IF policy = "terminate" THEN AfterClose(r, "run_terminated") ELSE << >>
           todo == a \o Tail(X.todo)
           Y == [X EXCEPT !.wrote = wrote, !.todo = todo]
<1>1. /\ NextIs(t, "policy") /\ runs' = runs /\ begun' = begun
      /\ r \in X.held /\ r \in Run
      /\ X.todo # << >>
  BY AtStatement DEF ApplyPolicy
<1>2. /\ X \in TxRow
      /\ X.wrote \in Written
      /\ Tail(X.todo) \in Seq(OpRow)
  BY <1>1, OfTx, HasTodo
<1>3. row = RowIn(runs, X, r) /\ row \in RunRow
  <2>1. row = RowIn(runs, X, r)
    BY DEF Row, RowIn
  <2>2. QED
    BY <2>1, <1>1, SeenRow
<1>4. a \in Seq(OpRow) /\ (a = << >> \/ a = AfterClose(r, "run_terminated"))
  BY <1>1, AfterCloseType, EmptySeq
<1>5. tx' = [tx EXCEPT ![t] = Y]
  <2>1. tx' = [tx EXCEPT ![t].wrote = wrote, ![t].todo = todo]
    <3>1. tx \in [Tx -> TxRow]
      BY DEF LocksInv, TypeInv
    <3>2. QED
      BY <3>1 DEF ApplyPolicy, Rest
  <2> HIDE DEF wrote, todo
  <2>2. QED
    BY <2>1, TxStep
<1>6. \/ a = << >> /\ wrote = X.wrote /\ Settled(row)
      \/ \E new : /\ wrote = Put(t, r, new)
                  /\ Rewritten(row, new)
                  /\ Settled(new)
                  /\ SameTimers(row, new) /\ SameTold(row, new)
                  /\ \/ a = << >> /\ new.status = row.status /\ new.status = "RUNNING"
                     \/ a = AfterClose(r, "run_terminated") /\ EndsForGood(row, new)
  <2>1. CASE policy = "cancel"
    <3> DEFINE new == AskedToCancel(row)
    <3>1. /\ new \in RunRow /\ SameRun(row, new) /\ new.status = row.status
          /\ new.history.asked
          /\ SameTimers(row, new) /\ SameTold(row, new)
      BY <1>3, AskedType
    <3>2. row.status = "RUNNING" /\ row.policy = "cancel"
      BY <2>1
    <3>3. wrote = Put(t, r, new) /\ a = << >>
      BY <2>1
    <3> HIDE DEF new, row, wrote, a
    <3>4. Rewritten(row, new) /\ Settled(new)
      BY <3>1, <3>2 DEF Rewritten, StaysClosed, Settled, SameRun
    <3>5. QED
      BY <3>1, <3>2, <3>3, <3>4
  <2>2. CASE policy = "terminate"
    <3> DEFINE new == ClosedRow(row, "run_terminated")
    <3>1. "run_terminated" \in ClosingType
      BY DEF ClosingType
    <3>2. /\ new \in RunRow /\ SameRun(row, new)
          /\ new.status = StatusOf("run_terminated")
          /\ StatusOf("run_terminated") \notin {"ABSENT", "RUNNING", "CONTINUED_AS_NEW"}
          /\ new.history = row.history
          /\ new.timers = row.timers
      <4> HIDE DEF row
      <4>1. QED
        BY <3>1, <1>3, ClosedType DEF StatusOf
    <3>3. row.status = "RUNNING"
      BY <2>2
    <3>4. wrote = Put(t, r, new) /\ a = AfterClose(r, "run_terminated")
      BY <2>2
    <3> HIDE DEF new, row, wrote, a
    <3>5. Rewritten(row, new) /\ Settled(new) /\ EndsForGood(row, new)
          /\ SameTimers(row, new) /\ SameTold(row, new)
      BY <3>2, <3>3 DEF Rewritten, StaysClosed, Settled, EndsForGood, SameTimers, SameTold
    <3>6. QED
      BY <3>2, <3>4, <3>5
  <2>3. CASE policy \notin {"cancel", "terminate"}
    <3>1. row.policy \in Policy
      <4> HIDE DEF row
      <4>1. QED
        BY <1>3 DEF RunRow
    <3>2. Settled(row)
      BY <2>3, <3>1 DEF Settled, Policy
    <3>3. wrote = X.wrote /\ a = << >>
      BY <2>3
    <3>4. QED
      BY <3>2, <3>3
  <2>4. QED
    BY <2>1, <2>2, <2>3
<1> HIDE DEF a, wrote, row
<1>7. todo \in Seq(OpRow)
  BY <1>2, <1>4, TodoBefore
<1>8. wrote \in Written
  <2>1. SUFFICES ASSUME NEW new, wrote = Put(t, r, new), Rewritten(row, new),
                        new.status # "ABSENT"
                 PROVE  wrote \in Written
    <3>1. wrote = X.wrote \/ \E new : /\ wrote = Put(t, r, new)
                                      /\ Rewritten(row, new)
                                      /\ new.status # "ABSENT"
      BY <1>6 DEF EndsForGood
    <3>2. QED
      BY <1>2, <3>1
  <2> DEFINE Z == [X EXCEPT !.wrote = wrote]
  <2>2. Z.kind = X.kind /\ Z.run = X.run /\ Z.timer = X.timer /\ Z.held = X.held
        /\ Z.wrote = wrote
    <3> HIDE DEF X
    <3>1. QED
      BY <1>2 DEF TxRow
  <2> HIDE DEF Z
  <2>3. Rewritten(RowIn(runs, tx[t], r), new)
    BY <2>1, <1>3
  <2>4. Z.wrote \in Written
    BY <2>1, <2>2, <2>3, <1>1, PutRow
  <2>5. QED
    BY <2>2, <2>4
<1> HIDE DEF todo
<1>9. Y \in TxRow /\ Y.kind = X.kind /\ Y.run = X.run /\ Y.timer = X.timer
      /\ Y.held = X.held /\ Y.wrote = wrote /\ Y.todo = todo
  <2> HIDE DEF X
  <2>1. QED
    BY <1>2, <1>7, <1>8 DEF TxRow
<1> HIDE DEF Y
<1>10. Moved(t, Y)
  BY <1>5, <1>9 DEF Moved
<1>11. Y.wrote = tx[t].wrote \/ RewritesRow(t, Y)
  <2>1. wrote = X.wrote \/ \E new : /\ wrote = Put(t, r, new)
                                    /\ Rewritten(row, new)
                                    /\ new.status # "ABSENT"
    BY <1>6 DEF EndsForGood
  <2>2. QED
    BY <2>1, <1>1, <1>3, <1>9 DEF RewritesRow
<1>12. \/ a = << >> /\ Y.wrote = tx[t].wrote /\ Settled(RowIn(runs, tx[t], r))
       \/ \E new : /\ Y.wrote = Put(t, r, new)
                   /\ Rewritten(RowIn(runs, tx[t], r), new)
                   /\ Settled(new)
                   /\ SameTimers(RowIn(runs, tx[t], r), new)
                   /\ SameTold(RowIn(runs, tx[t], r), new)
                   /\ \/ /\ a = << >> /\ new.status = "RUNNING"
                         /\ new.status = RowIn(runs, tx[t], r).status
                      \/ a = AfterClose(r, "run_terminated") /\ EndsForGood(RowIn(runs, tx[t], r), new)
  BY <1>3, <1>6, <1>9
<1>13. QED
  BY <1>1, <1>4, <1>9, <1>10, <1>11, <1>12 DEF PolicyDoes, todo

LEMMA PolicyKeeps ==
  ASSUME LocksInv, NEW t \in Tx, ApplyPolicy(t)
  PROVE  LocksInv'
<1> DEFINE X == tx[t]
           r == At(t)
<1>1. PolicyDoes(t) /\ NextIs(t, "policy") /\ runs' = runs /\ begun' = begun
  BY AnyPolicyDoes
<1>2. PICK Y, a : /\ Moved(t, Y)
                  /\ Y.held = tx[t].held
                  /\ Y.todo = a \o Tail(tx[t].todo)
                  /\ Y.wrote = tx[t].wrote \/ RewritesRow(t, Y)
                  /\ a = << >> \/ a = AfterClose(r, "run_terminated")
  BY <1>1 DEF PolicyDoes
<1>3. /\ r \in X.held /\ r \in Run
      /\ KnownTo(runs, X, r)
      /\ RowIn(runs, X, r).parent \in X.held \cup {None}
  BY <1>1, AtStatement
<1>4. a \in Seq(OpRow)
  BY <1>2, <1>3, AfterCloseType, EmptySeq
<1>5. \A i \in 1..Len(a) : a[i].run = r /\ a[i].op \in {"notify", "children"}
  <2>1. CASE a = << >>
    BY <2>1, <1>4
  <2>2. CASE a = <<Op("notify", r), Op("children", r)>>
    <3>1. Len(a) = 2 /\ 1..2 = {1, 2}
      BY <2>2
    <3>2. QED
      BY <2>2, <3>1 DEF Op
  <2>3. QED
    BY <2>1, <2>2, <1>2, <1>3, AfterCloseType
<1>6. \A i \in 1..Len(a) :
        LET x == a[i].run IN
        /\ x \in Run
        /\ KnownTo(runs, X, x)
        /\ RowIn(runs, X, x).parent \in X.held \cup {None}
        /\ a[i].op \in {"notify", "children"} /\ x \in X.held
  BY <1>3, <1>5
<1>7. QED
  BY <1>1, <1>2, <1>4, <1>6, StatementKeeps

(* The open children of a closed run are locked and then dealt with, in the *)
(* order of their ids.                                                      *)
LEMMA SelectKeeps ==
  ASSUME LocksInv, NEW t \in Tx, SelectChildren(t)
  PROVE  LocksInv'
<1> DEFINE X == tx[t]
           r == At(t)
           S == OpenChildren(t, r)
           n == Cardinality(S)
           a == Each("lock", S) \o Each("policy", S)
           todo == a \o Tail(X.todo)
           Y == [X EXCEPT !.todo = todo]
<1>1. /\ NextIs(t, "children") /\ runs' = runs /\ begun' = begun
      /\ r \in X.held /\ r \in Run
      /\ X.todo # << >>
      /\ tx' = [tx EXCEPT ![t].todo = todo]
  BY AtStatement DEF SelectChildren, Rest
<1>2. X \in TxRow /\ Tail(X.todo) \in Seq(OpRow)
  BY <1>1, OfTx, HasTodo
<1>3. /\ S \in SUBSET Run
      /\ \A x \in S : /\ KnownTo(runs, X, x)
                      /\ RowIn(runs, X, x).parent = r
      /\ r # None
  <2>1. ASSUME NEW x \in S
        PROVE  KnownTo(runs, X, x) /\ RowIn(runs, X, x).parent = r
    <3>1. Row(t, x) = RowIn(runs, X, x)
      BY DEF Row, RowIn
    <3>2. x \in Run /\ Row(t, x).parent = r /\ Row(t, x).status = "RUNNING"
      BY DEF OpenChildren
    <3>3. QED
      BY <3>1, <3>2 DEF KnownTo
  <2>2. S \in SUBSET Run
    BY DEF OpenChildren
  <2>3. r # None
    BY <1>1 DEF Run, None
  <2>4. QED
    BY <2>1, <2>2, <2>3
<1> HIDE DEF S
<1>4. /\ Each("lock", S) \in Seq(OpRow) /\ Len(Each("lock", S)) = n
      /\ Each("policy", S) \in Seq(OpRow) /\ Len(Each("policy", S)) = n
      /\ n \in Nat
      /\ \A i \in 1..n : /\ Nth(S, i) \in S
                         /\ Each("lock", S)[i] = Op("lock", Nth(S, i))
                         /\ Each("policy", S)[i] = Op("policy", Nth(S, i))
  BY <1>3, EachOf DEF OpName
<1> HIDE DEF n
<1>5. /\ a \in Seq(OpRow)
      /\ Len(a) = n + n
      /\ \A i \in 1..n : a[i] = Op("lock", Nth(S, i))
      /\ \A i \in 1..n : a[n + i] = Op("policy", Nth(S, i))
      /\ \A i \in 1..(n + n) : i \in 1..n \/ (i - n \in 1..n /\ i = n + (i - n))
  <2> DEFINE b == Each("lock", S)
             c == Each("policy", S)
  <2>1. b \in Seq(OpRow) /\ c \in Seq(OpRow) /\ Len(b) = n /\ Len(c) = n
    BY <1>4
  <2> HIDE DEF b, c
  <2>2. /\ b \o c \in Seq(OpRow)
        /\ DOMAIN (b \o c) = 1..(Len(b) + Len(c))
        /\ \A i \in 1..Len(b) : (b \o c)[i] = b[i]
        /\ \A i \in 1..Len(c) : (b \o c)[Len(b) + i] = c[i]
        /\ \A i \in 1..(Len(b) + Len(c)) :
             i \in 1..Len(b) \/ (i - Len(b) \in 1..Len(c) /\ i = Len(b) + (i - Len(b)))
    BY <2>1, TodoBefore
  <2>3. Len(b \o c) = n + n
    BY <2>1, ConcatProperties
  <2>4. QED
    BY <2>1, <2>2, <2>3, <1>4 DEF b, c
<1> HIDE DEF a
<1>6. todo \in Seq(OpRow)
  BY <1>2, <1>5, TodoBefore
<1> HIDE DEF todo
<1>7. tx' = [tx EXCEPT ![t] = Y]
  BY <1>1, TxStep
<1>8. Y \in TxRow /\ Y.kind = X.kind /\ Y.run = X.run /\ Y.timer = X.timer
      /\ Y.held = X.held /\ Y.wrote = X.wrote /\ Y.todo = todo
  <2> HIDE DEF X
  <2>1. QED
    BY <1>2, <1>6 DEF TxRow
<1> HIDE DEF Y
<1>9. Moved(t, Y)
  BY <1>7, <1>8 DEF Moved
<1>10. ASSUME NEW i \in 1..Len(a)
       PROVE  LET x == a[i].run IN
              /\ x \in Run
              /\ KnownTo(runs, X, x)
              /\ RowIn(runs, X, x).parent \in X.held \cup {None}
              /\ \/ a[i].op = "lock" /\ RowIn(runs, X, x).parent # None
                 \/ /\ a[i].op = "policy" /\ RowIn(runs, X, x).parent # None
                    /\ \E j \in 1..(i - 1) : a[j] = Op("lock", x)
  <2>1. ASSUME NEW x \in S
        PROVE  /\ x \in Run
               /\ KnownTo(runs, X, x)
               /\ RowIn(runs, X, x).parent \in X.held \cup {None}
               /\ RowIn(runs, X, x).parent # None
    BY <1>1, <1>3
  <2>2. CASE i \in 1..n
    <3>1. a[i] = Op("lock", Nth(S, i)) /\ Nth(S, i) \in S
      BY <2>2, <1>4, <1>5
    <3>2. a[i].op = "lock" /\ a[i].run = Nth(S, i)
      BY <3>1 DEF Op
    <3>3. QED
      BY <2>1, <3>1, <3>2
  <2>3. CASE i \notin 1..n
    <3> DEFINE k == i - n
    <3>1. k \in 1..n /\ i = n + k
      BY <2>3, <1>5
    <3>2. a[i] = Op("policy", Nth(S, k)) /\ a[k] = Op("lock", Nth(S, k)) /\ Nth(S, k) \in S
      BY <3>1, <1>4, <1>5
    <3>3. k \in 1..(i - 1)
      BY <3>1, <1>4
    <3> HIDE DEF k
    <3>4. a[i].op = "policy" /\ a[i].run = Nth(S, k)
      BY <3>2 DEF Op
    <3>5. QED
      BY <2>1, <3>2, <3>3, <3>4
  <2>4. QED
    BY <2>2, <2>3
<1>11. QED
  BY <1>1, <1>5, <1>8, <1>9, <1>10, StatementKeeps DEF todo

-----------------------------------------------------------------------------
(* Beginning and ending a transaction *)

LEMMA EmptyTx ==
  ASSUME NEW rs, NEW Y
  PROVE  TxOK(rs, NoTx) /\ Apart(rs, NoTx, Y)
<1>1. NoTx.held = {} /\ DOMAIN NoTx.wrote = {}
  BY WrittenType DEF NoTx
<1>2. QED
  BY <1>1 DEF TxOK, WroteOK, HeldOK, Apart

(* A transaction that is rolled back has changed nothing.                   *)
LEMMA RollBackKeeps ==
  ASSUME LocksInv, NEW t \in Tx, RollBack(t)
  PROVE  LocksInv'
<1>1. runs' = runs /\ tx' = [tx EXCEPT ![t] = NoTx]
  BY DEF RollBack
<1>2. begun' \in 0..MaxBegun
  BY LocksAssumption DEF RollBack, Counted, LocksInv, TypeInv, LocksAssumption
<1>3. QED
  BY <1>1, <1>2, EmptyTx, NoTxType, LocalStep

(* One that begins holds nothing, and has its locks to take.                *)
LEMMA BeginKeeps ==
  ASSUME LocksInv, NEW t \in Tx, NEW r, Exists(runs, r),
         runs' = runs, begun' \in 0..MaxBegun,
         NEW Y \in TxRow, tx' = [tx EXCEPT ![t] = Y],
         Y.run = r, Y.kind # "none", Y.kind = "timer" => Y.timer \in Timer,
         Y.held = {}, Y.wrote = << >>,
         Y.todo = IF Y.kind = "timer" /\ Y.timer \notin Timeout
                    THEN LockRunOnly(r) ELSE LockRunWithParent(r)
  PROVE  LocksInv'
<1> DEFINE first == OutermostIn(runs, Y)
<1>1. r \in Run /\ LinksOK(runs, r, runs[r]) /\ runs[r].parent \in Nat
  <2>1. r \in Run /\ LinksOK(runs, r, runs[r]) /\ runs[r] \in RunRow
    BY DEF Exists, LocksInv, RowsOK, TypeInv
  <2>2. QED
    BY <2>1 DEF RunRow
<1>2. runs[r].parent # r
  BY <1>1 DEF LinksOK, Run
<1>3. \/ first = r /\ Y.todo = <<Op("body", r)>>
      \/ first # r /\ Y.todo = <<Op("lock", first), Op("body", r)>>
  BY <1>2 DEF OutermostIn, LockRunOnly, LockRunWithParent
<1>4. Beginning(runs, Y)
  BY <1>3 DEF Beginning
<1>5. WroteOK(runs, Y) /\ HeldOK(runs, Y)
  BY WrittenType DEF WroteOK, HeldOK
<1>6. TxOK(runs, Y)
  BY <1>4, <1>5 DEF TxOK
<1>7. \A u \in Tx \ {t} : Apart(runs, Y, tx[u])
  BY WrittenType DEF Apart
<1>8. QED
  BY <1>6, <1>7, LocalStep

(* The statements that take the locks of a transaction.                     *)
LEMMA LocksOfRun ==
  ASSUME LocksInv, NEW r, Exists(runs, r)
  PROVE  LockRunOnly(r) \in Seq(OpRow) /\ LockRunWithParent(r) \in Seq(OpRow)
<1>1. r \in Run /\ (runs[r].parent # None => runs[r].parent \in Run)
  BY DEF Exists, LocksInv, RowsOK, LinksOK
<1>2. \A x \in Run : Op("lock", x) \in OpRow /\ Op("body", x) \in OpRow
  BY DEF Op, OpRow, OpName
<1>3. QED
  BY <1>1, <1>2 DEF LockRunOnly, LockRunWithParent

LEMMA DecisionBegins ==
  ASSUME LocksInv, NEW t \in Tx, NEW r \in Run, BeginDecision(t, r)
  PROVE  LocksInv'
<1> DEFINE seen == runs[r].history
           todo == LockRunWithParent(r)
           Y == [NoTx EXCEPT !.kind = "decide", !.run = r, !.seen = seen, !.todo = todo]
<1>1. Exists(runs, r) /\ runs' = runs /\ tx' = [tx EXCEPT ![t] = Y]
  BY DEF BeginDecision, Begin, Open, Exists
<1>2. begun' \in 0..MaxBegun
  BY LocksAssumption DEF BeginDecision, Counted, LocksInv, TypeInv, LocksAssumption
<1>3. todo \in Seq(OpRow) /\ seen \in HistoryRow
  BY <1>1, LocksOfRun DEF LocksInv, TypeInv, RunRow
<1> HIDE DEF todo, seen
<1>4. Y \in TxRow /\ Y.run = r /\ Y.kind = "decide" /\ Y.held = {} /\ Y.wrote = << >>
      /\ Y.todo = todo
  <2>1. NoTx.held = {} /\ NoTx.wrote = << >>
    BY DEF NoTx
  <2>2. r \in Nat
    BY DEF Run
  <2>3. QED
    BY <1>3, <2>1, <2>2, NoTxType DEF TxRow, TxKind
<1> HIDE DEF Y
<1>5. QED
  BY <1>1, <1>2, <1>4, BeginKeeps DEF todo

LEMMA RequestBegins ==
  ASSUME LocksInv, NEW t \in Tx, NEW r \in Run, NEW kind \in {"cancel", "terminate"},
         BeginRequest(t, r, kind)
  PROVE  LocksInv'
<1> DEFINE todo == LockRunWithParent(r)
           Y == [NoTx EXCEPT !.kind = kind, !.run = r, !.todo = todo]
<1>1. Exists(runs, r) /\ runs' = runs /\ tx' = [tx EXCEPT ![t] = Y]
  BY DEF BeginRequest, Begin, Open, Exists
<1>2. begun' \in 0..MaxBegun
  BY LocksAssumption DEF BeginRequest, Counted, LocksInv, TypeInv, LocksAssumption
<1>3. todo \in Seq(OpRow)
  BY <1>1, LocksOfRun
<1> HIDE DEF todo
<1>4. Y \in TxRow /\ Y.run = r /\ Y.kind = kind /\ Y.held = {} /\ Y.wrote = << >>
      /\ Y.todo = todo
  <2>1. NoTx.held = {} /\ NoTx.wrote = << >>
    BY DEF NoTx
  <2>2. r \in Nat
    BY DEF Run
  <2>3. QED
    BY <1>3, <2>1, <2>2, NoTxType DEF TxRow, TxKind
<1> HIDE DEF Y
<1>5. QED
  BY <1>1, <1>2, <1>4, BeginKeeps DEF todo

LEMMA TimerBegins ==
  ASSUME LocksInv, NEW t \in Tx, NEW r \in Run, NEW timer \in Timer, BeginTimer(t, r, timer)
  PROVE  LocksInv'
<1> DEFINE todo == IF timer \in Timeout THEN LockRunWithParent(r) ELSE LockRunOnly(r)
           Y == [NoTx EXCEPT !.kind = "timer", !.run = r, !.timer = timer, !.todo = todo]
<1>1. runs[r].timers[timer] = "PENDING" /\ runs' = runs /\ tx' = [tx EXCEPT ![t] = Y]
  BY DEF BeginTimer, Begin
<1>2. begun' \in 0..MaxBegun
  BY DEF BeginTimer, LocksInv, TypeInv
<1>3. Exists(runs, r)
  <2>1. runs[r] # Absent
    BY <1>1, AbsentType
  <2>2. QED
    BY <2>1 DEF LocksInv, RowsOK
<1>4. todo \in Seq(OpRow)
  BY <1>3, LocksOfRun
<1> HIDE DEF todo
<1>5. Y \in TxRow /\ Y.run = r /\ Y.kind = "timer" /\ Y.timer = timer
      /\ Y.held = {} /\ Y.wrote = << >> /\ Y.todo = todo
  <2>1. NoTx.held = {} /\ NoTx.wrote = << >>
    BY DEF NoTx
  <2>2. r \in Nat
    BY DEF Run
  <2>3. QED
    BY <1>4, <2>1, <2>2, NoTxType DEF TxRow, TxKind
<1> HIDE DEF Y
<1>6. Y.todo = IF Y.kind = "timer" /\ Y.timer \notin Timeout
                 THEN LockRunOnly(r) ELSE LockRunWithParent(r)
  BY <1>5 DEF todo
<1>7. QED
  BY <1>1, <1>2, <1>3, <1>5, <1>6, BeginKeeps

(* What a transaction makes of the rows when it commits.                    *)
After(X) == [x \in Run |-> RowIn(runs, X, x)]

LEMMA AfterCommit ==
  ASSUME LocksInv, NEW t \in Tx
  PROVE  /\ After(tx[t]) \in [Run -> RunRow]
         /\ \A x : Exists(runs, x) => /\ Exists(After(tx[t]), x)
                                      /\ SameRun(runs[x], After(tx[t])[x])
         /\ \A x \in Run : x \notin DOMAIN tx[t].wrote => After(tx[t])[x] = runs[x]
         /\ \A x \in DOMAIN tx[t].wrote :
              /\ Exists(After(tx[t]), x)
              /\ After(tx[t])[x] = tx[t].wrote[x]
              /\ Exists(runs, x) => x \in tx[t].held
         /\ RowsOK(After(tx[t]))
<1> DEFINE X == tx[t]
           rs == After(X)
<1>1. \A x \in Run : RowIn(runs, X, x) \in RunRow
  BY SeenRow
<1>2. rs \in [Run -> RunRow] /\ \A x \in Run : rs[x] = RowIn(runs, X, x)
  BY <1>1 DEF After
<1> HIDE DEF rs
<1>3. \A x : Exists(runs, x) => Exists(rs, x) /\ SameRun(runs[x], rs[x])
  <2>1. \A x \in Run : Exists(runs, x) => KnownTo(runs, X, x) /\ SameRun(runs[x], RowIn(runs, X, x))
    BY SeenRow
  <2>2. QED
    BY <2>1, <1>2 DEF Exists, KnownTo
<1>4. \A x \in Run : x \notin DOMAIN X.wrote => rs[x] = runs[x]
  BY <1>2 DEF RowIn
<1>5. ASSUME NEW x \in DOMAIN X.wrote
      PROVE  /\ Exists(rs, x)
             /\ rs[x] = X.wrote[x]
             /\ Exists(runs, x) => x \in X.held
             /\ LinksOK(runs, x, rs[x])
  <2>1. x \in Run /\ WroteOK(runs, X)
    BY OfTx DEF TxOK
  <2>2. rs[x] = X.wrote[x]
    BY <2>1, <1>2 DEF RowIn
  <2>3. QED
    BY <2>1, <2>2 DEF WroteOK, Exists
<1>6. RowsOK(rs)
  <2>1. SUFFICES ASSUME NEW x \in Run
                 PROVE  IF Exists(rs, x) THEN LinksOK(rs, x, rs[x]) ELSE rs[x] = Absent
    BY DEF RowsOK
  <2>2. LinksOK(runs, x, rs[x]) => LinksOK(rs, x, rs[x])
    BY <1>3 DEF LinksOK
  <2>3. CASE x \in DOMAIN X.wrote
    BY <2>2, <2>3, <1>5
  <2>4. CASE x \notin DOMAIN X.wrote
    <3>1. rs[x] = runs[x]
      BY <2>4, <1>4
    <3>2. IF Exists(runs, x) THEN LinksOK(runs, x, runs[x]) ELSE runs[x] = Absent
      BY DEF LocksInv, RowsOK
    <3>3. Exists(rs, x) <=> Exists(runs, x)
      BY <3>1 DEF Exists
    <3>4. QED
      BY <2>2, <3>1, <3>2, <3>3
  <2>5. QED
    BY <2>3, <2>4
<1>7. QED
  BY <1>2, <1>3, <1>4, <1>5, <1>6 DEF rs

(* The others do not notice: what one commits was locked by it alone.       *)
LEMMA OthersStayOK ==
  ASSUME LocksInv, NEW t \in Tx, NEW u \in Tx, t # u
  PROVE  TxOK(After(tx[t]), tx[u])
<1> DEFINE X == tx[t]
           Y == tx[u]
           rs == After(X)
<1>1. /\ \A x : Exists(runs, x) => Exists(rs, x) /\ SameRun(runs[x], rs[x])
      /\ \A x \in Run : x \notin DOMAIN X.wrote => rs[x] = runs[x]
      /\ \A x \in DOMAIN X.wrote : Exists(runs, x) => x \in X.held
  BY AfterCommit
<1> HIDE DEF rs
<1>2. /\ DOMAIN Y.wrote \subseteq Run
      /\ Y.held \subseteq Run
      /\ WroteOK(runs, Y) /\ HeldOK(runs, Y)
  BY OfTx DEF TxOK
<1>3. Apart(runs, X, Y) /\ Apart(runs, Y, X)
  BY DEF LocksInv
<1>4. WroteOK(rs, Y)
  <2>1. SUFFICES ASSUME NEW x \in DOMAIN Y.wrote
                 PROVE  LET row == Y.wrote[x] IN
                        /\ row.status # "ABSENT"
                        /\ LinksOK(rs, x, row)
                        /\ Exists(rs, x) => /\ x \in Y.held /\ SameRun(rs[x], row)
                                            /\ StaysClosed(rs[x], row)
                        /\ ~Exists(rs, x) => row.parent \in Y.held \cup {None}
    BY DEF WroteOK
  <2> DEFINE row == Y.wrote[x]
  <2>2. /\ row.status # "ABSENT"
        /\ LinksOK(runs, x, row)
        /\ Exists(runs, x) => x \in Y.held /\ SameRun(runs[x], row) /\ StaysClosed(runs[x], row)
        /\ ~Exists(runs, x) => row.parent \in Y.held \cup {None}
    BY <1>2 DEF WroteOK
  <2>3. LinksOK(rs, x, row)
    BY <2>2, <1>1 DEF LinksOK
  <2>4. x \notin DOMAIN X.wrote
    <3>1. CASE Exists(runs, x)
      BY <3>1, <2>2, <1>1, <1>3 DEF Apart
    <3>2. CASE ~Exists(runs, x)
      BY <3>2, <1>3 DEF Apart
    <3>3. QED
      BY <3>1, <3>2
  <2>5. rs[x] = runs[x] /\ (Exists(rs, x) <=> Exists(runs, x))
    BY <2>4, <1>1, <1>2 DEF Exists
  <2>6. QED
    BY <2>2, <2>3, <2>5
<1>5. ASSUME NEW x \in Run, KnownTo(runs, Y, x)
      PROVE  KnownTo(rs, Y, x) /\ RowIn(rs, Y, x).parent = RowIn(runs, Y, x).parent
  <2>1. CASE x \in DOMAIN Y.wrote
    BY <2>1, <1>5 DEF KnownTo, RowIn
  <2>2. CASE x \notin DOMAIN Y.wrote
    BY <2>2, <1>1, <1>5 DEF KnownTo, RowIn, Exists, SameRun
  <2>3. QED
    BY <2>1, <2>2
<1>6. CASE Y = NoTx
  BY <1>6, EmptyTx DEF rs
<1>7. CASE Y # NoTx
  <2>1. /\ Y.kind # "none"
        /\ Exists(runs, Y.run)
        /\ Y.kind = "timer" => Y.timer \in Timer
        /\ Beginning(runs, Y) \/ Acted(runs, Y)
    BY <1>7, OfTx DEF TxOK
  <2>2. OutermostIn(rs, Y) = OutermostIn(runs, Y) /\ Exists(rs, Y.run)
    BY <2>1, <1>1 DEF OutermostIn, SameRun
  <2>3. HeldOK(rs, Y)
    BY <2>2, <1>2, <1>5 DEF HeldOK
  <2>4. Beginning(runs, Y) => Beginning(rs, Y)
    BY <2>2 DEF Beginning
  <2>5. ASSUME NEW i \in DOMAIN Y.todo, StatementOK(runs, Y, i)
        PROVE  StatementOK(rs, Y, i)
    <3> DEFINE x == Y.todo[i].run
    <3>1. x \in Run /\ KnownTo(runs, Y, x)
      BY <2>5 DEF StatementOK, KnownTo
    <3>2. KnownTo(rs, Y, x) /\ RowIn(rs, Y, x).parent = RowIn(runs, Y, x).parent
      BY <3>1, <1>5
    <3>3. QED
      BY <3>2, <2>5 DEF StatementOK
  <2>6. Acted(runs, Y) => Acted(rs, Y)
    BY <2>5 DEF Acted
  <2>7. QED
    BY <2>1, <2>2, <2>3, <2>4, <2>6, <1>4 DEF TxOK, rs
<1>8. QED
  BY <1>6, <1>7

LEMMA CommitKeeps ==
  ASSUME LocksInv, NEW t \in Tx, Commit(t)
  PROVE  LocksInv'
<1>1. /\ runs' = After(tx[t])
      /\ tx' = [tx EXCEPT ![t] = NoTx]
      /\ begun' = begun
  BY DEF Commit, After, Row, RowIn
<1>2. /\ runs' \in [Run -> RunRow]
      /\ \A x : Exists(runs, x) => Exists(runs', x)
      /\ RowsOK(runs')
  BY <1>1, AfterCommit
<1>3. /\ tx' \in [Tx -> TxRow]
      /\ tx'[t] = NoTx
      /\ \A u \in Tx \ {t} : tx'[u] = tx[u]
  BY <1>1, NoTxType DEF LocksInv, TypeInv
<1>4. TypeInv'
  BY <1>1, <1>2, <1>3 DEF LocksInv, TypeInv
<1>5. \A u \in Tx : TxOK(runs', tx'[u])
  <2>1. SUFFICES ASSUME NEW u \in Tx
                 PROVE  TxOK(runs', tx'[u])
    OBVIOUS
  <2>2. CASE u = t
    BY <2>2, <1>3, EmptyTx
  <2>3. CASE u # t
    BY <2>3, <1>1, <1>3, OthersStayOK
  <2>4. QED
    BY <2>2, <2>3
<1>6. ASSUME NEW u \in Tx, NEW v \in Tx, u # v
      PROVE  Apart(runs', tx'[u], tx'[v])
  <2>1. CASE u = t
    BY <2>1, <1>3, EmptyTx
  <2>2. CASE v = t
    <3>1. NoTx.held = {} /\ DOMAIN NoTx.wrote = {}
      BY WrittenType DEF NoTx
    <3>2. QED
      BY <2>2, <3>1, <1>3 DEF Apart
  <2>3. CASE u # t /\ v # t
    <3>1. Apart(runs, tx[u], tx[v])
      BY <1>6 DEF LocksInv
    <3>2. Apart(runs', tx[u], tx[v])
      BY <3>1, <1>2 DEF Apart
    <3>3. QED
      BY <2>3, <3>2, <1>3
  <2>4. QED
    BY <2>1, <2>2, <2>3
<1>7. QED
  BY <1>2, <1>4, <1>5, <1>6 DEF LocksInv

-----------------------------------------------------------------------------
(* The invariant holds *)

LEMMA InitHolds ==
  ASSUME Init
  PROVE  LocksInv
<1>1. PICK limits \in RootLimits :
        runs = [x \in Run |-> IF x = 1 THEN NewRow(None, None, 1, "abandon", limits) ELSE Absent]
  BY DEF Init, TreeInit
<1> DEFINE row == NewRow(None, None, 1, "abandon", limits)
<1>2. /\ row \in RunRow
      /\ row.status = "RUNNING"
      /\ row.parent = None
      /\ row.first = 1
  <2>1. limits \in SUBSET Timeout /\ None \in Nat /\ 1 \in Nat /\ "abandon" \in Policy
    BY TreeAssumption DEF TreeAssumption, None, Policy
  <2>2. QED
    BY <2>1, NewRowType
<1>3. 1 \in Run /\ runs[1] = row /\ \A x \in Run : x # 1 => runs[x] = Absent
  BY <1>1, SizeIsNat
<1> HIDE DEF row
<1>4. runs \in [Run -> RunRow]
  BY <1>1, <1>2, <1>3, AbsentType
<1>5. tx = [t \in Tx |-> NoTx] /\ tx \in [Tx -> TxRow] /\ begun \in 0..MaxBegun
  BY NoTxType, LocksAssumption DEF Init, LocksAssumption
<1>6. RowsOK(runs)
  <2>1. ASSUME NEW x \in Run
        PROVE  IF Exists(runs, x) THEN LinksOK(runs, x, runs[x]) ELSE runs[x] = Absent
    <3>1. CASE x = 1
      BY <3>1, <1>2, <1>3 DEF LinksOK, Exists, None
    <3>2. CASE x # 1
      BY <3>2, <1>3, AbsentType DEF Exists
    <3>3. QED
      BY <3>1, <3>2
  <2>2. QED
    BY <2>1 DEF RowsOK
<1>7. QED
  BY <1>4, <1>5, <1>6, EmptyTx DEF LocksInv, TypeInv

LEMMA ProceedKeeps ==
  ASSUME LocksInv, NEW t \in Tx, Proceed(t)
  PROVE  LocksInv'
<1>1. CASE Lock(t)
  BY <1>1, LockKeeps
<1>2. CASE Body(t)
  BY <1>2, BodyKeeps
<1>3. CASE NotifyParent(t)
  BY <1>3, NotifyKeeps
<1>4. CASE SelectChildren(t)
  BY <1>4, SelectKeeps
<1>5. CASE ApplyPolicy(t)
  BY <1>5, PolicyKeeps
<1>6. CASE Commit(t)
  BY <1>6, CommitKeeps
<1>7. QED
  BY <1>1, <1>2, <1>3, <1>4, <1>5, <1>6 DEF Proceed

LEMMA StepKeeps ==
  ASSUME LocksInv, [Next]_vars
  PROVE  LocksInv'
<1>1. CASE UNCHANGED vars
  <2>1. runs' = runs /\ tx' = tx /\ begun' = begun
    BY <1>1 DEF vars
  <2>2. QED
    BY <2>1 DEF LocksInv, TypeInv
<1>2. CASE Next
  <2>1. PICK t \in Tx :
          \/ Proceed(t) \/ RollBack(t)
          \/ \E r \in Run :
               \/ BeginDecision(t, r)
               \/ \E kind \in {"cancel", "terminate"} : BeginRequest(t, r, kind)
               \/ \E timer \in Timer : BeginTimer(t, r, timer)
    BY <1>2 DEF Next
  <2>2. CASE Proceed(t)
    BY <2>2, ProceedKeeps
  <2>3. CASE RollBack(t)
    BY <2>3, RollBackKeeps
  <2>4. ASSUME NEW r \in Run, BeginDecision(t, r)
        PROVE  LocksInv'
    BY <2>4, DecisionBegins
  <2>5. ASSUME NEW r \in Run, NEW kind \in {"cancel", "terminate"}, BeginRequest(t, r, kind)
        PROVE  LocksInv'
    BY <2>5, RequestBegins
  <2>6. ASSUME NEW r \in Run, NEW timer \in Timer, BeginTimer(t, r, timer)
        PROVE  LocksInv'
    BY <2>6, TimerBegins
  <2>7. QED
    BY <2>1, <2>2, <2>3, <2>4, <2>5, <2>6
<1>3. QED
  BY <1>1, <1>2

(* The inductive invariant: rows, transactions and what keeps them apart.   *)
THEOREM LocksInvariant == Spec => []LocksInv
<1>1. Init => LocksInv
  BY InitHolds
<1>2. LocksInv /\ [Next]_vars => LocksInv'
  BY StepKeeps
<1>3. QED
  BY <1>1, <1>2, PTL DEF Spec

(* Rows and transactions have their type, a run comes after its parent and  *)
(* its predecessors, and no row is locked twice, for a tree of any size and *)
(* any number of transactions.                                              *)
THEOREM RunLocksTypeCorrect == Spec => []TypeOK
<1>1. ASSUME LocksInv
      PROVE  TypeOK
  <2>1. ASSUME NEW r \in Run
        PROVE  /\ runs[r].status \in Status
               /\ runs[r].policy \in Policy
               /\ runs[r].limits \in SUBSET Timeout
               /\ runs[r].wake \in BOOLEAN
               /\ runs[r].timers \in [Timer -> {"none", "PENDING", "FIRED", "CANCELLED"}]
               /\ runs[r] # Absent => runs[r].parent < r /\ runs[r].first \in 1..r
    <3>1. runs[r] \in RunRow
      BY <1>1 DEF LocksInv, TypeInv
    <3>2. runs[r] # Absent => LinksOK(runs, r, runs[r])
      BY <1>1 DEF LocksInv, RowsOK
    <3>3. QED
      BY <3>1, <3>2 DEF RunRow, TimerState, LinksOK
  <2>2. \A t \in Tx : tx[t].held \subseteq Run /\ DOMAIN tx[t].wrote \subseteq Run
    BY <1>1, OfTx
  <2>3. \A t, u \in Tx : t # u => tx[t].held \cap tx[u].held = {}
    BY <1>1 DEF LocksInv, Apart
  <2>4. begun \in 0..MaxBegun
    BY <1>1 DEF LocksInv, TypeInv
  <2>5. QED
    BY <2>1, <2>2, <2>3, <2>4 DEF TypeOK
<1>2. QED
  BY <1>1, LocksInvariant, PTL

-----------------------------------------------------------------------------
(* No deadlock *)

(* A transaction that holds a row waits for one whose first row lies        *)
(* deeper in the tree than its own: what it waits for is a child of a row   *)
(* it holds, and the other cannot hold the child without its parent unless  *)
(* the child was the first row it locked.                                   *)
LEMMA WaitsForDeeper ==
  ASSUME LocksInv, NEW t \in Tx, NEW u \in Tx, t # u, tx[t].held # {}, WaitsFor(t, u)
  PROVE  OutermostIn(runs, tx[t]) < OutermostIn(runs, tx[u])
<1> DEFINE X == tx[t]
           Y == tx[u]
           x == At(t)
<1>1. /\ X.todo # << >>
      /\ \/ Head(X.todo).op \in {"lock", "body"} /\ x \in Y.held
         \/ Head(X.todo).op = "notify" /\ RowIn(runs, X, x).parent \in Y.held
  BY DEF WaitsFor, Row, RowIn
<1>2. /\ X # NoTx
      /\ Exists(runs, X.run)
      /\ Beginning(runs, X) \/ Acted(runs, X)
      /\ x \in Run
      /\ Head(X.todo) = X.todo[1]
      /\ 1 \in DOMAIN X.todo
  BY <1>1, HasTodo
<1>3. X.held \cap Y.held = {} /\ Y.held \subseteq Run /\ X.held \subseteq Run
      /\ Apart(runs, X, Y)
  BY OfTx DEF LocksInv, Apart
<1>4. HeldOK(runs, X) /\ HeldOK(runs, Y)
  BY OfTx DEF TxOK
<1>5. OutermostIn(runs, X) \in Run
  BY <1>2, FirstRow
<1>6. ~(Head(X.todo).op = "notify" /\ RowIn(runs, X, x).parent \in Y.held)
  <2>1. Head(X.todo).op = "notify" => RowIn(runs, X, x).parent \in X.held \cup {None}
    BY <1>1, AtStatement DEF NextIs
  <2>2. None \notin Run
    BY DEF Run, None
  <2>3. QED
    BY <2>1, <2>2, <1>3
<1>7. Head(X.todo).op \in {"lock", "body"} /\ x \in Y.held
  BY <1>1, <1>6
<1>8. KnownTo(runs, X, x) /\ RowIn(runs, X, x).parent \in X.held
  <2>1. CASE Beginning(runs, X)
    <3>1. /\ X.held = {OutermostIn(runs, X)}
          /\ OutermostIn(runs, X) # X.run
          /\ X.todo = <<Op("body", X.run)>>
      BY <2>1 DEF Beginning
    <3>2. x = X.run
      BY <3>1 DEF At, Op
    <3>3. OutermostIn(runs, X) = runs[X.run].parent
      BY <3>1, <1>2, FirstRow
    <3>4. KnownTo(runs, X, x) /\ RowIn(runs, X, x).parent = runs[x].parent
      BY <3>2, <1>2, SeenRow DEF SameRun
    <3>5. QED
      BY <3>1, <3>2, <3>3, <3>4
  <2>2. CASE Acted(runs, X)
    <3>1. StatementOK(runs, X, 1) /\ X.todo[1].run = x /\ X.todo[1].op \in {"lock", "body"}
      BY <2>2, <1>2, <1>7 DEF Acted, At
    <3>2. QED
      BY <3>1 DEF StatementOK
  <2>3. QED
    BY <2>1, <2>2, <1>2
<1>9. Exists(runs, x)
  <2>1. KnownTo(runs, Y, x)
    BY <1>4, <1>7 DEF HeldOK
  <2>2. QED
    BY <2>1, <1>3, <1>8 DEF KnownTo, RowIn, Exists, Apart
<1>10. RowIn(runs, Y, x).parent = RowIn(runs, X, x).parent
  BY <1>9, <1>2, SeenRow DEF SameRun
<1>11. x = OutermostIn(runs, Y)
  BY <1>3, <1>4, <1>7, <1>8, <1>10 DEF HeldOK
<1>12. OutermostIn(runs, X) <= RowIn(runs, X, x).parent
  BY <1>4, <1>8 DEF HeldOK
<1>13. RowIn(runs, X, x).parent < x /\ RowIn(runs, X, x).parent \in Nat
  BY <1>2, <1>8, SeenRow DEF LinksOK
<1> DEFINE p == RowIn(runs, X, x).parent
           first == OutermostIn(runs, X)
<1>14. first \in Nat /\ x \in Nat /\ p \in Nat /\ first <= p /\ p < x
  BY <1>2, <1>5, <1>12, <1>13 DEF Run
<1> HIDE DEF p, first
<1>15. first < x
  BY <1>14
<1>16. QED
  BY <1>11, <1>15 DEF first

(* Transactions never wait for each other in a circle, whatever runs they   *)
(* work on and however many there are: of the transactions of a circle that *)
(* hold a row, the one whose first row lies deepest waits for nobody.       *)
THEOREM TransactionsNeverDeadlock == Spec => []NoDeadlock
<1>1. ASSUME LocksInv
      PROVE  NoDeadlock
  <2>1. SUFFICES ASSUME NEW T \in SUBSET Tx, T # {}
                 PROVE  \E t \in T : \A u \in T \ {t} : ~WaitsFor(t, u)
    BY DEF NoDeadlock
  <2>2. \A t, u \in Tx : WaitsFor(t, u) => tx[u].held # {}
    BY DEF WaitsFor
  <2> DEFINE H == {t \in T : tx[t].held # {}}
             O == {OutermostIn(runs, tx[t]) : t \in H}
  <2>3. CASE H = {}
    <3>1. \A u \in T : tx[u].held = {}
      BY <2>3
    <3>2. QED
      BY <2>1, <2>2, <3>1
  <2>4. CASE H # {}
    <3>1. \A t \in H : OutermostIn(runs, tx[t]) \in Run
      <4>1. SUFFICES ASSUME NEW t \in H
                     PROVE  OutermostIn(runs, tx[t]) \in Run
        OBVIOUS
      <4>2. t \in Tx /\ tx[t] # NoTx
        BY DEF NoTx
      <4>3. Exists(runs, tx[t].run)
        BY <1>1, <4>2, OfTx DEF TxOK
      <4>4. QED
        BY <1>1, <4>2, <4>3, FirstRow
    <3>2. O \in SUBSET (0..MaxRuns) /\ O # {} /\ MaxRuns \in Nat
      BY <2>4, <3>1, SizeIsNat DEF Run
    <3>3. PICK m \in O : \A y \in O : y <= m
      <4> HIDE DEF O
      <4>1. QED
        BY <3>2, BoundedMax
    <3>4. PICK t \in H : m = OutermostIn(runs, tx[t])
      BY <3>3
    <3>5. ASSUME NEW u \in T \ {t}, WaitsFor(t, u)
          PROVE  FALSE
      <4>1. t \in Tx /\ u \in Tx /\ t # u /\ tx[t].held # {}
        BY <3>4
      <4>2. u \in H
        BY <2>2, <3>5, <4>1
      <4>3. OutermostIn(runs, tx[t]) < OutermostIn(runs, tx[u])
        BY <1>1, <3>5, <4>1, WaitsForDeeper
      <4>4. OutermostIn(runs, tx[u]) <= OutermostIn(runs, tx[t])
        BY <3>3, <3>4, <4>2
      <4>5. OutermostIn(runs, tx[u]) \in Nat /\ OutermostIn(runs, tx[t]) \in Nat
        BY <3>1, <3>4, <4>2 DEF Run
      <4>6. QED
        BY <4>3, <4>4, <4>5
    <3>6. QED
      BY <3>4, <3>5
  <2>5. QED
    BY <2>3, <2>4
<1>2. QED
  BY <1>1, LocksInvariant, PTL

-----------------------------------------------------------------------------
(* Closed runs *)

(* A closed run takes no event and no other status, whichever transaction   *)
(* read it while it was open: what a transaction rewrites it has locked,    *)
(* and it looks whether the run is open only then.                          *)
THEOREM ClosedRunsStayClosed == Spec => ClosedIsFinal
<1> DEFINE A == \A r \in Run : ~Open(runs, r) /\ runs[r] # Absent =>
                  runs'[r].history = runs[r].history /\ runs'[r].status = runs[r].status
<1>1. ASSUME LocksInv, [Next]_vars
      PROVE  A
  <2>1. CASE runs' = runs
    BY <2>1
  <2>2. CASE \E t \in Tx : Commit(t)
    <3>1. PICK t \in Tx : Commit(t)
      BY <2>2
    <3>2. SUFFICES ASSUME NEW r \in Run, ~Open(runs, r), runs[r] # Absent
                   PROVE  runs'[r].history = runs[r].history /\ runs'[r].status = runs[r].status
      OBVIOUS
    <3>3. runs' = After(tx[t])
      BY <3>1 DEF Commit, After, Row, RowIn
    <3>4. Exists(runs, r) /\ runs[r].status # "RUNNING"
      BY <1>1, <3>2 DEF LocksInv, RowsOK, Open
    <3>5. CASE r \in DOMAIN tx[t].wrote
      <4>1. runs'[r] = tx[t].wrote[r]
        BY <1>1, <3>3, <3>5, AfterCommit
      <4>2. StaysClosed(runs[r], tx[t].wrote[r])
        BY <1>1, <3>4, <3>5, OfTx DEF TxOK, WroteOK
      <4>3. QED
        BY <3>4, <4>1, <4>2 DEF StaysClosed
    <3>6. CASE r \notin DOMAIN tx[t].wrote
      BY <1>1, <3>3, <3>6, AfterCommit
    <3>7. QED
      BY <3>5, <3>6
  <2>3. QED
    BY <1>1, <2>1, <2>2
    DEF Next, vars, Proceed, Lock, Body, NotifyParent, SelectChildren, ApplyPolicy, RollBack,
        BeginDecision, BeginRequest, BeginTimer, Begin
<1>2. LocksInv /\ [Next]_vars => A
  BY <1>1
<1>3. QED
  BY <1>2, LocksInvariant, PTL DEF Spec, ClosedIsFinal

-----------------------------------------------------------------------------
(* Every child is dealt with: it may go on without its parent, or the       *)
(* transaction still has to look for the children of that parent, or to     *)
(* deal with this one.                                                      *)
Pending(X, name, x) ==
  \E i \in DOMAIN X.todo : X.todo[i].op = name /\ X.todo[i].run = x

DealtWith(rs, X, x) ==
  LET row == RowIn(rs, X, x) IN
  (KnownTo(rs, X, x) /\ row.parent # None /\ RowIn(rs, X, row.parent).status # "RUNNING") =>
    Settled(row) \/ Pending(X, "children", row.parent) \/ Pending(X, "policy", x)

(* A transaction never takes away what let a run go on.                     *)
SettledStays(rs, X) ==
  \A x \in DOMAIN X.wrote : Exists(rs, x) /\ Settled(rs[x]) => Settled(X.wrote[x])

CaredFor(rs, X) == SettledStays(rs, X) /\ \A x \in Run : DealtWith(rs, X, x)

OrphanInv ==
  /\ LocksInv
  /\ CaredFor(runs, NoTx)
  /\ \A t \in Tx : CaredFor(runs, tx[t])

(* What is rewritten may still go on. *)
LEMMA RewrittenSettled ==
  ASSUME NEW a, NEW b, Rewritten(a, b), Settled(a)
  PROVE  Settled(b)
BY DEF Rewritten, Settled, SameRun, StaysClosed

LEMMA NothingPending == \A name, x : ~Pending(NoTx, name, x)
BY DEF Pending, NoTx

(* A transaction without writes sees the rows as they are.                  *)
LEMMA CaredWithoutWrites ==
  ASSUME NEW rs, CaredFor(rs, NoTx), NEW Y, Y.wrote = << >>
  PROVE  CaredFor(rs, Y)
<1>1. NoTx.wrote = << >> /\ DOMAIN << >> = {} /\ NoTx.todo = << >>
  BY WrittenType DEF NoTx
<1>2. \A x : RowIn(rs, Y, x) = RowIn(rs, NoTx, x)
  BY <1>1 DEF RowIn
<1>3. \A x : KnownTo(rs, Y, x) <=> KnownTo(rs, NoTx, x)
  BY <1>2 DEF KnownTo
<1>4. \A x, name : ~Pending(NoTx, name, x)
  BY NothingPending
<1>5. \A x \in Run : DealtWith(rs, Y, x)
  BY <1>2, <1>3, <1>4 DEF CaredFor, DealtWith
<1>6. SettledStays(rs, Y)
  BY <1>1 DEF SettledStays
<1>7. QED
  BY <1>5, <1>6 DEF CaredFor

(* The children of a run are there only if it is. *)
LEMMA ParentIsThere ==
  ASSUME LocksInv, NEW t \in Tx, NEW x \in Run, KnownTo(runs, tx[t], x),
         RowIn(runs, tx[t], x).parent # None
  PROVE  /\ Exists(runs, RowIn(runs, tx[t], x).parent)
         /\ RowIn(runs, tx[t], x).parent \in Run
         /\ RowIn(runs, tx[t], x).parent < x
<1>1. LinksOK(runs, x, RowIn(runs, tx[t], x))
  BY SeenRow
<1>2. QED
  BY <1>1 DEF LinksOK, Exists

-----------------------------------------------------------------------------
(* The transaction that moves *)

(* A step of one transaction keeps the invariant if it cares for all it     *)
(* closed.                                                                  *)
LEMMA LocalCare ==
  ASSUME OrphanInv, LocksInv', NEW t \in Tx, NEW Y,
         runs' = runs, tx' = [tx EXCEPT ![t] = Y], CaredFor(runs, Y)
  PROVE  OrphanInv'
<1>1. tx'[t] = Y /\ \A u \in Tx \ {t} : tx'[u] = tx[u]
  BY DEF OrphanInv, LocksInv, TypeInv
<1>2. \A u \in Tx : CaredFor(runs', tx'[u])
  BY <1>1 DEF OrphanInv
<1>3. QED
  BY <1>2 DEF OrphanInv

(* What is put off stays put off.                                           *)
LEMMA PendingRest ==
  ASSUME LocksInv, NEW t \in Tx, tx[t].todo # << >>,
         NEW Y, NEW a \in Seq(OpRow), Y.todo = a \o Tail(tx[t].todo)
  PROVE  /\ \A name, x : Pending(tx[t], name, x) =>
              (Head(tx[t].todo).op = name /\ At(t) = x) \/ Pending(Y, name, x)
         /\ \A i \in DOMAIN a : Pending(Y, a[i].op, a[i].run)
<1> DEFINE X == tx[t]
           b == Tail(X.todo)
<1>1. /\ b \in Seq(OpRow)
      /\ X.todo \in Seq(OpRow)
      /\ Head(X.todo) = X.todo[1]
  BY HasTodo
<1>2. /\ Len(X.todo) \in Nat \ {0}
      /\ DOMAIN X.todo = 1..Len(X.todo)
      /\ DOMAIN b = 1..(Len(X.todo) - 1)
      /\ \A i \in DOMAIN b : b[i] = X.todo[i + 1]
  BY <1>1, TodoRest
<1> HIDE DEF b
<1>3. /\ Len(a) \in Nat /\ DOMAIN a = 1..Len(a)
      /\ Len(b) \in Nat /\ DOMAIN b = 1..Len(b)
      /\ DOMAIN Y.todo = 1..(Len(a) + Len(b))
      /\ \A i \in 1..Len(a) : Y.todo[i] = a[i]
      /\ \A i \in 1..Len(b) : Y.todo[Len(a) + i] = b[i]
  BY <1>1, TodoBefore DEF b
<1>4. ASSUME NEW name, NEW x, Pending(X, name, x)
      PROVE  (Head(X.todo).op = name /\ At(t) = x) \/ Pending(Y, name, x)
  <2>1. PICK i \in DOMAIN X.todo : X.todo[i].op = name /\ X.todo[i].run = x
    BY <1>4 DEF Pending
  <2>2. CASE i = 1
    BY <2>1, <2>2, <1>1 DEF At
  <2>3. CASE i # 1
    <3> DEFINE k == i - 1
    <3>1. k \in 1..(Len(X.todo) - 1) /\ i = k + 1
      BY <2>1, <2>3, <1>2
    <3>2. k \in DOMAIN b /\ b[k] = X.todo[i]
      BY <3>1, <1>2
    <3> HIDE DEF k
    <3>3. Len(a) + k \in DOMAIN Y.todo /\ Y.todo[Len(a) + k] = X.todo[i]
      <4>1. \A m, n \in Nat : \A j \in 1..n : m + j \in 1..(m + n)
        OBVIOUS
      <4>2. k \in 1..Len(b)
        BY <3>2, <1>3
      <4>3. Len(a) + k \in 1..(Len(a) + Len(b))
        BY <4>1, <4>2, <1>3
      <4>4. QED
        BY <4>2, <4>3, <3>2, <1>3
    <3>4. QED
      BY <3>3, <2>1 DEF Pending
  <2>4. QED
    BY <2>2, <2>3
<1>5. ASSUME NEW i \in DOMAIN a
      PROVE  Pending(Y, a[i].op, a[i].run)
  <2>1. i \in DOMAIN Y.todo /\ Y.todo[i] = a[i]
    BY <1>3
  <2>2. QED
    BY <2>1 DEF Pending
<1>6. QED
  BY <1>4, <1>5

(* A statement that rewrites nothing forgets nobody.                        *)
LEMMA CaredSame ==
  ASSUME NEW rs, NEW X, NEW Y, CaredFor(rs, X), Y.wrote = X.wrote,
         \A x \in Run : Pending(X, "children", RowIn(rs, X, x).parent) =>
           \/ Pending(Y, "children", RowIn(rs, X, x).parent)
           \/ Pending(Y, "policy", x)
           \/ Settled(RowIn(rs, X, x)),
         \A x \in Run : Pending(X, "policy", x) =>
           Pending(Y, "policy", x) \/ Settled(RowIn(rs, X, x))
  PROVE  CaredFor(rs, Y)
<1>1. \A x : RowIn(rs, Y, x) = RowIn(rs, X, x)
  BY DEF RowIn
<1>2. \A x : KnownTo(rs, Y, x) <=> KnownTo(rs, X, x)
  BY <1>1 DEF KnownTo
<1>3. SettledStays(rs, Y)
  BY DEF CaredFor, SettledStays
<1>4. ASSUME NEW x \in Run
      PROVE  DealtWith(rs, Y, x)
  <2>1. DealtWith(rs, X, x)
    BY DEF CaredFor
  <2>2. QED
    BY <2>1, <1>1, <1>2 DEF DealtWith
<1>5. QED
  BY <1>3, <1>4 DEF CaredFor

LEMMA LockCares ==
  ASSUME OrphanInv, NEW t \in Tx, Lock(t)
  PROVE  OrphanInv'
<1> DEFINE X == tx[t]
           held == X.held \cup {At(t)}
           todo == Tail(X.todo)
           Y == [X EXCEPT !.held = held, !.todo = todo]
<1>1. /\ LocksInv
      /\ X.todo # << >>
      /\ Head(X.todo).op = "lock"
      /\ tx' = [tx EXCEPT ![t].held = held, ![t].todo = todo]
      /\ runs' = runs
  BY DEF OrphanInv, Lock, NextIs, Rest, LocksInv, TypeInv
<1>2. tx' = [tx EXCEPT ![t] = Y]
  BY <1>1, TxStep
<1>3. X \in TxRow /\ todo \in Seq(OpRow)
  BY <1>1, OfTx, HasTodo
<1>4. Y.wrote = X.wrote /\ Y.todo = todo
  <2> HIDE DEF X, held, todo
  <2>1. QED
    BY <1>3 DEF TxRow
<1> HIDE DEF Y
<1>5. \A name, x : Pending(X, name, x) => name = "lock" \/ Pending(Y, name, x)
  <2> DEFINE a == << >>
  <2>1. a \in Seq(OpRow) /\ Y.todo = a \o Tail(X.todo)
    BY <1>3, <1>4, EmptySeq, ConcatEmptySeq
  <2> HIDE DEF a
  <2>2. QED
    BY <2>1, <1>1, PendingRest
<1>6. CaredFor(runs, X)
  BY DEF OrphanInv
<1>7. CaredFor(runs, Y)
  BY <1>4, <1>5, <1>6, CaredSame
<1>8. QED
  BY <1>1, <1>2, <1>7, LockKeeps, LocalCare

(* A statement that rewrites a row: the row may still go on if it could, or *)
(* may now, and its children are dealt with if it closes the run.           *)
LEMMA CaredPut ==
  ASSUME LocksInv, NEW t \in Tx, CaredFor(runs, tx[t]),
         NEW Y, Y.kind = tx[t].kind, Y.run = tx[t].run, Y.timer = tx[t].timer,
         Y.held = tx[t].held,
         NEW x \in tx[t].held, NEW row, Y.wrote = Put(t, x, row),
         Rewritten(RowIn(runs, tx[t], x), row), row.status # "ABSENT",
         row.status = RowIn(runs, tx[t], x).status \/ Pending(Y, "children", x),
         \A y : Pending(tx[t], "children", y) => Pending(Y, "children", y),
         \A y : Pending(tx[t], "policy", y) =>
           Pending(Y, "policy", y) \/ (y = x /\ Settled(row))
  PROVE  CaredFor(runs, Y)
<1> DEFINE X == tx[t]
<1>1. /\ DOMAIN Y.wrote = DOMAIN X.wrote \cup {x}
      /\ Y.wrote[x] = row
      /\ \A y \in Run : y # x => RowIn(runs, Y, y) = RowIn(runs, X, y)
      /\ RowIn(runs, Y, x) = row
      /\ \A y \in Run : KnownTo(runs, X, y) <=> KnownTo(runs, Y, y)
      /\ \A y \in Run : SameRun(RowIn(runs, X, y), RowIn(runs, Y, y))
  BY PutRow, SMTT(20)
<1>2. x \in Run /\ DOMAIN X.wrote \subseteq Run
  BY OfTx
<1>3. SettledStays(runs, X) /\ \A y \in Run : DealtWith(runs, X, y)
  BY DEF CaredFor
<1>4. SettledStays(runs, Y)
  <2>1. SUFFICES ASSUME NEW y \in DOMAIN Y.wrote, Exists(runs, y), Settled(runs[y])
                 PROVE  Settled(Y.wrote[y])
    BY DEF SettledStays
  <2>2. Settled(RowIn(runs, X, y))
    BY <2>1, <1>3 DEF SettledStays, RowIn
  <2>3. CASE y = x
    BY <2>2, <2>3, <1>1, RewrittenSettled
  <2>4. CASE y # x
    <3>1. Y.wrote[y] = RowIn(runs, X, y)
      BY <2>1, <2>4, <1>1, <1>2 DEF RowIn
    <3>2. QED
      BY <2>2, <3>1
  <2>5. QED
    BY <2>3, <2>4
<1>5. ASSUME NEW y \in Run
      PROVE  DealtWith(runs, Y, y)
  <2> DEFINE p == RowIn(runs, Y, y).parent
  <2>1. SUFFICES ASSUME KnownTo(runs, Y, y), p # None, RowIn(runs, Y, p).status # "RUNNING"
                 PROVE  \/ Settled(RowIn(runs, Y, y))
                        \/ Pending(Y, "children", p)
                        \/ Pending(Y, "policy", y)
    BY DEF DealtWith
  <2>2. KnownTo(runs, X, y) /\ RowIn(runs, X, y).parent = p
    BY <2>1, <1>1 DEF SameRun
  <2>3. p \in Run
    BY <2>1, <2>2, ParentIsThere
  <2>4. Settled(RowIn(runs, X, y)) => Settled(RowIn(runs, Y, y))
    BY <1>1, RewrittenSettled
  <2>5. CASE RowIn(runs, X, p).status # "RUNNING"
    <3>1. \/ Settled(RowIn(runs, X, y)) \/ Pending(X, "children", p) \/ Pending(X, "policy", y)
      BY <2>1, <2>2, <2>5, <1>3 DEF DealtWith
    <3>2. QED
      BY <3>1, <2>4, <1>1
  <2>6. CASE RowIn(runs, X, p).status = "RUNNING"
    BY <2>1, <2>3, <2>6, <1>1
  <2>7. QED
    BY <2>5, <2>6
<1>6. QED
  BY <1>4, <1>5 DEF CaredFor

LEMMA NotifyCares ==
  ASSUME OrphanInv, NEW t \in Tx, NotifyParent(t)
  PROVE  OrphanInv'
<1> DEFINE X == tx[t]
<1>1. LocksInv /\ CaredFor(runs, X)
  BY DEF OrphanInv
<1>2. NotifyDoes(t) /\ NextIs(t, "notify") /\ runs' = runs
  BY <1>1, AnyNotifyDoes
<1>3. PICK Y : /\ Moved(t, Y)
               /\ Y.held = X.held
               /\ Y.todo = Tail(X.todo)
               /\ Y.wrote = X.wrote \/ TellsParent(t, Y)
  BY <1>2 DEF NotifyDoes
<1>4. \A name, x : Pending(X, name, x) => name = "notify" \/ Pending(Y, name, x)
  <2> DEFINE a == << >>
  <2>1. X.todo # << >> /\ Head(X.todo).op = "notify"
    BY <1>2 DEF NextIs
  <2>2. Tail(X.todo) \in Seq(OpRow)
    BY <1>1, <2>1, HasTodo
  <2>3. a \in Seq(OpRow) /\ Y.todo = a \o Tail(X.todo)
    BY <2>2, <1>3, EmptySeq, ConcatEmptySeq
  <2> HIDE DEF a
  <2>4. QED
    BY <2>1, <2>3, <1>1, PendingRest
<1>5. CaredFor(runs, Y)
  <2>1. CASE Y.wrote = X.wrote
    BY <2>1, <1>1, <1>4, CaredSame
  <2>2. CASE TellsParent(t, Y)
    <3> DEFINE p == RowIn(runs, X, At(t)).parent
    <3>1. PICK row : /\ Y.wrote = Put(t, p, row)
                     /\ Rewritten(RowIn(runs, X, p), row)
                     /\ row.status = RowIn(runs, X, p).status
                     /\ row.status = "RUNNING"
      BY <2>2 DEF TellsParent
    <3>2. p \in X.held
      BY <2>2 DEF TellsParent
    <3> HIDE DEF p
    <3>3. Y.kind = X.kind /\ Y.run = X.run /\ Y.timer = X.timer /\ Y.held = X.held
      BY <1>3 DEF Moved
    <3>4. /\ \A y : Pending(X, "children", y) => Pending(Y, "children", y)
          /\ \A y : Pending(X, "policy", y) => Pending(Y, "policy", y)
      BY <1>4
    <3>5. QED
      BY <3>1, <3>2, <3>3, <3>4, <1>1, CaredPut
  <2>3. QED
    BY <2>1, <2>2, <1>3
<1>6. QED
  BY <1>1, <1>2, <1>3, <1>5, NotifyKeeps, LocalCare DEF Moved

LEMMA PolicyCares ==
  ASSUME OrphanInv, NEW t \in Tx, ApplyPolicy(t)
  PROVE  OrphanInv'
<1> DEFINE X == tx[t]
           r == At(t)
           seen == RowIn(runs, X, r)
<1>1. LocksInv /\ CaredFor(runs, X)
  BY DEF OrphanInv
<1>2. PolicyDoes(t) /\ NextIs(t, "policy") /\ runs' = runs
  BY <1>1, AnyPolicyDoes
<1>3. PICK Y, a :
        /\ Moved(t, Y)
        /\ Y.held = X.held
        /\ Y.todo = a \o Tail(X.todo)
        /\ a = << >> \/ a = AfterClose(r, "run_terminated")
        /\ \/ a = << >> /\ Y.wrote = X.wrote /\ Settled(seen)
           \/ \E row : /\ Y.wrote = Put(t, r, row)
                       /\ Rewritten(seen, row)
                       /\ Settled(row)
                       /\ \/ row.status = seen.status /\ row.status = "RUNNING"
                          \/ a = AfterClose(r, "run_terminated") /\ EndsForGood(seen, row)
  BY <1>2 DEF PolicyDoes
<1>4. r \in X.held /\ r \in Run /\ X.todo # << >> /\ Head(X.todo).op = "policy"
  BY <1>1, <1>2, AtStatement
<1>5. a \in Seq(OpRow)
  BY <1>3, <1>4, AfterCloseType, EmptySeq
<1>6. /\ \A name, x : Pending(X, name, x) => (name = "policy" /\ x = r) \/ Pending(Y, name, x)
      /\ \A i \in DOMAIN a : Pending(Y, a[i].op, a[i].run)
  <2>1. /\ \A name, x : Pending(tx[t], name, x) =>
             (Head(tx[t].todo).op = name /\ At(t) = x) \/ Pending(Y, name, x)
        /\ \A i \in DOMAIN a : Pending(Y, a[i].op, a[i].run)
    BY <1>1, <1>3, <1>4, <1>5, PendingRest
  <2>2. QED
    BY <2>1, <1>4
<1>7. a = AfterClose(r, "run_terminated") => Pending(Y, "children", r)
  <2>1. a = AfterClose(r, "run_terminated") => a = <<Op("notify", r), Op("children", r)>>
    BY <1>4, AfterCloseType
  <2>2. a = <<Op("notify", r), Op("children", r)>> =>
          2 \in DOMAIN a /\ a[2].op = "children" /\ a[2].run = r
    BY DEF Op
  <2>3. QED
    BY <2>1, <2>2, <1>6
<1>8. CaredFor(runs, Y)
  <2>1. CASE a = << >> /\ Y.wrote = X.wrote /\ Settled(seen)
    BY <2>1, <1>1, <1>6, CaredSame
  <2>2. ASSUME NEW row,
               Y.wrote = Put(t, r, row),
               Rewritten(seen, row),
               Settled(row),
               \/ row.status = seen.status /\ row.status = "RUNNING"
               \/ a = AfterClose(r, "run_terminated") /\ EndsForGood(seen, row)
        PROVE  CaredFor(runs, Y)
    <3>1. Y.kind = X.kind /\ Y.run = X.run /\ Y.timer = X.timer /\ Y.held = X.held
      BY <1>3 DEF Moved
    <3>2. row.status # "ABSENT" /\ (row.status = seen.status \/ Pending(Y, "children", r))
      BY <2>2, <1>7 DEF EndsForGood
    <3>3. \A y : Pending(X, "children", y) => Pending(Y, "children", y)
      BY <1>6
    <3>4. \A y : Pending(X, "policy", y) => Pending(Y, "policy", y) \/ (y = r /\ Settled(row))
      BY <1>6, <2>2
    <3>5. QED
      BY <1>1, <1>4, <2>2, <3>1, <3>2, <3>3, <3>4, CaredPut
  <2>3. QED
    BY <2>1, <2>2, <1>3
<1>9. QED
  BY <1>1, <1>2, <1>3, <1>8, PolicyKeeps, LocalCare DEF Moved

(* Every open child that is there when the children are selected is.        *)
LEMMA SelectCares ==
  ASSUME OrphanInv, NEW t \in Tx, SelectChildren(t)
  PROVE  OrphanInv'
<1> DEFINE X == tx[t]
           r == At(t)
           S == OpenChildren(t, r)
           a == Each("lock", S) \o Each("policy", S)
           todo == a \o Tail(X.todo)
           Y == [X EXCEPT !.todo = todo]
<1>1. /\ LocksInv /\ CaredFor(runs, X)
      /\ NextIs(t, "children") /\ runs' = runs
      /\ tx' = [tx EXCEPT ![t].todo = todo]
  BY DEF OrphanInv, SelectChildren, Rest
<1>2. r \in Run /\ X.todo # << >> /\ Head(X.todo).op = "children"
  BY <1>1, AtStatement
<1>3. X \in TxRow /\ Tail(X.todo) \in Seq(OpRow)
  BY <1>1, <1>2, OfTx, HasTodo
<1>4. /\ S \in SUBSET Run
      /\ \A x \in Run : RowIn(runs, X, x).parent = r /\ RowIn(runs, X, x).status = "RUNNING" => x \in S
  BY DEF OpenChildren, Row, RowIn
<1> HIDE DEF S
<1>5. /\ a \in Seq(OpRow)
      /\ \A x \in S : \E i \in DOMAIN a : a[i].op = "policy" /\ a[i].run = x
  <2> DEFINE b == Each("lock", S)
             c == Each("policy", S)
             n == Cardinality(S)
  <2>1. /\ b \in Seq(OpRow) /\ c \in Seq(OpRow)
        /\ Len(c) = n
        /\ n \in Nat
        /\ \A i \in 1..n : c[i] = Op("policy", Nth(S, i))
    BY <1>4, EachOf DEF OpName
  <2>2. \A x \in S : \E i \in 1..n : Nth(S, i) = x
    BY <1>4, EachOne
  <2> HIDE DEF b, c, n
  <2>3. /\ b \o c \in Seq(OpRow)
        /\ Len(b) \in Nat
        /\ DOMAIN (b \o c) = 1..(Len(b) + Len(c))
        /\ \A i \in 1..Len(c) : (b \o c)[Len(b) + i] = c[i]
    BY <2>1, TodoBefore
  <2>4. ASSUME NEW x \in S
        PROVE  \E i \in DOMAIN (b \o c) : (b \o c)[i].op = "policy" /\ (b \o c)[i].run = x
    <3>1. PICK i \in 1..n : Nth(S, i) = x
      BY <2>2
    <3>2. Len(b) + i \in DOMAIN (b \o c) /\ (b \o c)[Len(b) + i] = Op("policy", x)
      BY <3>1, <2>1, <2>3
    <3>3. QED
      BY <3>2 DEF Op
  <2>5. QED
    BY <2>3, <2>4 DEF b, c
<1> HIDE DEF a
<1>6. todo \in Seq(OpRow)
  BY <1>3, <1>5, TodoBefore
<1> HIDE DEF todo
<1>7. tx' = [tx EXCEPT ![t] = Y]
  BY <1>1, TxStep
<1>8. Y.wrote = X.wrote /\ Y.todo = todo
  <2> HIDE DEF X
  <2>1. QED
    BY <1>3 DEF TxRow
<1> HIDE DEF Y
<1>9. /\ \A name, x : Pending(X, name, x) => (name = "children" /\ x = r) \/ Pending(Y, name, x)
      /\ \A x \in S : Pending(Y, "policy", x)
  <2>1. Y.todo = a \o Tail(tx[t].todo)
    BY <1>8 DEF todo
  <2>2. /\ \A name, x : Pending(tx[t], name, x) =>
             (Head(tx[t].todo).op = name /\ At(t) = x) \/ Pending(Y, name, x)
        /\ \A i \in DOMAIN a : Pending(Y, a[i].op, a[i].run)
    BY <2>1, <1>1, <1>2, <1>5, PendingRest
  <2>3. QED
    BY <2>2, <1>2, <1>5
<1>10. ASSUME NEW x \in Run, Pending(X, "children", RowIn(runs, X, x).parent)
       PROVE  \/ Pending(Y, "children", RowIn(runs, X, x).parent)
              \/ Pending(Y, "policy", x)
              \/ Settled(RowIn(runs, X, x))
  BY <1>4, <1>9, <1>10 DEF Settled
<1>11. CaredFor(runs, Y)
  BY <1>1, <1>8, <1>9, <1>10, CaredSame
<1>12. QED
  BY <1>1, <1>7, <1>11, SelectKeeps, LocalCare

(* A body closes nothing but its run, and the children it has just started  *)
(* are there when the children are selected.  A run of a closed parent      *)
(* continues only if that parent let it go on: it was asked to cancel       *)
(* otherwise, and then it does not continue.                                *)
LEMMA BodyCares ==
  ASSUME OrphanInv, NEW t \in Tx, Body(t)
  PROVE  OrphanInv'
<1> DEFINE X == tx[t]
           r == At(t)
           old == runs[r]
<1>1. LocksInv /\ CaredFor(runs, NoTx)
  BY DEF OrphanInv
<1>2. BodyDoes(t) /\ NextIs(t, "body") /\ runs' = runs
  BY <1>1, AnyBodyDoes
<1>3. PICK Y : /\ Moved(t, Y)
               /\ WritesNothing(Y) \/ WritesRun(r, Y) \/ WritesDecision(t, r, Y)
  BY <1>2 DEF BodyDoes
<1>4. r \in Run /\ Exists(runs, r) /\ runs \in [Run -> RunRow]
  BY <1>1, <1>2, AtBody DEF LocksInv, TypeInv
<1>5. ASSUME NEW x \in Run, Exists(runs, x)
      PROVE  /\ runs[x].parent # None => Exists(runs, runs[x].parent) /\ runs[x].parent \in Run
                                         /\ runs[x].parent # x
             /\ (runs[x].parent # None /\ runs[runs[x].parent].status # "RUNNING") => Settled(runs[x])
  <2>1. LinksOK(runs, x, runs[x])
    BY <1>1, <1>5 DEF LocksInv, RowsOK
  <2>2. DealtWith(runs, NoTx, x) /\ \A name, y : ~Pending(NoTx, name, y)
    BY <1>1, NothingPending DEF CaredFor
  <2>3. \A y : RowIn(runs, NoTx, y) = runs[y]
    BY WrittenType DEF RowIn, NoTx
  <2>4. runs[x].parent # x
    BY <2>1 DEF LinksOK, Run
  <2>5. QED
    BY <2>1, <2>2, <2>3, <2>4, <1>5 DEF LinksOK, Exists, DealtWith, KnownTo
<1>6. CASE WritesNothing(Y)
  <2>1. CaredFor(runs, Y)
    BY <1>1, <1>6, CaredWithoutWrites DEF WritesNothing
  <2>2. QED
    BY <2>1, <1>1, <1>2, <1>3, BodyKeeps, LocalCare DEF Moved
<1>7. \A type : Y.todo = AfterClose(r, type) => Pending(Y, "children", r)
  <2>1. SUFFICES ASSUME NEW type, Y.todo = AfterClose(r, type)
                 PROVE  Pending(Y, "children", r)
    OBVIOUS
  <2>2. CASE Y.todo = <<Op("children", r)>>
    <3>1. 1 \in DOMAIN Y.todo /\ Y.todo[1].op = "children" /\ Y.todo[1].run = r
      BY <2>2 DEF Op
    <3>2. QED
      BY <3>1 DEF Pending
  <2>3. CASE Y.todo = <<Op("notify", r), Op("children", r)>>
    <3>1. 2 \in DOMAIN Y.todo /\ Y.todo[2].op = "children" /\ Y.todo[2].run = r
      BY <2>3 DEF Op
    <3>2. QED
      BY <3>1 DEF Pending
  <2>4. QED
    BY <2>1, <2>2, <2>3, <1>4, AfterCloseType
<1>8. ASSUME r \in DOMAIN Y.wrote,
             DOMAIN Y.wrote \subseteq Run,
             SameRun(old, Y.wrote[r]),
             Settled(old) => Settled(Y.wrote[r]),
             Y.wrote[r].status = old.status \/ Pending(Y, "children", r),
             \A x \in DOMAIN Y.wrote \ {r} :
               /\ ~Exists(runs, x)
               /\ Y.wrote[x].status = "RUNNING"
               /\ old.status = "RUNNING"
               /\ IsChild(r, x, Y.wrote[x]) \/ (IsNext(old, Y.wrote[x]) /\ ~old.history.asked)
      PROVE  OrphanInv'
  <2>1. SettledStays(runs, Y)
    BY <1>8 DEF SettledStays
  <2>2. ASSUME NEW x \in Run
        PROVE  DealtWith(runs, Y, x)
    <3> DEFINE p == RowIn(runs, Y, x).parent
    <3>1. SUFFICES ASSUME KnownTo(runs, Y, x), p # None, RowIn(runs, Y, p).status # "RUNNING",
                          ~Pending(Y, "children", p)
                   PROVE  Settled(RowIn(runs, Y, x))
      BY DEF DealtWith
    <3>2. Exists(runs, p) => p \in Run /\ runs[p].status # "RUNNING"
      BY <1>4, <1>8, <3>1 DEF RowIn, Exists
    <3>3. CASE x = r
      <4>1. RowIn(runs, Y, x) = Y.wrote[r] /\ p = old.parent
        BY <3>3, <1>8 DEF RowIn, SameRun
      <4>2. Settled(old)
        BY <4>1, <3>1, <3>2, <1>4, <1>5
      <4>3. QED
        BY <4>1, <4>2, <1>8
    <3>4. CASE x \notin DOMAIN Y.wrote
      <4>1. RowIn(runs, Y, x) = runs[x] /\ Exists(runs, x)
        BY <3>1, <3>4 DEF RowIn, KnownTo, Exists
      <4>2. QED
        BY <4>1, <3>1, <3>2, <1>5
    <3>5. CASE x \in DOMAIN Y.wrote \ {r}
      <4>1. RowIn(runs, Y, x) = Y.wrote[x]
        BY <3>5 DEF RowIn
      <4>2. CASE IsChild(r, x, Y.wrote[x])
        <5>1. p = r
          BY <4>1, <4>2 DEF IsChild
        <5>2. Y.wrote[r].status = old.status /\ old.status # "RUNNING"
          BY <5>1, <3>1, <1>8 DEF RowIn
        <5>3. QED
          BY <5>2, <3>5, <1>8
      <4>3. CASE IsNext(old, Y.wrote[x]) /\ ~old.history.asked
        <5>1. p = old.parent /\ Y.wrote[x].policy = old.policy
          BY <4>1, <4>3 DEF IsNext
        <5>2. Settled(old)
          BY <5>1, <3>1, <3>2, <1>4, <1>5
        <5>3. old.policy = "abandon"
          BY <5>2, <4>3, <3>5, <1>8 DEF Settled
        <5>4. QED
          BY <5>1, <5>3, <4>1 DEF Settled
      <4>4. QED
        BY <4>2, <4>3, <3>5, <1>8
    <3>6. QED
      BY <3>3, <3>4, <3>5
  <2>3. CaredFor(runs, Y)
    BY <2>1, <2>2 DEF CaredFor
  <2>4. QED
    BY <2>3, <1>1, <1>2, <1>3, BodyKeeps, LocalCare DEF Moved
<1>9. CASE WritesRun(r, Y)
  BY <1>4, <1>7, <1>8, <1>9, RewrittenSettled DEF WritesRun, Rewritten, GoesOn
<1>10. CASE WritesDecision(t, r, Y)
  <2>1. /\ r \in DOMAIN Y.wrote
        /\ old.status = "RUNNING"
        /\ SameRun(old, Y.wrote[r])
        /\ Y.wrote[r].history.asked = old.history.asked
        /\ \A x \in DOMAIN Y.wrote \ {r} : IsNew(x, Y.wrote[x])
    BY <1>10, Zenon DEF WritesDecision
  <2>2. \/ Y.wrote[r].status = "RUNNING"
        \/ \E type : Y.todo = AfterClose(r, type)
    BY <1>10 DEF WritesDecision
  <2>3. \A x \in DOMAIN Y.wrote \ {r} :
          IsChild(r, x, Y.wrote[x]) \/ (IsNext(old, Y.wrote[x]) /\ ~old.history.asked)
    BY <1>10 DEF WritesDecision
  <2>4. DOMAIN Y.wrote \subseteq Run
    BY <2>1, <1>4 DEF IsNew
  <2>5. Settled(old) => Settled(Y.wrote[r])
    BY <2>1 DEF Settled, SameRun
  <2>6. \A x \in DOMAIN Y.wrote \ {r} : ~Exists(runs, x) /\ Y.wrote[x].status = "RUNNING"
    BY <2>1 DEF IsNew
  <2>7. Y.wrote[r].status = old.status \/ Pending(Y, "children", r)
    BY <2>1, <2>2, <1>7
  <2>8. QED
    BY <2>1, <2>3, <2>4, <2>5, <2>6, <2>7, <1>8
<1>11. QED
  BY <1>3, <1>6, <1>9, <1>10

-----------------------------------------------------------------------------
(* The others when one commits *)

(* A row that may go on still may after the commit of another transaction,  *)
(* which holds it.                                                          *)
LEMMA CommitSettles ==
  ASSUME LocksInv, NEW t \in Tx, SettledStays(runs, tx[t]), NEW x \in Run,
         Exists(runs, x), Settled(runs[x])
  PROVE  Settled(After(tx[t])[x])
<1>1. CASE x \in DOMAIN tx[t].wrote
  <2>1. After(tx[t])[x] = tx[t].wrote[x]
    BY <1>1, AfterCommit
  <2>2. QED
    BY <2>1, <1>1 DEF SettledStays
<1>2. CASE x \notin DOMAIN tx[t].wrote
  BY <1>2, AfterCommit
<1>3. QED
  BY <1>1, <1>2

(* When a transaction commits, all the children of what it closed are dealt *)
(* with.                                                                    *)
LEMMA CommittedCare ==
  ASSUME LocksInv, NEW t \in Tx, CaredFor(runs, tx[t]), tx[t].todo = << >>
  PROVE  CaredFor(After(tx[t]), NoTx)
<1> DEFINE X == tx[t]
           rs == After(X)
<1>1. \A x \in Run : rs[x] = RowIn(runs, X, x)
  BY DEF After
<1>2. \A y : RowIn(rs, NoTx, y) = rs[y]
  BY WrittenType DEF RowIn, NoTx
<1> HIDE DEF rs
<1>3. \A name, y : ~Pending(X, name, y)
  BY DEF Pending
<1>4. ASSUME NEW x \in Run
      PROVE  DealtWith(rs, NoTx, x)
  <2>1. SUFFICES ASSUME KnownTo(rs, NoTx, x), rs[x].parent # None,
                        rs[rs[x].parent].status # "RUNNING"
                 PROVE  Settled(rs[x])
    BY <1>2 DEF DealtWith
  <2>2. KnownTo(runs, X, x)
    BY <2>1, <1>1, <1>2 DEF KnownTo
  <2>3. rs[x].parent \in Run
    BY <2>1, <2>2, <1>1, ParentIsThere
  <2>4. DealtWith(runs, X, x)
    BY DEF CaredFor
  <2>5. QED
    BY <2>1, <2>2, <2>3, <2>4, <1>1, <1>3 DEF DealtWith
<1>5. SettledStays(rs, NoTx)
  BY WrittenType DEF SettledStays, NoTx
<1>6. QED
  BY <1>4, <1>5 DEF CaredFor, rs

(* Two transactions never have written the same run.                        *)
LEMMA WrittenApart ==
  ASSUME LocksInv, NEW t \in Tx, NEW u \in Tx, t # u
  PROVE  \A x \in DOMAIN tx[u].wrote : x \notin DOMAIN tx[t].wrote
<1>1. SUFFICES ASSUME NEW x \in DOMAIN tx[u].wrote, x \in DOMAIN tx[t].wrote
               PROVE  FALSE
  OBVIOUS
<1>2. Apart(runs, tx[u], tx[t]) /\ WroteOK(runs, tx[u]) /\ WroteOK(runs, tx[t])
  BY OfTx DEF LocksInv, TxOK
<1>3. Exists(runs, x)
  BY <1>1, <1>2 DEF Apart
<1>4. x \in tx[u].held /\ x \in tx[t].held
  BY <1>1, <1>2, <1>3 DEF WroteOK
<1>5. QED
  BY <1>2, <1>4 DEF Apart

(* A transaction is not caught out by the commit of another: the children   *)
(* it has yet to deal with it will find, and no run it has written lost its *)
(* parent unnoticed, as the one that closed the parent had to lock the run. *)
LEMMA OthersCare ==
  ASSUME OrphanInv, NEW t \in Tx, tx[t].todo = << >>, NEW u \in Tx, t # u
  PROVE  CaredFor(After(tx[t]), tx[u])
<1> DEFINE Z == tx[t]
           X == tx[u]
           rs == After(Z)
<1>1. LocksInv /\ CaredFor(runs, X) /\ CaredFor(runs, Z)
  BY DEF OrphanInv
<1>2. /\ \A x : Exists(runs, x) => Exists(rs, x) /\ SameRun(runs[x], rs[x])
      /\ \A x \in Run : x \notin DOMAIN Z.wrote => rs[x] = runs[x]
      /\ \A x \in DOMAIN Z.wrote : rs[x] = Z.wrote[x] /\ (Exists(runs, x) => x \in Z.held)
  BY <1>1, AfterCommit
<1>3. /\ DOMAIN X.wrote \subseteq Run /\ DOMAIN Z.wrote \subseteq Run
      /\ X.held \subseteq Run /\ Z.held \subseteq Run
      /\ WroteOK(runs, X) /\ WroteOK(runs, Z)
      /\ Apart(runs, X, Z)
  BY <1>1, OfTx DEF LocksInv, TxOK
<1>4. CaredFor(rs, NoTx)
  BY <1>1, CommittedCare
<1>5. \A x \in Run : Exists(runs, x) /\ Settled(runs[x]) => Settled(rs[x])
  BY <1>1, CommitSettles DEF CaredFor
<1> HIDE DEF rs
<1>6. \A x \in DOMAIN X.wrote : x \notin DOMAIN Z.wrote
  BY <1>1, WrittenApart
<1>7. SettledStays(rs, X)
  <2>1. SUFFICES ASSUME NEW x \in DOMAIN X.wrote, Exists(rs, x), Settled(rs[x])
                 PROVE  Settled(X.wrote[x])
    BY DEF SettledStays
  <2>2. rs[x] = runs[x]
    BY <1>2, <1>3, <1>6
  <2>3. QED
    BY <2>1, <2>2, <1>1 DEF CaredFor, SettledStays, Exists
<1>8. ASSUME NEW x \in Run
      PROVE  DealtWith(rs, X, x)
  <2> DEFINE row == RowIn(rs, X, x)
             p == row.parent
  <2>1. SUFFICES ASSUME KnownTo(rs, X, x), p # None, RowIn(rs, X, p).status # "RUNNING",
                        ~Pending(X, "children", p), ~Pending(X, "policy", x)
                 PROVE  Settled(row)
    BY DEF DealtWith
  <2>2. CASE x \in DOMAIN X.wrote
    <3>1. row = X.wrote[x] /\ RowIn(runs, X, x) = row /\ KnownTo(runs, X, x)
      BY <2>1, <2>2 DEF RowIn, KnownTo
    <3>2. p \in Run /\ Exists(runs, p)
      BY <3>1, <2>1, <1>1, ParentIsThere
    <3>3. RowIn(runs, X, p).status # "RUNNING" => Settled(row)
      BY <3>1, <2>1, <1>1 DEF CaredFor, DealtWith
    <3>4. CASE RowIn(runs, X, p).status = "RUNNING"
      <4>1. p \notin DOMAIN X.wrote /\ rs[p].status # "RUNNING" /\ p \in DOMAIN Z.wrote
        BY <3>2, <3>4, <2>1, <1>2 DEF RowIn
      <4>2. p \in Z.held /\ p \notin X.held
        BY <4>1, <3>2, <1>2, <1>3 DEF Apart
      <4>3. Exists(runs, x)
        BY <4>2, <2>1, <2>2, <3>1, <1>3 DEF WroteOK
      <4>4. RowIn(runs, Z, x) = runs[x] /\ RowIn(runs, Z, p) = rs[p]
        BY <4>1, <2>2, <1>2, <1>6 DEF RowIn
      <4>5. runs[x].parent = p
        BY <4>3, <3>1, <2>2, <1>3 DEF WroteOK, SameRun
      <4>6. Settled(runs[x])
        <5>1. DealtWith(runs, Z, x) /\ \A name, y : ~Pending(Z, name, y)
          BY <1>1 DEF CaredFor, Pending
        <5>2. KnownTo(runs, Z, x)
          BY <4>3, <1>1, SeenRow
        <5>3. QED
          BY <5>1, <5>2, <4>1, <4>4, <4>5, <2>1 DEF DealtWith
      <4>7. QED
        BY <4>3, <4>6, <3>1, <2>2, <1>1 DEF CaredFor, SettledStays
    <3>5. QED
      BY <3>3, <3>4
  <2>3. CASE x \notin DOMAIN X.wrote
    <3>1. row = rs[x] /\ Exists(rs, x)
      BY <2>1, <2>3 DEF RowIn, KnownTo, Exists
    <3>2. CASE p \notin DOMAIN X.wrote
      <4>1. DealtWith(rs, NoTx, x) /\ \A name, y : ~Pending(NoTx, name, y)
        BY <1>4, NothingPending DEF CaredFor
      <4>2. \A y : RowIn(rs, NoTx, y) = rs[y]
        BY WrittenType DEF RowIn, NoTx
      <4>3. RowIn(rs, X, p) = rs[p]
        BY <3>2 DEF RowIn
      <4>4. QED
        BY <4>1, <4>2, <4>3, <3>1, <2>1 DEF DealtWith, KnownTo, Exists
    <3>3. CASE p \in DOMAIN X.wrote
      <4>1. Exists(runs, x)
        <5>1. SUFFICES ASSUME ~Exists(runs, x)
                       PROVE  FALSE
          OBVIOUS
        <5>2. x \in DOMAIN Z.wrote /\ row = Z.wrote[x]
          BY <5>1, <3>1, <1>2 DEF Exists
        <5>3. p \in Z.held /\ Exists(runs, p)
          BY <5>1, <5>2, <2>1, <1>3 DEF WroteOK, LinksOK
        <5>4. p \in X.held
          BY <5>3, <3>3, <1>3 DEF WroteOK
        <5>5. QED
          BY <5>3, <5>4, <1>3 DEF Apart
      <4>2. RowIn(runs, X, x) = runs[x] /\ runs[x].parent = p /\ KnownTo(runs, X, x)
        BY <4>1, <3>1, <2>3, <1>2 DEF RowIn, KnownTo, Exists, SameRun
      <4>3. RowIn(runs, X, p) = RowIn(rs, X, p)
        BY <3>3 DEF RowIn
      <4>4. Settled(runs[x])
        BY <4>2, <4>3, <2>1, <1>1 DEF CaredFor, DealtWith
      <4>5. QED
        BY <4>1, <4>4, <3>1, <1>5
    <3>4. QED
      BY <3>2, <3>3
  <2>4. QED
    BY <2>2, <2>3
<1>9. QED
  BY <1>7, <1>8 DEF CaredFor, rs

LEMMA CommitCares ==
  ASSUME OrphanInv, NEW t \in Tx, Commit(t)
  PROVE  OrphanInv'
<1>1. /\ LocksInv
      /\ runs' = After(tx[t])
      /\ tx' = [tx EXCEPT ![t] = NoTx]
      /\ tx[t].todo = << >>
  BY DEF OrphanInv, Commit, After, Row, RowIn
<1>2. tx'[t] = NoTx /\ \A u \in Tx \ {t} : tx'[u] = tx[u]
  BY <1>1 DEF LocksInv, TypeInv
<1>3. CaredFor(runs', NoTx)
  BY <1>1, CommittedCare DEF OrphanInv
<1>4. \A u \in Tx : CaredFor(runs', tx'[u])
  <2>1. SUFFICES ASSUME NEW u \in Tx
                 PROVE  CaredFor(runs', tx'[u])
    OBVIOUS
  <2>2. CASE u = t
    BY <2>2, <1>2, <1>3
  <2>3. CASE u # t
    BY <2>3, <1>1, <1>2, OthersCare
  <2>4. QED
    BY <2>2, <2>3
<1>5. LocksInv'
  BY <1>1, CommitKeeps
<1>6. QED
  BY <1>3, <1>4, <1>5 DEF OrphanInv

-----------------------------------------------------------------------------
(* The invariant holds *)

(* It begins with its locks, and a timer with its mark.                     *)
Starts(r, Y) ==
  /\ Y.run = r
  /\ Y.todo = LockRunOnly(r) \/ Y.todo = LockRunWithParent(r)
  /\ Y.kind = "timer" => runs[r].timers[Y.timer] = "PENDING" /\ NotTaken(r, Y.timer)

(* A transaction begins with nothing written.                               *)
LEMMA BeginsEmpty ==
  ASSUME NEW t \in Tx, NEW r \in Run,
         \/ BeginDecision(t, r)
         \/ \E kind \in {"cancel", "terminate"} : BeginRequest(t, r, kind)
         \/ \E timer \in Timer : BeginTimer(t, r, timer)
  PROVE  \E Y : Begin(t, Y) /\ Y.wrote = << >> /\ Starts(r, Y)
<1>1. CASE BeginDecision(t, r)
  <2> DEFINE Y == [NoTx EXCEPT !.kind = "decide", !.run = r, !.seen = runs[r].history,
                               !.todo = LockRunWithParent(r)]
  <2>1. Begin(t, Y) /\ Y.wrote = << >> /\ Starts(r, Y)
    BY <1>1 DEF BeginDecision, NoTx, Starts
  <2> HIDE DEF Y
  <2>2. QED
    BY <2>1
<1>2. CASE \E kind \in {"cancel", "terminate"} : BeginRequest(t, r, kind)
  <2>1. PICK kind \in {"cancel", "terminate"} : BeginRequest(t, r, kind)
    BY <1>2
  <2> DEFINE Y == [NoTx EXCEPT !.kind = kind, !.run = r, !.todo = LockRunWithParent(r)]
  <2>2. Begin(t, Y) /\ Y.wrote = << >> /\ Starts(r, Y)
    BY <2>1 DEF BeginRequest, NoTx, Starts
  <2> HIDE DEF Y
  <2>3. QED
    BY <2>2
<1>3. CASE \E timer \in Timer : BeginTimer(t, r, timer)
  <2>1. PICK timer \in Timer : BeginTimer(t, r, timer)
    BY <1>3
  <2> DEFINE Y == [NoTx EXCEPT !.kind = "timer", !.run = r, !.timer = timer,
                     !.todo = IF timer \in Timeout THEN LockRunWithParent(r)
                              ELSE LockRunOnly(r)]
  <2>2. Begin(t, Y) /\ Y.wrote = << >> /\ Starts(r, Y)
    BY <2>1 DEF BeginTimer, NoTx, Starts
  <2> HIDE DEF Y
  <2>3. QED
    BY <2>2
<1>4. QED
  BY <1>1, <1>2, <1>3

LEMMA OrphanStep ==
  ASSUME OrphanInv, [Next]_vars
  PROVE  OrphanInv'
<1>1. LocksInv /\ LocksInv'
  BY StepKeeps DEF OrphanInv
<1>2. CASE UNCHANGED vars
  <2>1. runs' = runs /\ tx' = tx
    BY <1>2 DEF vars
  <2>2. QED
    BY <2>1, <1>1 DEF OrphanInv
<1>3. CASE Next
  <2>1. PICK t \in Tx :
          \/ Proceed(t) \/ RollBack(t)
          \/ \E r \in Run :
               \/ BeginDecision(t, r)
               \/ \E kind \in {"cancel", "terminate"} : BeginRequest(t, r, kind)
               \/ \E timer \in Timer : BeginTimer(t, r, timer)
    BY <1>3 DEF Next
  <2>2. CASE Proceed(t)
    BY <2>2, LockCares, BodyCares, NotifyCares, SelectCares, PolicyCares, CommitCares
    DEF Proceed
  <2>3. CASE RollBack(t)
    <3>1. runs' = runs /\ tx' = [tx EXCEPT ![t] = NoTx]
      BY <2>3 DEF RollBack
    <3>2. QED
      BY <3>1, <1>1, LocalCare DEF OrphanInv
  <2>4. ASSUME NEW Y, Begin(t, Y), Y.wrote = << >>
        PROVE  OrphanInv'
    <3>1. runs' = runs /\ tx' = [tx EXCEPT ![t] = Y]
      BY <2>4 DEF Begin
    <3>2. CaredFor(runs, Y)
      BY <2>4, CaredWithoutWrites DEF OrphanInv
    <3>3. QED
      BY <3>1, <3>2, <1>1, LocalCare
  <2>5. QED
    BY <2>1, <2>2, <2>3, <2>4, BeginsEmpty
<1>4. QED
  BY <1>2, <1>3

LEMMA OrphanInit ==
  ASSUME Init
  PROVE  OrphanInv
<1>1. LocksInv
  BY InitHolds
<1>2. \A x \in Run : runs[x].parent = None
  <2>1. PICK limits \in RootLimits :
          runs = [x \in Run |-> IF x = 1 THEN NewRow(None, None, 1, "abandon", limits) ELSE Absent]
    BY DEF Init, TreeInit
  <2>2. NewRow(None, None, 1, "abandon", limits).parent = None
    BY DEF NewRow
  <2>3. QED
    BY <2>1, <2>2, AbsentType
<1>3. \A x : RowIn(runs, NoTx, x) = runs[x]
  BY WrittenType DEF RowIn, NoTx
<1>4. CaredFor(runs, NoTx)
  BY <1>2, <1>3, WrittenType DEF CaredFor, SettledStays, DealtWith, NoTx
<1>5. \A t \in Tx : tx[t] = NoTx
  BY DEF Init
<1>6. QED
  BY <1>1, <1>4, <1>5 DEF OrphanInv

THEOREM FamilyInvariant == Spec => []OrphanInv
<1>1. Init => OrphanInv
  BY OrphanInit
<1>2. OrphanInv /\ [Next]_vars => OrphanInv'
  BY OrphanStep
<1>3. QED
  BY <1>1, <1>2, PTL DEF Spec

(* No open run is left behind by a closed parent against its policy, for a  *)
(* tree of any size and any number of transactions: whoever closes a run    *)
(* holds it until its children are dealt with, so no child joins them       *)
(* meanwhile, and a child that is held by another is waited for.            *)
THEOREM NobodyLeftBehind == Spec => []NoOrphan
<1>1. ASSUME OrphanInv
      PROVE  NoOrphan
  <2>1. SUFFICES ASSUME NEW x \in Run, Open(runs, x), runs[x].parent # None,
                        ~Open(runs, runs[x].parent)
                 PROVE  /\ runs[x].policy # "terminate"
                        /\ runs[x].policy = "cancel" => runs[x].history.asked
    BY DEF NoOrphan
  <2>2. DealtWith(runs, NoTx, x) /\ \A name, y : ~Pending(NoTx, name, y)
    BY <1>1, NothingPending DEF OrphanInv, CaredFor
  <2>3. \A y : RowIn(runs, NoTx, y) = runs[y]
    BY WrittenType DEF RowIn, NoTx
  <2>4. Settled(runs[x])
    BY <2>1, <2>2, <2>3 DEF DealtWith, KnownTo, Open
  <2>5. QED
    BY <2>1, <2>4 DEF Settled, Open
<1>2. QED
  BY <1>1, FamilyInvariant, PTL

-----------------------------------------------------------------------------
(* Chains: a run that continues as new hands its chain on to the next one.  *)

Continued(row) == row.status = "CONTINUED_AS_NEW"

(* The timers that end an open run are pending. *)
WillEnd(row) == row.status = "RUNNING" => \A l \in row.limits : row.timers[l] = "PENDING"

(* The run e is the one of the chain that did not continue.                 *)
EndsIn(rs, head, e) ==
  \A x \in Run : (Exists(rs, x) /\ rs[x].first = head /\ ~Continued(rs[x])) <=> x = e

(* The head of a chain heads its own chain and gives all its runs their     *)
(* limits.                                                                  *)
ChainsOK(rs) ==
  /\ \A x \in Run : Exists(rs, x) =>
       /\ Exists(rs, rs[x].first)
       /\ rs[rs[x].first].first = rs[x].first
       /\ rs[x].limits = rs[rs[x].first].limits
       /\ WillEnd(rs[x])
  /\ \A x \in Run : Exists(rs, x) /\ rs[x].first = x => \E e \in Run : EndsIn(rs, x, e)

(* What a transaction does to chains: a run stays in its chain, another     *)
(* begins one, or one run continues and a new one takes its place.          *)
StaysInChain(rs, X, x) == Exists(rs, x) /\ (Continued(X.wrote[x]) <=> Continued(rs[x]))

BeginsChain(rs, X, x) == ~Exists(rs, x) /\ X.wrote[x].first = x /\ ~Continued(X.wrote[x])

HandsOn(rs, X, r, n) ==
  /\ Exists(rs, r) /\ ~Continued(rs[r]) /\ Continued(X.wrote[r])
  /\ ~Exists(rs, n) /\ ~Continued(X.wrote[n])
  /\ X.wrote[n].first = rs[r].first
  /\ X.wrote[n].limits = rs[r].limits

ChainTx(rs, X) ==
  /\ \A x \in DOMAIN X.wrote : WillEnd(X.wrote[x])
  /\ \/ \A x \in DOMAIN X.wrote : StaysInChain(rs, X, x) \/ BeginsChain(rs, X, x)
     \/ \E r, n \in DOMAIN X.wrote :
          /\ HandsOn(rs, X, r, n)
          /\ \A x \in DOMAIN X.wrote \ {r, n} : StaysInChain(rs, X, x)

ChainInv ==
  /\ LocksInv
  /\ ChainsOK(runs)
  /\ \A t \in Tx : ChainTx(runs, tx[t])

LEMMA LocalChain ==
  ASSUME ChainInv, LocksInv', NEW t \in Tx, NEW Y,
         runs' = runs, tx' = [tx EXCEPT ![t] = Y], ChainTx(runs, Y)
  PROVE  ChainInv'
<1>1. tx'[t] = Y /\ \A u \in Tx \ {t} : tx'[u] = tx[u]
  BY DEF ChainInv, LocksInv, TypeInv
<1>2. \A u \in Tx : ChainTx(runs', tx'[u])
  BY <1>1 DEF ChainInv
<1>3. QED
  BY <1>2 DEF ChainInv

LEMMA ChainSame ==
  ASSUME NEW rs, NEW X, NEW Y, Y.wrote = X.wrote, ChainTx(rs, X)
  PROVE  ChainTx(rs, Y)
BY DEF ChainTx, StaysInChain, BeginsChain, HandsOn

LEMMA ChainWithoutWrites ==
  ASSUME NEW rs, NEW Y, Y.wrote = << >>
  PROVE  ChainTx(rs, Y)
BY WrittenType DEF ChainTx

(* A row that is rewritten stays in its chain and with it open or not.      *)
LEMMA ChainPut ==
  ASSUME LocksInv, NEW t \in Tx, ChainTx(runs, tx[t]),
         NEW Y, Y.kind = tx[t].kind, Y.run = tx[t].run, Y.timer = tx[t].timer,
         Y.held = tx[t].held,
         NEW x \in tx[t].held, NEW row, Y.wrote = Put(t, x, row),
         Rewritten(RowIn(runs, tx[t], x), row), row.status # "ABSENT",
         WillEnd(row), Continued(row) <=> Continued(RowIn(runs, tx[t], x))
  PROVE  ChainTx(runs, Y)
<1> DEFINE X == tx[t]
<1>1. /\ DOMAIN Y.wrote = DOMAIN X.wrote \cup {x}
      /\ Y.wrote[x] = row
      /\ \A y \in Run : y # x => RowIn(runs, Y, y) = RowIn(runs, X, y)
      /\ ~Exists(runs, x) => x \in DOMAIN X.wrote
      /\ x \in Run
      /\ DOMAIN X.wrote \subseteq Run
  <2>1. x \in Run /\ DOMAIN X.wrote \subseteq Run
    BY OfTx
  <2>2. /\ DOMAIN Y.wrote = DOMAIN X.wrote \cup {x}
        /\ Y.wrote[x] = row
        /\ \A y \in Run : y # x => RowIn(runs, Y, y) = RowIn(runs, X, y)
        /\ ~Exists(runs, x) => x \in DOMAIN X.wrote
    BY PutRow
  <2>3. QED
    BY <2>1, <2>2
<1>2. \A y \in DOMAIN X.wrote : y # x => Y.wrote[y] = X.wrote[y]
  BY <1>1 DEF RowIn
<1>3. \A y \in DOMAIN Y.wrote : WillEnd(Y.wrote[y])
  BY <1>1, <1>2 DEF ChainTx
<1>4. /\ SameRun(RowIn(runs, X, x), row)
      /\ x \in DOMAIN X.wrote => RowIn(runs, X, x) = X.wrote[x]
      /\ x \notin DOMAIN X.wrote => RowIn(runs, X, x) = runs[x] /\ Exists(runs, x)
  BY <1>1 DEF Rewritten, RowIn
<1>5. \A y \in DOMAIN X.wrote : /\ Continued(Y.wrote[y]) <=> Continued(X.wrote[y])
                                /\ Y.wrote[y].first = X.wrote[y].first
                                /\ Y.wrote[y].limits = X.wrote[y].limits
  BY <1>1, <1>2, <1>4 DEF SameRun
<1>6. x \notin DOMAIN X.wrote => StaysInChain(runs, Y, x)
  BY <1>1, <1>4 DEF StaysInChain
<1>7. CASE \A y \in DOMAIN X.wrote : StaysInChain(runs, X, y) \/ BeginsChain(runs, X, y)
  <2>1. \A y \in DOMAIN X.wrote : StaysInChain(runs, Y, y) \/ BeginsChain(runs, Y, y)
    BY <1>5, <1>7 DEF StaysInChain, BeginsChain
  <2>2. QED
    BY <2>1, <1>1, <1>3, <1>6 DEF ChainTx
<1>8. CASE \E r, n \in DOMAIN X.wrote :
             /\ HandsOn(runs, X, r, n)
             /\ \A y \in DOMAIN X.wrote \ {r, n} : StaysInChain(runs, X, y)
  <2>1. PICK r \in DOMAIN X.wrote, n \in DOMAIN X.wrote :
          /\ HandsOn(runs, X, r, n)
          /\ \A y \in DOMAIN X.wrote \ {r, n} : StaysInChain(runs, X, y)
    BY <1>8
  <2>2. HandsOn(runs, Y, r, n)
    BY <2>1, <1>5 DEF HandsOn
  <2>3. \A y \in DOMAIN Y.wrote \ {r, n} : StaysInChain(runs, Y, y)
    BY <2>1, <1>1, <1>5, <1>6 DEF StaysInChain
  <2>4. QED
    BY <2>2, <2>3, <1>1, <1>3 DEF ChainTx
<1>9. QED
  BY <1>7, <1>8 DEF ChainTx

(* The timers of a row are those of the row it is made of.                  *)
LEMMA WillStillEnd ==
  ASSUME NEW old, NEW row, WillEnd(old), SameRun(old, row), old.limits \subseteq Timeout,
         row.status = "RUNNING" => /\ old.status = "RUNNING"
                                   /\ \A l \in Timeout : row.timers[l] = old.timers[l]
  PROVE  WillEnd(row)
BY DEF WillEnd, SameRun

(* What a transaction sees of a run will end.                               *)
LEMMA SeenWillEnd ==
  ASSUME ChainInv, NEW t \in Tx, NEW x \in Run, KnownTo(runs, tx[t], x)
  PROVE  WillEnd(RowIn(runs, tx[t], x)) /\ RowIn(runs, tx[t], x).limits \subseteq Timeout
<1>1. RowIn(runs, tx[t], x).limits \subseteq Timeout
  <2>1. RowIn(runs, tx[t], x) \in RunRow
    BY SeenRow DEF ChainInv
  <2>2. QED
    BY <2>1 DEF RunRow
<1>2. CASE x \in DOMAIN tx[t].wrote
  <2>1. WillEnd(tx[t].wrote[x]) /\ RowIn(runs, tx[t], x) = tx[t].wrote[x]
    BY <1>2 DEF RowIn, ChainInv, ChainTx
  <2>2. QED
    BY <2>1, <1>1
<1>3. CASE x \notin DOMAIN tx[t].wrote
  <2>1. RowIn(runs, tx[t], x) = runs[x] /\ Exists(runs, x)
    BY <1>3 DEF RowIn, KnownTo, Exists
  <2>2. WillEnd(runs[x])
    BY <2>1 DEF ChainInv, ChainsOK
  <2>3. QED
    BY <2>1, <2>2, <1>1
<1>4. QED
  BY <1>2, <1>3

LEMMA LockKeepsChains ==
  ASSUME ChainInv, NEW t \in Tx, Lock(t)
  PROVE  ChainInv'
<1> DEFINE Y == tx'[t]
<1>1. LocksInv /\ runs' = runs
  BY DEF ChainInv, Lock
<1>2. tx' = [tx EXCEPT ![t] = Y] /\ Y.wrote = tx[t].wrote
  <2>1. tx \in [Tx -> TxRow] /\ tx[t] \in TxRow
    BY <1>1 DEF LocksInv, TypeInv
  <2>2. tx' = [tx EXCEPT ![t].held = @ \cup {At(t)}, ![t].todo = Rest(t)]
    BY DEF Lock
  <2>3. QED
    BY <2>1, <2>2 DEF TxRow
<1> HIDE DEF Y
<1>3. ChainTx(runs, Y)
  BY <1>2, ChainSame DEF ChainInv
<1>4. QED
  BY <1>1, <1>2, <1>3, LockKeeps, LocalChain

LEMMA SelectKeepsChains ==
  ASSUME ChainInv, NEW t \in Tx, SelectChildren(t)
  PROVE  ChainInv'
<1> DEFINE Y == tx'[t]
<1>1. LocksInv /\ runs' = runs
  BY DEF ChainInv, SelectChildren
<1>2. tx' = [tx EXCEPT ![t] = Y] /\ Y.wrote = tx[t].wrote
  <2>1. tx \in [Tx -> TxRow] /\ tx[t] \in TxRow
    BY <1>1 DEF LocksInv, TypeInv
  <2>2. PICK todo : tx' = [tx EXCEPT ![t].todo = todo]
    BY DEF SelectChildren
  <2>3. QED
    BY <2>1, <2>2 DEF TxRow
<1> HIDE DEF Y
<1>3. ChainTx(runs, Y)
  BY <1>2, ChainSame DEF ChainInv
<1>4. QED
  BY <1>1, <1>2, <1>3, SelectKeeps, LocalChain

LEMMA NotifyKeepsChains ==
  ASSUME ChainInv, NEW t \in Tx, NotifyParent(t)
  PROVE  ChainInv'
<1> DEFINE X == tx[t]
<1>1. LocksInv /\ ChainTx(runs, X)
  BY DEF ChainInv
<1>2. NotifyDoes(t) /\ runs' = runs
  BY <1>1, AnyNotifyDoes
<1>3. PICK Y : /\ Moved(t, Y)
               /\ Y.held = X.held
               /\ Y.wrote = X.wrote \/ TellsParent(t, Y)
  BY <1>2 DEF NotifyDoes
<1>4. ChainTx(runs, Y)
  <2>1. CASE Y.wrote = X.wrote
    BY <2>1, <1>1, ChainSame
  <2>2. CASE TellsParent(t, Y)
    <3> DEFINE p == RowIn(runs, X, At(t)).parent
               seen == RowIn(runs, X, p)
    <3>1. PICK row : /\ Y.wrote = Put(t, p, row)
                     /\ Rewritten(seen, row)
                     /\ row.status = seen.status
                     /\ row.status = "RUNNING"
                     /\ row.timers = seen.timers
      BY <2>2 DEF TellsParent, SameTimers
    <3>2. p \in X.held
      BY <2>2 DEF TellsParent
    <3> HIDE DEF p
    <3>3. p \in Run /\ KnownTo(runs, X, p)
      <4>1. X.held \subseteq Run /\ HeldOK(runs, X)
        BY <1>1, OfTx DEF TxOK
      <4>2. QED
        BY <4>1, <3>2 DEF HeldOK
    <3>4. WillEnd(seen) /\ seen.limits \subseteq Timeout
      BY <3>3, SeenWillEnd
    <3>5. SameRun(seen, row)
      BY <3>1 DEF Rewritten
    <3>6. WillEnd(row)
      BY <3>1, <3>4, <3>5, WillStillEnd
    <3>7. Y.kind = X.kind /\ Y.run = X.run /\ Y.timer = X.timer /\ Y.held = X.held
      BY <1>3 DEF Moved
    <3>8. (Continued(row) <=> Continued(seen)) /\ row.status # "ABSENT"
      BY <3>1 DEF Continued
    <3>9. QED
      BY <3>1, <3>2, <3>6, <3>7, <3>8, <1>1, ChainPut
  <2>3. QED
    BY <2>1, <2>2, <1>3
<1>5. QED
  BY <1>1, <1>2, <1>3, <1>4, NotifyKeeps, LocalChain DEF Moved

LEMMA PolicyKeepsChains ==
  ASSUME ChainInv, NEW t \in Tx, ApplyPolicy(t)
  PROVE  ChainInv'
<1> DEFINE X == tx[t]
           r == At(t)
           seen == RowIn(runs, X, r)
<1>1. LocksInv /\ ChainTx(runs, X)
  BY DEF ChainInv
<1>2. PolicyDoes(t) /\ NextIs(t, "policy") /\ runs' = runs
  BY <1>1, AnyPolicyDoes
<1>3. PICK Y :
        /\ Moved(t, Y)
        /\ Y.held = X.held
        /\ \/ Y.wrote = X.wrote
           \/ \E row : /\ Y.wrote = Put(t, r, row)
                       /\ Rewritten(seen, row)
                       /\ row.timers = seen.timers
                       /\ \/ row.status = seen.status /\ row.status = "RUNNING"
                          \/ EndsForGood(seen, row)
  BY <1>2 DEF PolicyDoes, SameTimers
<1>4. r \in X.held /\ r \in Run /\ KnownTo(runs, X, r)
  BY <1>1, <1>2, AtStatement
<1>5. WillEnd(seen) /\ seen.limits \subseteq Timeout
  BY <1>4, SeenWillEnd
<1>6. ChainTx(runs, Y)
  <2>1. CASE Y.wrote = X.wrote
    BY <2>1, <1>1, ChainSame
  <2>2. ASSUME NEW row,
               Y.wrote = Put(t, r, row),
               Rewritten(seen, row),
               row.timers = seen.timers,
               (row.status = seen.status /\ row.status = "RUNNING") \/ EndsForGood(seen, row)
        PROVE  ChainTx(runs, Y)
    <3>1. SameRun(seen, row)
      BY <2>2 DEF Rewritten
    <3>2. WillEnd(row)
      BY <2>2, <3>1, <1>5, WillStillEnd DEF EndsForGood
    <3>3. Y.kind = X.kind /\ Y.run = X.run /\ Y.timer = X.timer /\ Y.held = X.held
      BY <1>3 DEF Moved
    <3>4. (Continued(row) <=> Continued(seen)) /\ row.status # "ABSENT"
      BY <2>2 DEF Continued, EndsForGood
    <3>5. QED
      BY <2>2, <3>2, <3>3, <3>4, <1>1, <1>4, ChainPut
  <2>3. QED
    BY <2>1, <2>2, <1>3
<1>7. QED
  BY <1>1, <1>2, <1>3, <1>6, PolicyKeeps, LocalChain DEF Moved

(* A body leaves the chain of its run as it is, begins those of its         *)
(* children, or hands the chain on.                                         *)
LEMMA BodyKeepsChains ==
  ASSUME ChainInv, NEW t \in Tx, Body(t)
  PROVE  ChainInv'
<1> DEFINE X == tx[t]
           r == At(t)
           old == runs[r]
<1>1. LocksInv /\ ChainsOK(runs)
  BY DEF ChainInv
<1>2. BodyDoes(t) /\ NextIs(t, "body") /\ runs' = runs
  BY <1>1, AnyBodyDoes
<1>3. PICK Y : /\ Moved(t, Y)
               /\ WritesNothing(Y) \/ WritesRun(r, Y) \/ WritesDecision(t, r, Y)
  BY <1>2 DEF BodyDoes
<1>4. r \in Run /\ Exists(runs, r) /\ old \in RunRow
  BY <1>1, <1>2, AtBody DEF LocksInv, TypeInv
<1>5. WillEnd(old) /\ old.limits \subseteq Timeout
  <2>1. WillEnd(old)
    BY <1>1, <1>4 DEF ChainsOK
  <2>2. QED
    BY <2>1, <1>4 DEF RunRow
<1>6. CASE WritesNothing(Y)
  <2>1. ChainTx(runs, Y)
    BY <1>6, ChainWithoutWrites DEF WritesNothing
  <2>2. QED
    BY <2>1, <1>1, <1>2, <1>3, BodyKeeps, LocalChain DEF Moved
<1>7. CASE WritesRun(r, Y)
  <2> DEFINE row == Y.wrote[r]
  <2>1. /\ DOMAIN Y.wrote = {r}
        /\ SameRun(old, row)
        /\ GoesOn(old, row) \/ EndsForGood(old, row)
    BY <1>7 DEF WritesRun, Rewritten
  <2>2. WillEnd(row)
    BY <2>1, <1>5, WillStillEnd DEF GoesOn, EndsForGood
  <2>3. StaysInChain(runs, Y, r)
    BY <2>1, <1>4 DEF StaysInChain, GoesOn, EndsForGood, Continued
  <2>4. ChainTx(runs, Y)
    BY <2>1, <2>2, <2>3 DEF ChainTx
  <2>5. QED
    BY <2>4, <1>1, <1>2, <1>3, BodyKeeps, LocalChain DEF Moved
<1>8. CASE WritesDecision(t, r, Y)
  <2> DEFINE row == Y.wrote[r]
             new == DOMAIN Y.wrote \ {r}
  <2>1. /\ r \in DOMAIN Y.wrote
        /\ old.status = "RUNNING"
        /\ SameRun(old, row)
        /\ \A x \in Timeout : row.timers[x] = old.timers[x]
        /\ \A x \in new : IsNew(x, Y.wrote[x])
    BY <1>8, Zenon DEF WritesDecision
  <2>2. \/ ~Continued(row) /\ \A x \in new : IsChild(r, x, Y.wrote[x])
        \/ Continued(row) /\ \E x \in new : new = {x} /\ IsNext(old, Y.wrote[x])
    BY <1>8 DEF WritesDecision, Continued
  <2>3. WillEnd(row)
    BY <2>1, <1>5, WillStillEnd
  <2>4. ASSUME NEW x \in new
        PROVE  WillEnd(Y.wrote[x]) /\ ~Exists(runs, x) /\ ~Continued(Y.wrote[x])
    <3>1. IsNew(x, Y.wrote[x])
      BY <2>1
    <3>2. Y.wrote[x].limits \subseteq Timeout
      BY <3>1 DEF IsNew, RunRow
    <3>3. \A l \in Y.wrote[x].limits : Y.wrote[x].timers[l] = "PENDING"
      BY <3>1, <3>2 DEF IsNew, Armed, Timer
    <3>4. QED
      BY <3>1, <3>3 DEF IsNew, WillEnd, Continued
  <2>5. \A x \in DOMAIN Y.wrote : WillEnd(Y.wrote[x])
    BY <2>3, <2>4
  <2>6. CASE ~Continued(row) /\ \A x \in new : IsChild(r, x, Y.wrote[x])
    <3>1. StaysInChain(runs, Y, r)
      BY <2>1, <2>6, <1>4 DEF StaysInChain, Continued
    <3>2. \A x \in new : BeginsChain(runs, Y, x)
      BY <2>4, <2>6 DEF BeginsChain, IsChild
    <3>3. QED
      BY <3>1, <3>2, <2>5, <1>1, <1>2, <1>3, BodyKeeps, LocalChain DEF Moved, ChainTx
  <2>7. CASE Continued(row) /\ \E x \in new : new = {x} /\ IsNext(old, Y.wrote[x])
    <3>1. PICK n \in new : new = {n} /\ IsNext(old, Y.wrote[n])
      BY <2>7
    <3>2. HandsOn(runs, Y, r, n)
      BY <3>1, <2>1, <2>4, <2>7, <1>4 DEF HandsOn, IsNext, Continued
    <3>3. ChainTx(runs, Y)
      BY <3>1, <3>2, <2>1, <2>5 DEF ChainTx
    <3>4. QED
      BY <3>3, <1>1, <1>2, <1>3, BodyKeeps, LocalChain DEF Moved
  <2>8. QED
    BY <2>2, <2>6, <2>7
<1>9. QED
  BY <1>3, <1>6, <1>7, <1>8

(* What becomes visible at a commit: every chain has one end again.         *)
LEMMA CommittedChains ==
  ASSUME ChainInv, NEW t \in Tx
  PROVE  ChainsOK(After(tx[t]))
<1> DEFINE X == tx[t]
           rs == After(X)
           D == DOMAIN X.wrote
<1>1. /\ LocksInv /\ ChainsOK(runs) /\ ChainTx(runs, X)
      /\ D \subseteq Run
  BY OfTx DEF ChainInv
<1>2. /\ \A x : Exists(runs, x) => Exists(rs, x) /\ SameRun(runs[x], rs[x])
      /\ \A x \in Run : x \notin D => rs[x] = runs[x]
      /\ \A x \in D : Exists(rs, x) /\ rs[x] = X.wrote[x]
  BY <1>1, AfterCommit
<1> HIDE DEF rs
<1>3. \A x : Exists(rs, x) => x \in Run /\ (Exists(runs, x) \/ x \in D)
  BY <1>2 DEF Exists
<1>4. ASSUME NEW x, Exists(rs, x)
      PROVE  WillEnd(rs[x])
  <2>1. CASE x \in D
    BY <2>1, <1>1, <1>2 DEF ChainTx
  <2>2. CASE x \notin D
    BY <2>2, <1>1, <1>2, <1>3, <1>4 DEF ChainsOK
  <2>3. QED
    BY <2>1, <2>2
(* The runs that were there keep their head and its limits.                 *)
<1>5. ASSUME NEW x, Exists(runs, x)
      PROVE  /\ Exists(runs, runs[x].first)
             /\ rs[x].first = runs[x].first
             /\ Exists(rs, rs[x].first)
             /\ rs[rs[x].first].first = rs[x].first
             /\ rs[x].limits = rs[rs[x].first].limits
             /\ rs[rs[x].first].limits = runs[runs[x].first].limits
  <2>1. /\ Exists(runs, runs[x].first)
        /\ runs[runs[x].first].first = runs[x].first
        /\ runs[x].limits = runs[runs[x].first].limits
    BY <1>1, <1>5 DEF ChainsOK, Exists
  <2>2. SameRun(runs[x], rs[x]) /\ SameRun(runs[runs[x].first], rs[runs[x].first])
        /\ Exists(rs, runs[x].first)
    BY <1>2, <1>5, <2>1
  <2>3. QED
    BY <2>1, <2>2 DEF SameRun
<1>6. CASE \A x \in D : StaysInChain(runs, X, x) \/ BeginsChain(runs, X, x)
  <2>1. ASSUME NEW x, Exists(rs, x), ~Exists(runs, x)
        PROVE  rs[x].first = x /\ ~Continued(rs[x])
    <3>1. x \in D /\ rs[x] = X.wrote[x]
      BY <1>2, <1>3, <2>1
    <3>2. QED
      BY <3>1, <2>1, <1>6 DEF StaysInChain, BeginsChain
  <2>2. ASSUME NEW x, Exists(runs, x)
        PROVE  Continued(rs[x]) <=> Continued(runs[x])
    <3>1. CASE x \in D
      BY <3>1, <2>2, <1>2, <1>6 DEF StaysInChain, BeginsChain
    <3>2. CASE x \notin D
      BY <3>2, <2>2, <1>2 DEF Exists
    <3>3. QED
      BY <3>1, <3>2
  <2>3. ASSUME NEW x \in Run, Exists(rs, x)
        PROVE  /\ Exists(rs, rs[x].first)
               /\ rs[rs[x].first].first = rs[x].first
               /\ rs[x].limits = rs[rs[x].first].limits
    BY <2>1, <2>3, <1>5
  <2>4. ASSUME NEW h \in Run, Exists(rs, h), rs[h].first = h
        PROVE  \E e \in Run : EndsIn(rs, h, e)
    <3>1. CASE Exists(runs, h)
      <4>1. runs[h].first = h
        BY <3>1, <2>4, <1>5
      <4>2. PICK e \in Run : EndsIn(runs, h, e)
        BY <4>1, <3>1, <1>1 DEF ChainsOK
      <4>3. ASSUME NEW x \in Run
            PROVE  (Exists(rs, x) /\ rs[x].first = h /\ ~Continued(rs[x]))
                     <=> (Exists(runs, x) /\ runs[x].first = h /\ ~Continued(runs[x]))
        <5>1. CASE Exists(runs, x)
          BY <5>1, <2>2, <1>2, <1>5
        <5>2. CASE ~Exists(runs, x)
          BY <5>2, <3>1, <2>1
        <5>3. QED
          BY <5>1, <5>2
      <4>4. QED
        BY <4>2, <4>3 DEF EndsIn
    <3>2. CASE ~Exists(runs, h)
      <4>1. ASSUME NEW x \in Run
            PROVE  (Exists(rs, x) /\ rs[x].first = h /\ ~Continued(rs[x])) <=> x = h
        <5>1. CASE Exists(runs, x)
          BY <5>1, <3>2, <1>5
        <5>2. CASE ~Exists(runs, x)
          BY <5>2, <2>1, <2>4
        <5>3. QED
          BY <5>1, <5>2
      <4>2. QED
        BY <4>1 DEF EndsIn
    <3>3. QED
      BY <3>1, <3>2
  <2>5. ChainsOK(rs)
    BY <2>3, <2>4, <1>4 DEF ChainsOK, Exists
  <2>6. QED
    BY <2>5 DEF rs
<1>7. CASE \E r, n \in D : /\ HandsOn(runs, X, r, n)
                           /\ \A x \in D \ {r, n} : StaysInChain(runs, X, x)
  <2>1. PICK r \in D, n \in D : /\ HandsOn(runs, X, r, n)
                                /\ \A x \in D \ {r, n} : StaysInChain(runs, X, x)
    BY <1>7
  <2>2. /\ r \in Run /\ n \in Run
        /\ Exists(runs, r) /\ ~Continued(runs[r]) /\ Continued(rs[r])
        /\ ~Exists(runs, n) /\ Exists(rs, n) /\ ~Continued(rs[n])
        /\ rs[n].first = runs[r].first
        /\ rs[n].limits = runs[r].limits
    BY <2>1, <1>1, <1>2 DEF HandsOn
  <2>3. \A x : Exists(rs, x) /\ ~Exists(runs, x) => x = n
    BY <2>1, <2>2, <1>3 DEF StaysInChain
  <2>4. ASSUME NEW x, Exists(runs, x), x # r
        PROVE  Continued(rs[x]) <=> Continued(runs[x])
    <3>1. CASE x \in D
      BY <3>1, <2>1, <2>2, <2>4, <1>2 DEF StaysInChain
    <3>2. CASE x \notin D
      BY <3>2, <2>4, <1>2 DEF Exists
    <3>3. QED
      BY <3>1, <3>2
  <2>5. /\ Exists(rs, rs[n].first)
        /\ rs[rs[n].first].first = rs[n].first
        /\ rs[n].limits = rs[rs[n].first].limits
    <3>1. rs[n].first = rs[r].first /\ rs[n].limits = rs[r].limits
      BY <2>2, <1>2 DEF SameRun
    <3>2. QED
      BY <3>1, <2>2, <1>5
  <2>6. ASSUME NEW x \in Run, Exists(rs, x)
        PROVE  /\ Exists(rs, rs[x].first)
               /\ rs[rs[x].first].first = rs[x].first
               /\ rs[x].limits = rs[rs[x].first].limits
    BY <2>3, <2>5, <2>6, <1>5
  <2>7. ASSUME NEW h \in Run, Exists(rs, h), rs[h].first = h
        PROVE  \E e \in Run : EndsIn(rs, h, e)
    <3>1. Exists(runs, h)
      <4>1. SUFFICES ASSUME h = n
                     PROVE  FALSE
        BY <2>3, <2>7
      <4>2. Exists(runs, n)
        BY <4>1, <2>2, <2>7, <1>5
      <4>3. QED
        BY <4>2, <2>2
    <3>2. runs[h].first = h
      BY <3>1, <2>7, <1>5
    <3>3. PICK e \in Run : EndsIn(runs, h, e)
      BY <3>1, <3>2, <1>1 DEF ChainsOK
    <3>4. CASE runs[r].first = h
      <4>1. e = r
        BY <2>2, <3>3, <3>4 DEF EndsIn
      <4>2. ASSUME NEW x \in Run
            PROVE  (Exists(rs, x) /\ rs[x].first = h /\ ~Continued(rs[x])) <=> x = n
        <5>1. CASE x = n
          BY <5>1, <2>2, <3>4
        <5>2. CASE x = r
          BY <5>2, <2>2
        <5>3. CASE x \notin {r, n} /\ Exists(runs, x)
          <6>1. ~(runs[x].first = h /\ ~Continued(runs[x]))
            BY <5>3, <4>1, <3>3 DEF EndsIn
          <6>2. QED
            BY <6>1, <5>3, <2>4, <1>5
        <5>4. CASE x \notin {r, n} /\ ~Exists(runs, x)
          BY <5>4, <2>3
        <5>5. QED
          BY <5>1, <5>2, <5>3, <5>4
      <4>3. QED
        BY <4>2, <2>2 DEF EndsIn
    <3>5. CASE runs[r].first # h
      <4>1. ASSUME NEW x \in Run
            PROVE  (Exists(rs, x) /\ rs[x].first = h /\ ~Continued(rs[x]))
                     <=> (Exists(runs, x) /\ runs[x].first = h /\ ~Continued(runs[x]))
        <5>1. CASE x = n
          BY <5>1, <2>2, <3>5
        <5>2. CASE x = r
          BY <5>2, <2>2, <3>5
        <5>3. CASE x \notin {r, n} /\ Exists(runs, x)
          BY <5>3, <2>4, <1>2, <1>5
        <5>4. CASE x \notin {r, n} /\ ~Exists(runs, x)
          BY <5>4, <2>3
        <5>5. QED
          BY <5>1, <5>2, <5>3, <5>4
      <4>2. QED
        BY <3>3, <4>1 DEF EndsIn
    <3>6. QED
      BY <3>4, <3>5
  <2>8. ChainsOK(rs)
    BY <2>6, <2>7, <1>4 DEF ChainsOK, Exists
  <2>9. QED
    BY <2>8 DEF rs
<1>8. QED
  BY <1>1, <1>6, <1>7 DEF ChainTx

(* The others do not notice, as they have written other runs.               *)
LEMMA OthersChains ==
  ASSUME ChainInv, NEW t \in Tx, NEW u \in Tx, t # u
  PROVE  ChainTx(After(tx[t]), tx[u])
<1> DEFINE Z == tx[t]
           X == tx[u]
           rs == After(Z)
<1>1. LocksInv /\ ChainTx(runs, X)
  BY DEF ChainInv
<1>2. /\ DOMAIN X.wrote \subseteq Run
      /\ \A x \in DOMAIN X.wrote : x \notin DOMAIN Z.wrote
  BY <1>1, OfTx, WrittenApart
<1>3. \A x \in DOMAIN X.wrote : rs[x] = runs[x]
  BY <1>1, <1>2, AfterCommit
<1> HIDE DEF rs
<1>4. \A x \in DOMAIN X.wrote :
        /\ StaysInChain(runs, X, x) <=> StaysInChain(rs, X, x)
        /\ BeginsChain(runs, X, x) <=> BeginsChain(rs, X, x)
        /\ \A y \in DOMAIN X.wrote : HandsOn(runs, X, x, y) <=> HandsOn(rs, X, x, y)
  BY <1>3 DEF StaysInChain, BeginsChain, HandsOn, Exists
<1>5. ChainTx(rs, X)
  <2>1. CASE \A x \in DOMAIN X.wrote : StaysInChain(runs, X, x) \/ BeginsChain(runs, X, x)
    BY <2>1, <1>1, <1>4 DEF ChainTx
  <2>2. ASSUME NEW r \in DOMAIN X.wrote, NEW n \in DOMAIN X.wrote, HandsOn(runs, X, r, n),
               \A x \in DOMAIN X.wrote \ {r, n} : StaysInChain(runs, X, x)
        PROVE  ChainTx(rs, X)
    <3>1. HandsOn(rs, X, r, n) /\ \A x \in DOMAIN X.wrote \ {r, n} : StaysInChain(rs, X, x)
      BY <2>2, <1>4
    <3>2. QED
      BY <3>1, <1>1 DEF ChainTx
  <2>3. QED
    BY <2>1, <2>2, <1>1 DEF ChainTx
<1>6. QED
  BY <1>5 DEF rs

LEMMA CommitKeepsChains ==
  ASSUME ChainInv, NEW t \in Tx, Commit(t)
  PROVE  ChainInv'
<1>1. /\ LocksInv
      /\ runs' = After(tx[t])
      /\ tx' = [tx EXCEPT ![t] = NoTx]
  BY DEF ChainInv, Commit, After, Row, RowIn
<1>2. tx'[t] = NoTx /\ \A u \in Tx \ {t} : tx'[u] = tx[u]
  BY <1>1 DEF LocksInv, TypeInv
<1>3. ChainTx(runs', NoTx)
  <2>1. NoTx.wrote = << >>
    BY DEF NoTx
  <2>2. QED
    BY <2>1, ChainWithoutWrites
<1>4. \A u \in Tx : ChainTx(runs', tx'[u])
  <2>1. \A u \in Tx \ {t} : ChainTx(runs', tx'[u])
    BY <1>1, <1>2, OthersChains
  <2>2. QED
    BY <2>1, <1>2, <1>3
<1>5. ChainsOK(runs')
  BY <1>1, CommittedChains
<1>6. LocksInv'
  BY <1>1, CommitKeeps
<1>7. QED
  BY <1>4, <1>5, <1>6 DEF ChainInv

LEMMA ChainStep ==
  ASSUME ChainInv, [Next]_vars
  PROVE  ChainInv'
<1>1. LocksInv /\ LocksInv'
  BY StepKeeps DEF ChainInv
<1>2. CASE UNCHANGED vars
  <2>1. runs' = runs /\ tx' = tx
    BY <1>2 DEF vars
  <2>2. QED
    BY <2>1, <1>1 DEF ChainInv
<1>3. CASE Next
  <2>1. PICK t \in Tx :
          \/ Proceed(t) \/ RollBack(t)
          \/ \E r \in Run :
               \/ BeginDecision(t, r)
               \/ \E kind \in {"cancel", "terminate"} : BeginRequest(t, r, kind)
               \/ \E timer \in Timer : BeginTimer(t, r, timer)
    BY <1>3 DEF Next
  <2>2. CASE Proceed(t)
    BY <2>2, LockKeepsChains, BodyKeepsChains, NotifyKeepsChains, SelectKeepsChains,
       PolicyKeepsChains, CommitKeepsChains
    DEF Proceed
  <2>3. ASSUME NEW Y, runs' = runs, tx' = [tx EXCEPT ![t] = Y], Y.wrote = << >>
        PROVE  ChainInv'
    <3>1. ChainTx(runs, Y)
      BY <2>3, ChainWithoutWrites
    <3>2. QED
      BY <2>3, <3>1, <1>1, LocalChain
  <2>4. CASE RollBack(t)
    <3>1. runs' = runs /\ tx' = [tx EXCEPT ![t] = NoTx] /\ NoTx.wrote = << >>
      BY <2>4 DEF RollBack, NoTx
    <3>2. QED
      BY <3>1, <2>3
  <2>5. ASSUME NEW r \in Run,
               \/ BeginDecision(t, r)
               \/ \E kind \in {"cancel", "terminate"} : BeginRequest(t, r, kind)
               \/ \E timer \in Timer : BeginTimer(t, r, timer)
        PROVE  ChainInv'
    <3>1. PICK Y : Begin(t, Y) /\ Y.wrote = << >>
      BY <2>5, BeginsEmpty
    <3>2. runs' = runs /\ tx' = [tx EXCEPT ![t] = Y]
      BY <3>1 DEF Begin
    <3>3. QED
      BY <3>1, <3>2, <2>3
  <2>6. QED
    BY <2>1, <2>2, <2>4, <2>5
<1>4. QED
  BY <1>2, <1>3

LEMMA ChainInit ==
  ASSUME Init
  PROVE  ChainInv
<1>1. LocksInv
  BY InitHolds
<1>2. PICK limits \in RootLimits :
        runs = [x \in Run |-> IF x = 1 THEN NewRow(None, None, 1, "abandon", limits) ELSE Absent]
  BY DEF Init, TreeInit
<1>3. /\ \A x \in Run : Exists(runs, x) <=> x = 1
      /\ 1 \in Run
      /\ runs[1].first = 1
      /\ runs[1].status = "RUNNING"
      /\ runs[1].timers = Armed(runs[1].limits)
  <2>1. NewRow(None, None, 1, "abandon", limits).status = "RUNNING"
        /\ NewRow(None, None, 1, "abandon", limits).first = 1
        /\ NewRow(None, None, 1, "abandon", limits).limits = limits
        /\ NewRow(None, None, 1, "abandon", limits).timers = Armed(limits)
    BY DEF NewRow
  <2>2. QED
    BY <1>2, <2>1, AbsentType, SizeIsNat DEF Exists
<1>4. WillEnd(runs[1]) /\ ~Continued(runs[1])
  <2>1. runs[1].limits \subseteq Timeout
    BY <1>1, <1>3 DEF LocksInv, TypeInv, RunRow
  <2>2. QED
    BY <2>1, <1>3 DEF WillEnd, Armed, Timer, Continued
<1>5. EndsIn(runs, 1, 1)
  BY <1>3, <1>4 DEF EndsIn
<1>6. ChainsOK(runs)
  BY <1>3, <1>4, <1>5 DEF ChainsOK
<1>7. \A t \in Tx : ChainTx(runs, tx[t])
  <2>1. NoTx.wrote = << >> /\ \A t \in Tx : tx[t] = NoTx
    BY DEF NoTx, Init
  <2>2. QED
    BY <2>1, ChainWithoutWrites
<1>8. QED
  BY <1>1, <1>6, <1>7 DEF ChainInv

(* What is written of a chain by one transaction and committed by another   *)
(* never gives the chain two ends or none.                                  *)
THEOREM ChainInvariant == Spec => []ChainInv
<1>1. Init => ChainInv
  BY ChainInit
<1>2. ChainInv /\ [Next]_vars => ChainInv'
  BY ChainStep
<1>3. QED
  BY <1>1, <1>2, PTL DEF Spec

(* A chain has one run that did not continue, and an open run still has the *)
(* timers that end it pending, the deadline its chain was started with      *)
(* among them (recorder.ts, run_continued_as_new; run-timeouts.ts).         *)
THEOREM ChainsHaveOneEnd == Spec => []OneOpenPerChain
<1>1. ASSUME ChainInv
      PROVE  OneOpenPerChain
  <2>1. SUFFICES ASSUME NEW r \in Run, runs[r] # Absent
                 PROVE  /\ Cardinality({x \in Chain(r) : runs[x].status # "CONTINUED_AS_NEW"}) = 1
                        /\ Open(runs, r) =>
                             \A t \in runs[runs[r].first].limits : runs[r].timers[t] = "PENDING"
    BY DEF OneOpenPerChain
  <2>2. \A x \in Run : Exists(runs, x) <=> runs[x] # Absent
    BY <1>1, AbsentType DEF ChainInv, LocksInv, RowsOK, Exists
  <2>3. /\ Exists(runs, runs[r].first)
        /\ runs[runs[r].first].first = runs[r].first
        /\ runs[r].limits = runs[runs[r].first].limits
        /\ WillEnd(runs[r])
    BY <1>1, <2>1, <2>2 DEF ChainInv, ChainsOK
  <2>4. PICK e \in Run : EndsIn(runs, runs[r].first, e)
    BY <1>1, <2>3 DEF ChainInv, ChainsOK, Exists
  <2>5. {x \in Chain(r) : runs[x].status # "CONTINUED_AS_NEW"} = {e}
    BY <2>2, <2>4 DEF EndsIn, Chain, Continued
  <2>6. Cardinality({e}) = 1
    BY FS_Singleton
  <2>7. QED
    BY <2>3, <2>5, <2>6 DEF WillEnd, Open
<1>2. QED
  BY <1>1, ChainInvariant, PTL

-----------------------------------------------------------------------------
(* A timer is marked fired when its event is in the history, and one that   *)
(* ends the run when the run timed out.                                     *)
TimerOK(row) ==
  /\ row.history.fired = IF row.timers["timer-1"] = "FIRED" THEN 1 ELSE 0
  /\ \A l \in Timeout : row.timers[l] = "FIRED" => row.status = "TIMED_OUT"

TakesTimer(X, x, m) == X.kind = "timer" /\ X.run = x /\ X.timer = m

(* Only the transaction that took a timer settles it.                       *)
TimerTx(rs, X) ==
  /\ \A x \in DOMAIN X.wrote : TimerOK(X.wrote[x])
  /\ \A x \in DOMAIN X.wrote, m \in Timer :
       Exists(rs, x) /\ rs[x].timers[m] = "PENDING" /\ X.wrote[x].timers[m] # "PENDING"
         => TakesTimer(X, x, m)
  /\ X.kind = "timer" => rs[X.run].timers[X.timer] = "PENDING"

TimerInv ==
  /\ LocksInv
  /\ \A x \in Run : TimerOK(runs[x])
  /\ \A t \in Tx : TimerTx(runs, tx[t])
  /\ \A t, u \in Tx : tx[t].kind = "timer" /\ TakesTimer(tx[u], tx[t].run, tx[t].timer) => t = u

LEMMA LocalTimer ==
  ASSUME TimerInv, LocksInv', NEW t \in Tx, NEW Y,
         runs' = runs, tx' = [tx EXCEPT ![t] = Y], TimerTx(runs, Y),
         \A u \in Tx \ {t} : Y.kind = "timer" => ~TakesTimer(tx[u], Y.run, Y.timer)
  PROVE  TimerInv'
<1>1. tx'[t] = Y /\ \A u \in Tx \ {t} : tx'[u] = tx[u]
  BY DEF TimerInv, LocksInv, TypeInv
<1>2. \A u \in Tx : TimerTx(runs', tx'[u])
  BY <1>1 DEF TimerInv
<1>3. ASSUME NEW a \in Tx, NEW b \in Tx,
             tx'[a].kind = "timer", TakesTimer(tx'[b], tx'[a].run, tx'[a].timer)
      PROVE  a = b
  <2>1. CASE a = t /\ b # t
    BY <1>1, <1>3, <2>1
  <2>2. CASE b = t /\ a # t
    BY <1>1, <1>3, <2>2 DEF TakesTimer
  <2>3. CASE a # t /\ b # t
    BY <1>1, <1>3, <2>3 DEF TimerInv
  <2>4. QED
    BY <2>1, <2>2, <2>3
<1>4. QED
  BY <1>2, <1>3 DEF TimerInv

(* A transaction that goes on still has its timer.                          *)
LEMMA MovedTimer ==
  ASSUME TimerInv, LocksInv', NEW t \in Tx, NEW Y, Moved(t, Y), runs' = runs,
         TimerTx(runs, Y)
  PROVE  TimerInv'
<1>1. Y.kind = tx[t].kind /\ Y.run = tx[t].run /\ Y.timer = tx[t].timer
      /\ tx' = [tx EXCEPT ![t] = Y]
  BY DEF Moved
<1>2. \A u \in Tx \ {t} : Y.kind = "timer" => ~TakesTimer(tx[u], Y.run, Y.timer)
  BY <1>1 DEF TimerInv
<1>3. QED
  BY <1>1, <1>2, LocalTimer

LEMMA TimerSame ==
  ASSUME NEW rs, NEW X, NEW Y, TimerTx(rs, X), Y.wrote = X.wrote,
         Y.kind = X.kind, Y.run = X.run, Y.timer = X.timer
  PROVE  TimerTx(rs, Y)
BY DEF TimerTx, TakesTimer

LEMMA SeenTimer ==
  ASSUME TimerInv, NEW t \in Tx, NEW x \in Run
  PROVE  TimerOK(RowIn(runs, tx[t], x))
BY DEF RowIn, TimerInv, TimerTx

(* A row that is rewritten with its timers as they are.                     *)
LEMMA TimerPut ==
  ASSUME TimerInv, NEW t \in Tx, NEW Y, Moved(t, Y), Y.held = tx[t].held,
         NEW x \in tx[t].held, NEW row, Y.wrote = Put(t, x, row),
         Rewritten(RowIn(runs, tx[t], x), row), row.status # "ABSENT",
         SameTimers(RowIn(runs, tx[t], x), row)
  PROVE  TimerTx(runs, Y)
<1> DEFINE X == tx[t]
           seen == RowIn(runs, X, x)
<1>1. /\ DOMAIN Y.wrote = DOMAIN X.wrote \cup {x}
      /\ Y.wrote[x] = row
      /\ \A y \in DOMAIN X.wrote : y # x => Y.wrote[y] = X.wrote[y]
      /\ x \in Run
      /\ Y.kind = X.kind /\ Y.run = X.run /\ Y.timer = X.timer
  <2>1. Y.kind = X.kind /\ Y.run = X.run /\ Y.timer = X.timer
    BY DEF Moved
  <2>2. LocksInv
    BY DEF TimerInv
  <2>3. x \in Run /\ DOMAIN X.wrote \subseteq Run
    BY <2>2, OfTx
  <2>4. /\ DOMAIN Y.wrote = DOMAIN X.wrote \cup {x}
        /\ Y.wrote[x] = row
        /\ \A y \in Run : y # x => RowIn(runs, Y, y) = RowIn(runs, X, y)
    BY <2>1, <2>2, PutRow
  <2>5. QED
    BY <2>1, <2>3, <2>4 DEF RowIn
<1>2. TimerOK(seen)
  BY <1>1, SeenTimer
<1> HIDE DEF seen
<1>3. TimerOK(row)
  <2>1. row.timers = seen.timers /\ row.history.fired = seen.history.fired
    BY DEF SameTimers, seen
  <2>2. seen.status = "TIMED_OUT" => row.status = "TIMED_OUT"
    BY DEF Rewritten, StaysClosed, seen
  <2>3. QED
    BY <1>2, <2>1, <2>2 DEF TimerOK
<1>4. ASSUME NEW y \in DOMAIN Y.wrote, NEW m \in Timer,
             Exists(runs, y), runs[y].timers[m] = "PENDING", Y.wrote[y].timers[m] # "PENDING"
      PROVE  TakesTimer(Y, y, m)
  <2>1. CASE y # x
    <3>1. TakesTimer(X, y, m)
      BY <1>1, <1>4, <2>1 DEF TimerInv, TimerTx
    <3>2. QED
      BY <1>1, <3>1 DEF TakesTimer
  <2>2. CASE y = x
    <3>1. row.timers[m] = seen.timers[m]
      BY DEF SameTimers, seen
    <3>2. x \in DOMAIN X.wrote /\ seen = X.wrote[x]
      BY <1>1, <1>4, <2>2, <3>1 DEF seen, RowIn
    <3>3. TakesTimer(X, x, m)
      BY <1>1, <1>4, <2>2, <3>1, <3>2 DEF TimerInv, TimerTx
    <3>4. QED
      BY <1>1, <2>2, <3>3 DEF TakesTimer
  <2>3. QED
    BY <2>1, <2>2
<1>5. QED
  BY <1>1, <1>3, <1>4 DEF TimerTx, TimerInv

LEMMA LockKeepsTimers ==
  ASSUME TimerInv, NEW t \in Tx, Lock(t) \/ SelectChildren(t)
  PROVE  TimerInv'
<1> DEFINE Y == tx'[t]
<1>1. LocksInv /\ runs' = runs /\ tx[t] \in TxRow /\ tx \in [Tx -> TxRow]
  BY DEF TimerInv, Lock, SelectChildren, LocksInv, TypeInv
<1>2. /\ tx' = [tx EXCEPT ![t] = Y]
      /\ Y.wrote = tx[t].wrote /\ Y.kind = tx[t].kind /\ Y.run = tx[t].run
      /\ Y.timer = tx[t].timer
  <2>1. CASE Lock(t)
    <3>1. tx' = [tx EXCEPT ![t].held = @ \cup {At(t)}, ![t].todo = Rest(t)]
      BY <2>1 DEF Lock
    <3>2. QED
      BY <1>1, <3>1 DEF TxRow
  <2>2. CASE SelectChildren(t)
    <3>1. PICK todo : tx' = [tx EXCEPT ![t].todo = todo]
      BY <2>2 DEF SelectChildren
    <3>2. QED
      BY <1>1, <3>1 DEF TxRow
  <2>3. QED
    BY <2>1, <2>2
<1> HIDE DEF Y
<1>3. TimerTx(runs, Y)
  BY <1>2, TimerSame DEF TimerInv
<1>4. LocksInv'
  BY <1>1, LockKeeps, SelectKeeps
<1>5. \A u \in Tx \ {t} : Y.kind = "timer" => ~TakesTimer(tx[u], Y.run, Y.timer)
  BY <1>2 DEF TimerInv
<1>6. QED
  BY <1>1, <1>2, <1>3, <1>4, <1>5, LocalTimer

LEMMA NotifyKeepsTimers ==
  ASSUME TimerInv, NEW t \in Tx, NotifyParent(t)
  PROVE  TimerInv'
<1> DEFINE X == tx[t]
           p == RowIn(runs, X, At(t)).parent
<1>1. LocksInv
  BY DEF TimerInv
<1>2. NotifyDoes(t) /\ runs' = runs
  BY <1>1, AnyNotifyDoes
<1>3. PICK Y : /\ Moved(t, Y)
               /\ Y.held = X.held
               /\ Y.wrote = X.wrote \/ TellsParent(t, Y)
  BY <1>2 DEF NotifyDoes
<1>4. TimerTx(runs, Y)
  <2>1. CASE Y.wrote = X.wrote
    BY <2>1, <1>3, TimerSame DEF TimerInv, Moved
  <2>2. CASE TellsParent(t, Y)
    <3>1. PICK row : /\ Y.wrote = Put(t, p, row)
                     /\ Rewritten(RowIn(runs, X, p), row)
                     /\ row.status = "RUNNING"
                     /\ SameTimers(RowIn(runs, X, p), row)
      BY <2>2 DEF TellsParent
    <3>2. p \in X.held
      BY <2>2 DEF TellsParent
    <3> HIDE DEF p
    <3>3. QED
      BY <1>3, <3>1, <3>2, TimerPut
  <2>3. QED
    BY <1>3, <2>1, <2>2
<1>5. QED
  BY <1>1, <1>2, <1>3, <1>4, NotifyKeeps, MovedTimer

LEMMA PolicyKeepsTimers ==
  ASSUME TimerInv, NEW t \in Tx, ApplyPolicy(t)
  PROVE  TimerInv'
<1> DEFINE X == tx[t]
           r == At(t)
           seen == RowIn(runs, X, r)
<1>1. LocksInv
  BY DEF TimerInv
<1>2. PolicyDoes(t) /\ NextIs(t, "policy") /\ runs' = runs
  BY <1>1, AnyPolicyDoes
<1>3. PICK Y :
        /\ Moved(t, Y)
        /\ Y.held = X.held
        /\ \/ Y.wrote = X.wrote
           \/ \E row : /\ Y.wrote = Put(t, r, row)
                       /\ Rewritten(seen, row)
                       /\ SameTimers(seen, row)
                       /\ row.status # "ABSENT"
  BY <1>2 DEF PolicyDoes, EndsForGood
<1>4. r \in X.held
  BY <1>1, <1>2, AtStatement
<1>5. TimerTx(runs, Y)
  <2>1. CASE Y.wrote = X.wrote
    BY <2>1, <1>3, TimerSame DEF TimerInv, Moved
  <2>2. ASSUME NEW row, Y.wrote = Put(t, r, row), Rewritten(seen, row),
               SameTimers(seen, row), row.status # "ABSENT"
        PROVE  TimerTx(runs, Y)
    BY <2>2, <1>3, <1>4, TimerPut
  <2>3. QED
    BY <1>3, <2>1, <2>2
<1>6. QED
  BY <1>1, <1>2, <1>3, <1>5, PolicyKeeps, MovedTimer

(* A body settles no timer but the one of its transaction.                  *)
LEMMA BodyKeepsTimers ==
  ASSUME TimerInv, NEW t \in Tx, Body(t)
  PROVE  TimerInv'
<1> DEFINE r == At(t)
           old == runs[r]
<1>1. LocksInv
  BY DEF TimerInv
<1>2. BodyDoes(t) /\ NextIs(t, "body") /\ runs' = runs
  BY <1>1, AnyBodyDoes
<1>3. PICK Y : /\ Moved(t, Y)
               /\ WritesNothing(Y) \/ WritesRun(r, Y) \/ WritesDecision(t, r, Y)
  BY <1>2 DEF BodyDoes
<1>4. /\ r \in Run /\ Exists(runs, r) /\ old \in RunRow /\ TimerOK(old)
      /\ r = tx[t].run
  BY <1>1, <1>2, AtBody DEF TimerInv, LocksInv, TypeInv
<1>5. /\ Y.kind = tx[t].kind /\ Y.run = r /\ Y.timer = tx[t].timer
      /\ Y.kind = "timer" => Y.timer \in Timer /\ old.timers[Y.timer] = "PENDING"
  <2>1. Y.kind = tx[t].kind /\ Y.run = r /\ Y.timer = tx[t].timer
    BY <1>3, <1>4 DEF Moved
  <2>2. TxOK(runs, tx[t]) /\ tx[t] # NoTx
    BY <1>1, <1>2, OfTx, AtBody
  <2>3. QED
    BY <2>1, <2>2, <1>4 DEF TxOK, TimerInv, TimerTx
<1>6. /\ old.timers \in [Timer -> TimerState] /\ old.history.fired \in Nat
      /\ "timer-1" \in Timer /\ Timeout \subseteq Timer /\ "timer-1" \notin Timeout
      /\ Timer \ Timeout = {"timer-1"}
  BY <1>4 DEF RunRow, HistoryRow, Timer, Timeout
<1>7. CASE WritesNothing(Y)
  <2>1. DOMAIN Y.wrote = {}
    BY <1>7, WrittenType DEF WritesNothing
  <2>2. TimerTx(runs, Y)
    BY <2>1, <1>4, <1>5 DEF TimerTx
  <2>3. QED
    BY <2>2, <1>1, <1>2, <1>3, BodyKeeps, MovedTimer
<1>8. CASE WritesRun(r, Y)
  <2> DEFINE row == Y.wrote[r]
  <2>1. DOMAIN Y.wrote = {r} /\ SettlesTimer(Y, old, row)
    BY <1>8 DEF WritesRun
  <2> HIDE DEF row, old
  <2>2. TimerOK(row) /\ \A m \in Timer : old.timers[m] = "PENDING" /\ row.timers[m] # "PENDING"
                                          => Y.kind = "timer" /\ Y.timer = m
    <3>1. CASE SameTimers(old, row) /\ (row.status = old.status \/ old.status = "RUNNING")
      BY <3>1, <1>4, <1>6 DEF TimerOK, SameTimers
    <3>2. CASE /\ Y.kind = "timer"
               /\ row.timers = [old.timers EXCEPT ![Y.timer] = "CANCELLED"]
               /\ row.status = old.status
               /\ row.history.fired = old.history.fired
      BY <3>2, <1>4, <1>5, <1>6 DEF TimerOK
    <3>3. CASE /\ Y.kind = "timer"
               /\ row.timers = [old.timers EXCEPT ![Y.timer] = "FIRED"]
               /\ Y.timer \in Timeout
               /\ row.status = "TIMED_OUT" /\ old.status = "RUNNING"
               /\ row.history.fired = old.history.fired
      BY <3>3, <1>4, <1>5, <1>6 DEF TimerOK
    <3>4. CASE /\ Y.kind = "timer"
               /\ row.timers = [old.timers EXCEPT ![Y.timer] = "FIRED"]
               /\ Y.timer \notin Timeout
               /\ row.status = old.status
               /\ row.history.fired = old.history.fired + 1
      <4>1. Y.timer = "timer-1"
        BY <3>4, <1>5, <1>6
      <4>2. QED
        BY <3>4, <4>1, <1>4, <1>5, <1>6 DEF TimerOK
    <3>5. QED
      BY <2>1, <3>1, <3>2, <3>3, <3>4 DEF SettlesTimer
  <2>3. TimerTx(runs, Y)
    <3>1. \A x \in DOMAIN Y.wrote : x = r /\ Y.wrote[x] = row /\ runs[x] = old
      BY <2>1 DEF row, old
    <3>2. Y.kind = "timer" => runs[Y.run].timers[Y.timer] = "PENDING"
      BY <1>5 DEF old
    <3>3. QED
      BY <3>1, <3>2, <2>2, <1>5 DEF TimerTx, TakesTimer
  <2>4. QED
    BY <2>3, <1>1, <1>2, <1>3, BodyKeeps, MovedTimer
<1>9. CASE WritesDecision(t, r, Y)
  <2> DEFINE row == Y.wrote[r]
             new == DOMAIN Y.wrote \ {r}
  <2>1. /\ Y.kind = "decide"
        /\ old.status = "RUNNING"
        /\ \A x \in Timeout : row.timers[x] = old.timers[x]
        /\ row.history.fired = old.history.fired
        /\ \/ row.timers["timer-1"] = old.timers["timer-1"]
           \/ old.timers["timer-1"] = "none" /\ row.timers["timer-1"] = "PENDING"
        /\ \A x \in new : IsNew(x, Y.wrote[x])
    BY <1>9, Zenon DEF WritesDecision
  <2> HIDE DEF row, old
  <2>2. TimerOK(row) /\ \A m \in Timer : old.timers[m] = "PENDING" => row.timers[m] = "PENDING"
    BY <2>1, <1>4, <1>6 DEF TimerOK
  <2>3. ASSUME NEW x \in new
        PROVE  TimerOK(Y.wrote[x]) /\ ~Exists(runs, x)
    <3>1. IsNew(x, Y.wrote[x])
      BY <2>1
    <3>2. Y.wrote[x].history.fired = 0
      BY <3>1 DEF IsNew, NoHistory
    <3>3. \A m \in Timer : Y.wrote[x].timers[m] # "FIRED"
      BY <3>1 DEF IsNew, Armed
    <3>4. QED
      BY <3>1, <3>2, <3>3, <1>6 DEF IsNew, TimerOK
  <2>4. TimerTx(runs, Y)
    <3>1. \A x \in DOMAIN Y.wrote : (x = r /\ Y.wrote[x] = row /\ runs[x] = old) \/ x \in new
      BY DEF row, old
    <3>2. QED
      BY <3>1, <2>1, <2>2, <2>3 DEF TimerTx
  <2>5. QED
    BY <2>4, <1>1, <1>2, <1>3, BodyKeeps, MovedTimer
<1>10. QED
  BY <1>3, <1>7, <1>8, <1>9

(* What one commits takes no timer from another.                            *)
LEMMA CommitKeepsTimers ==
  ASSUME TimerInv, NEW t \in Tx, Commit(t)
  PROVE  TimerInv'
<1> DEFINE Z == tx[t]
           rs == After(Z)
<1>1. /\ LocksInv
      /\ runs' = rs
      /\ tx' = [tx EXCEPT ![t] = NoTx]
  BY DEF TimerInv, Commit, After, Row, RowIn
<1>2. tx'[t] = NoTx /\ \A u \in Tx \ {t} : tx'[u] = tx[u]
  BY <1>1 DEF LocksInv, TypeInv
<1>3. /\ \A x \in Run : x \notin DOMAIN Z.wrote => rs[x] = runs[x]
      /\ \A x \in DOMAIN Z.wrote : rs[x] = Z.wrote[x]
      /\ DOMAIN Z.wrote \subseteq Run
  BY <1>1, AfterCommit, OfTx
<1> HIDE DEF rs
<1>4. \A x \in Run : TimerOK(rs[x])
  BY <1>3 DEF TimerInv, TimerTx
<1>5. ASSUME NEW u \in Tx, u # t
      PROVE  TimerTx(rs, tx[u])
  <2> DEFINE X == tx[u]
  <2>1. /\ TimerTx(runs, X)
        /\ DOMAIN X.wrote \subseteq Run
        /\ \A x \in DOMAIN X.wrote : rs[x] = runs[x]
    BY <1>1, <1>3, <1>5, OfTx, WrittenApart DEF TimerInv
  <2>2. ASSUME X.kind = "timer"
        PROVE  rs[X.run].timers[X.timer] = "PENDING"
    <3>1. /\ Exists(runs, X.run) /\ X.timer \in Timer /\ X.run \in Run
          /\ runs[X.run].timers[X.timer] = "PENDING"
      <4>1. TxOK(runs, X) /\ X # NoTx
        BY <1>1, <2>2, OfTx DEF NoTx
      <4>2. QED
        BY <4>1, <2>1, <2>2 DEF TxOK, TimerTx, Exists
    <3>2. CASE X.run \in DOMAIN Z.wrote
      <4>1. ~TakesTimer(Z, X.run, X.timer)
        BY <1>5, <2>2 DEF TimerInv
      <4>2. Z.wrote[X.run].timers[X.timer] = "PENDING"
        BY <3>1, <3>2, <4>1 DEF TimerInv, TimerTx
      <4>3. QED
        BY <3>2, <4>2, <1>3
    <3>3. CASE X.run \notin DOMAIN Z.wrote
      BY <3>1, <3>3, <1>3
    <3>4. QED
      BY <3>2, <3>3
  <2>3. \A x \in DOMAIN X.wrote : Exists(rs, x) <=> Exists(runs, x)
    BY <2>1 DEF Exists
  <2>4. QED
    BY <2>1, <2>2, <2>3 DEF TimerTx
<1>6. TimerTx(rs, NoTx)
  <2>1. DOMAIN NoTx.wrote = {} /\ NoTx.kind # "timer"
    BY WrittenType DEF NoTx
  <2>2. QED
    BY <2>1 DEF TimerTx
<1>7. \A u \in Tx : TimerTx(runs', tx'[u])
  BY <1>1, <1>2, <1>5, <1>6
<1>8. ASSUME NEW a \in Tx, NEW b \in Tx,
             tx'[a].kind = "timer", TakesTimer(tx'[b], tx'[a].run, tx'[a].timer)
      PROVE  a = b
  <2>1. NoTx.kind # "timer"
    BY DEF NoTx
  <2>2. a # t /\ b # t
    BY <1>2, <1>8, <2>1 DEF TakesTimer
  <2>3. QED
    BY <1>2, <1>8, <2>2 DEF TimerInv
<1>9. LocksInv' /\ \A x \in Run : TimerOK(runs'[x])
  BY <1>1, <1>4, CommitKeeps
<1>10. QED
  BY <1>7, <1>8, <1>9 DEF TimerInv

(* A timer is taken by one scheduler: the others skip its row.              *)
LEMMA TimerStep ==
  ASSUME TimerInv, [Next]_vars
  PROVE  TimerInv'
<1>1. LocksInv /\ LocksInv'
  BY StepKeeps DEF TimerInv
<1>2. CASE UNCHANGED vars
  <2>1. runs' = runs /\ tx' = tx
    BY <1>2 DEF vars
  <2>2. QED
    BY <2>1, <1>1 DEF TimerInv
<1>3. CASE Next
  <2>1. PICK t \in Tx :
          \/ Proceed(t) \/ RollBack(t)
          \/ \E r \in Run :
               \/ BeginDecision(t, r)
               \/ \E kind \in {"cancel", "terminate"} : BeginRequest(t, r, kind)
               \/ \E timer \in Timer : BeginTimer(t, r, timer)
    BY <1>3 DEF Next
  <2>2. CASE Proceed(t)
    BY <2>2, LockKeepsTimers, BodyKeepsTimers, NotifyKeepsTimers, PolicyKeepsTimers,
       CommitKeepsTimers
    DEF Proceed
  <2>3. ASSUME NEW Y, runs' = runs, tx' = [tx EXCEPT ![t] = Y], Y.wrote = << >>,
               Y.kind = "timer" => /\ runs[Y.run].timers[Y.timer] = "PENDING"
                                   /\ NotTaken(Y.run, Y.timer)
        PROVE  TimerInv'
    <3>1. DOMAIN Y.wrote = {}
      BY <2>3, WrittenType
    <3>2. TimerTx(runs, Y)
      BY <2>3, <3>1 DEF TimerTx
    <3>3. \A u \in Tx \ {t} : Y.kind = "timer" => ~TakesTimer(tx[u], Y.run, Y.timer)
      BY <2>3 DEF NotTaken, TakesTimer
    <3>4. QED
      BY <2>3, <3>2, <3>3, <1>1, LocalTimer
  <2>4. CASE RollBack(t)
    <3>1. runs' = runs /\ tx' = [tx EXCEPT ![t] = NoTx] /\ NoTx.wrote = << >>
          /\ NoTx.kind # "timer"
      BY <2>4 DEF RollBack, NoTx
    <3>2. QED
      BY <3>1, <2>3
  <2>5. ASSUME NEW r \in Run,
               \/ BeginDecision(t, r)
               \/ \E kind \in {"cancel", "terminate"} : BeginRequest(t, r, kind)
               \/ \E timer \in Timer : BeginTimer(t, r, timer)
        PROVE  TimerInv'
    <3>1. PICK Y : Begin(t, Y) /\ Y.wrote = << >> /\ Starts(r, Y)
      BY <2>5, BeginsEmpty
    <3>2. runs' = runs /\ tx' = [tx EXCEPT ![t] = Y]
      BY <3>1 DEF Begin
    <3>3. QED
      BY <3>1, <3>2, <2>3 DEF Starts
  <2>6. QED
    BY <2>1, <2>2, <2>4, <2>5
<1>4. QED
  BY <1>2, <1>3

LEMMA TimerInit ==
  ASSUME Init
  PROVE  TimerInv
<1>1. LocksInv
  BY InitHolds
<1>2. PICK limits \in RootLimits :
        runs = [x \in Run |-> IF x = 1 THEN NewRow(None, None, 1, "abandon", limits) ELSE Absent]
  BY DEF Init, TreeInit
<1>3. \A x \in Run : /\ runs[x].history.fired = 0
                     /\ \A m \in Timer : runs[x].timers[m] # "FIRED"
  <2>1. NewRow(None, None, 1, "abandon", limits).history.fired = 0
        /\ \A m \in Timer : NewRow(None, None, 1, "abandon", limits).timers[m] # "FIRED"
    BY DEF NewRow, NoHistory, Armed
  <2>2. Absent.history.fired = 0 /\ \A m \in Timer : Absent.timers[m] # "FIRED"
    BY DEF Absent, NoHistory, NoTimers
  <2>3. QED
    BY <1>2, <2>1, <2>2
<1>4. \A x \in Run : TimerOK(runs[x])
  BY <1>3 DEF TimerOK, Timer
<1>5. /\ \A t \in Tx : tx[t] = NoTx
      /\ NoTx.kind # "timer" /\ DOMAIN NoTx.wrote = {}
  BY WrittenType DEF Init, NoTx
<1>6. QED
  BY <1>1, <1>4, <1>5 DEF TimerInv, TimerTx

(* A timer settles once, by the one transaction that took it, and what the  *)
(* history and the status of its run say of it is what its mark says        *)
(* (timer-scheduler.ts, fireNext).                                          *)
THEOREM TimerInvariant == Spec => []TimerInv
<1>1. Init => TimerInv
  BY TimerInit
<1>2. TimerInv /\ [Next]_vars => TimerInv'
  BY TimerStep
<1>3. QED
  BY <1>1, <1>2, PTL DEF Spec

-----------------------------------------------------------------------------
(* The rows as a transaction sees them. *)
Over(rs, X) == [x \in Run |-> RowIn(rs, X, x)]

(* The runs of the chains that p started, in rows V.                        *)
Kin(V, p) == {x \in Run : Exists(V, x) /\ V[x].parent = p}

(* The number under which the parent knows the chain of x: its head has it. *)
LinkIn(V, x) == V[V[x].first].child

(* The head of a chain heads itself and has the parent of the chain, and    *)
(* only a head that has a parent has a number.                              *)
LinkedOK(V) ==
  \A x \in Run : Exists(V, x) =>
    LET h == V[x].first IN
    /\ Exists(V, h) /\ V[h].first = h /\ V[h].parent = V[x].parent
    /\ V[x].child # None => h = x /\ V[x].parent # None

(* The chains of p have different numbers up to what p has started, the one *)
(* run of a chain that did not continue is its last, and nothing was heard  *)
(* of a child that was not started.                                         *)
KinOK(V, p) ==
  LET started == V[p].history.started IN
  /\ \A x \in Kin(V, p) : V[x].first = x => V[x].child \in 1..started /\ V[x].child <= x
  /\ \A x, y \in Kin(V, p) :
       V[x].first = x /\ V[y].first = y /\ V[x].child = V[y].child => x = y
  /\ \A x, y \in Kin(V, p) : V[x].first = V[y].first /\ ~Continued(V[y]) => x <= y
  /\ started = 0 \/ \E x \in Kin(V, p) : V[x].child = started
  /\ \A c \in Run : c > started => V[p].history.heard[c] = << >>

(* An open parent has heard what became of a chain that ended, unless the   *)
(* run it ended with is among those it is still to hear of.                 *)
Heard(V, p, ending) ==
  V[p].status = "RUNNING" =>
    \A y \in Kin(V, p) : ~Continued(V[y]) =>
      V[p].history.heard[LinkIn(V, y)] =
        IF V[y].status = "RUNNING" \/ y \in ending THEN << >> ELSE <<OutcomeOf(V[y].status)>>

(* The family of p is the same, but for how the runs of it stand.           *)
SameKin(V, W, p) ==
  /\ SameTold(V[p], W[p])
  /\ Kin(W, p) = Kin(V, p)
  /\ \A y \in Kin(V, p) : /\ W[y].first = V[y].first
                          /\ W[y].child = V[y].child
                          /\ LinkIn(W, y) = LinkIn(V, y)

LEMMA KinKept ==
  ASSUME NEW V, NEW W, NEW p, SameKin(V, W, p), KinOK(V, p),
         \A y \in Kin(V, p) : Continued(W[y]) <=> Continued(V[y])
  PROVE  KinOK(W, p)
BY DEF KinOK, SameKin, SameTold

LEMMA HeardKept ==
  ASSUME NEW V, NEW W, NEW p, SameKin(V, W, p), NEW b, NEW c, Heard(V, p, b),
         W[p].status = "RUNNING" => V[p].status = "RUNNING",
         \A y \in Kin(V, p) : ~Continued(W[y]) =>
           /\ ~Continued(V[y])
           /\ \/ W[y].status = V[y].status /\ (y \in b <=> y \in c)
              \/ V[y].status = "RUNNING" /\ y \in c
  PROVE  Heard(W, p, c)
<1>1. SUFFICES ASSUME W[p].status = "RUNNING", NEW y \in Kin(W, p), ~Continued(W[y])
               PROVE  W[p].history.heard[LinkIn(W, y)] =
                        IF W[y].status = "RUNNING" \/ y \in c THEN << >>
                        ELSE <<OutcomeOf(W[y].status)>>
  BY DEF Heard
<1>2. /\ y \in Kin(V, p) /\ ~Continued(V[y])
      /\ W[p].history.heard[LinkIn(W, y)] = V[p].history.heard[LinkIn(V, y)]
  BY <1>1 DEF SameKin, SameTold
<1>3. V[p].history.heard[LinkIn(V, y)] =
        IF V[y].status = "RUNNING" \/ y \in b THEN << >> ELSE <<OutcomeOf(V[y].status)>>
  BY <1>1, <1>2 DEF Heard
<1>4. \/ W[y].status = V[y].status /\ (y \in b <=> y \in c)
      \/ V[y].status = "RUNNING" /\ y \in c
  BY <1>1, <1>2
<1>5. QED
  BY <1>2, <1>3, <1>4

(* One run was rewritten, and did not become another.                       *)
LEMMA OneRowKin ==
  ASSUME NEW V, NEW W, LinkedOK(V), NEW r \in Run, Exists(V, r),
         \A y \in Run : y # r => W[y] = V[y],
         SameRun(V[r], W[r]), W[r].status # "ABSENT"
  PROVE  /\ LinkedOK(W)
         /\ \A p \in Run : p # r => SameKin(V, W, p)
         /\ SameTold(V[r], W[r]) => SameKin(V, W, r)
<1>1. /\ \A x : Exists(W, x) <=> Exists(V, x)
      /\ \A x \in Run : W[x].first = V[x].first /\ W[x].child = V[x].child
                       /\ W[x].parent = V[x].parent
  BY DEF Exists, SameRun
<1>2. LinkedOK(W)
  BY <1>1 DEF LinkedOK, Exists
<1>3. \A p : Kin(W, p) = Kin(V, p)
  BY <1>1 DEF Kin
<1>4. \A p, y : y \in Kin(V, p) => /\ W[y].first = V[y].first
                                   /\ W[y].child = V[y].child
                                   /\ LinkIn(W, y) = LinkIn(V, y)
  <2>1. ASSUME NEW p, NEW y \in Kin(V, p)
        PROVE  y \in Run /\ V[y].first \in Run
    BY DEF Kin, LinkedOK, Exists
  <2>2. QED
    BY <2>1, <1>1 DEF LinkIn
<1>5. \A p \in Run : p # r => SameTold(V[p], W[p])
  BY DEF SameTold
<1>6. QED
  BY <1>2, <1>3, <1>4, <1>5 DEF SameKin

(* It goes on, or it ended and its parent is still to be told.              *)
LEMMA OneRowTells ==
  ASSUME NEW V, NEW W, LinkedOK(V), NEW r \in Run, Exists(V, r),
         \A y \in Run : y # r => W[y] = V[y],
         SameRun(V[r], W[r]), W[r].status # "ABSENT", SameTold(V[r], W[r]),
         NEW b, NEW c,
         \/ W[r].status = V[r].status /\ c = b
         \/ EndsForGood(V[r], W[r]) /\ c = b \cup {r},
         NEW p \in Run, KinOK(V, p), Heard(V, p, b)
  PROVE  KinOK(W, p) /\ Heard(W, p, c)
<1>1. SameKin(V, W, p)
  BY OneRowKin
<1>2. \A y \in Kin(V, p) : Continued(W[y]) <=> Continued(V[y])
  BY DEF Kin, Continued, EndsForGood
<1>3. W[p].status = "RUNNING" => V[p].status = "RUNNING"
  BY DEF EndsForGood
<1>4. ASSUME NEW y \in Kin(V, p)
      PROVE  \/ W[y].status = V[y].status /\ (y \in b <=> y \in c)
             \/ V[y].status = "RUNNING" /\ y \in c
  BY DEF Kin, EndsForGood
<1>5. QED
  BY <1>1, <1>2, <1>3, <1>4, KinKept, HeardKept

(* Two chains of p have two numbers, and two runs of one chain do not both  *)
(* end it.                                                                  *)
LEMMA OneEnding ==
  ASSUME NEW V, NEW p \in Run, LinkedOK(V), KinOK(V, p),
         V \in [Run -> RunRow],
         NEW x \in Kin(V, p), NEW y \in Kin(V, p), ~Continued(V[x]), ~Continued(V[y]),
         LinkIn(V, x) = LinkIn(V, y)
  PROVE  x = y
<1>1. /\ V[x].first \in Kin(V, p) /\ V[V[x].first].first = V[x].first
      /\ V[y].first \in Kin(V, p) /\ V[V[y].first].first = V[y].first
  BY DEF LinkedOK, Kin, Exists
<1>2. V[x].first = V[y].first
  BY <1>1 DEF KinOK, LinkIn
<1>3. x <= y /\ y <= x
  BY <1>2 DEF KinOK
<1>4. x \in Int /\ y \in Int
  BY DEF Kin, Run
<1>5. QED
  BY <1>3, <1>4

LEMMA LinkType ==
  ASSUME NEW V, NEW p \in Run, LinkedOK(V), KinOK(V, p), V \in [Run -> RunRow],
         NEW x \in Kin(V, p)
  PROVE  /\ LinkIn(V, x) \in 1..V[p].history.started
         /\ LinkIn(V, x) \in Run
         /\ V[x].first \in Kin(V, p)
         /\ V[V[x].first].first = V[x].first
<1> DEFINE h == V[x].first
<1>1. h \in Kin(V, p) /\ V[h].first = h
  BY DEF LinkedOK, Kin, Exists
<1>2. V[h].child \in 1..V[p].history.started /\ V[h].child <= h
  BY <1>1 DEF KinOK
<1>3. h \in Run /\ x \in Run
  BY <1>1 DEF Kin
<1>4. V[p].history.started \in Nat
  BY DEF RunRow, HistoryRow
<1> HIDE DEF h
<1>5. V[h].child \in Run
  BY <1>2, <1>3, <1>4, SizeIsNat DEF Run
<1>6. QED
  BY <1>1, <1>2, <1>3, <1>5 DEF LinkIn, h

(* A parent is told of the run its chain ended with.                        *)
LEMMA ToldOf ==
  ASSUME NEW V, NEW W, V \in [Run -> RunRow], LinkedOK(V), \A q \in Run : KinOK(V, q),
         NEW p \in Run, NEW x \in Kin(V, p), x # p,
         V[x].status # "RUNNING", ~Continued(V[x]),
         \A y \in Run : y # p => W[y] = V[y],
         SameRun(V[p], W[p]), W[p].status = V[p].status, W[p].status # "ABSENT",
         V[p].status = "RUNNING",
         HearsOf(V[p], LinkIn(V, x), V[x].status, W[p]),
         \A q \in Run : Heard(V, q, {x})
  PROVE  LinkedOK(W) /\ \A q \in Run : KinOK(W, q) /\ Heard(W, q, {})
<1> DEFINE link == LinkIn(V, x)
           heard == V[p].history.heard
           started == V[p].history.started
<1>1. /\ link \in 1..started /\ link \in Run /\ started \in Nat
      /\ heard \in [Run -> Seq({"completed", "failed"})]
  BY LinkType DEF RunRow, HistoryRow
<1>2. /\ W[p].history.started = started
      /\ W[p].history.heard = [heard EXCEPT ![link] = Append(@, OutcomeOf(V[x].status))]
  BY DEF HearsOf
<1>3. Exists(V, p)
  BY DEF Exists
<1>4. LinkedOK(W) /\ \A q \in Run : q # p => SameKin(V, W, q)
  BY <1>3, OneRowKin
<1>5. /\ Kin(W, p) = Kin(V, p)
      /\ \A y \in Kin(V, p) : /\ W[y].first = V[y].first
                              /\ W[y].child = V[y].child
                              /\ W[y].status = V[y].status
                              /\ LinkIn(W, y) = LinkIn(V, y)
  <2>1. \A y \in Run : /\ W[y].first = V[y].first /\ W[y].child = V[y].child
                       /\ W[y].parent = V[y].parent /\ W[y].status = V[y].status
    BY DEF SameRun
  <2>2. Kin(W, p) = Kin(V, p)
    BY <2>1 DEF Kin, Exists
  <2>3. \A y \in Kin(V, p) : y \in Run /\ V[y].first \in Run
    BY DEF Kin, LinkedOK, Exists
  <2>4. QED
    BY <2>1, <2>2, <2>3 DEF LinkIn
<1>6. \A y \in Kin(V, p) : LinkIn(V, y) \in Run
  BY LinkType
<1>7. ASSUME NEW q \in Run, q # p
      PROVE  KinOK(W, q) /\ Heard(W, q, {})
  <2>1. \A y \in Kin(V, q) : y # x /\ W[y].status = V[y].status
    BY <1>7 DEF Kin
  <2>2. QED
    BY <1>4, <1>7, <2>1, KinKept, HeardKept DEF Continued
<1>8. KinOK(W, p)
  <2>1. \A c \in Run : c > started => W[p].history.heard[c] = << >>
    <3>1. \A c \in Run : c > started => c # link
      BY <1>1 DEF Run
    <3>2. \A c \in Run : c # link => W[p].history.heard[c] = heard[c]
      BY <1>1, <1>2
    <3>3. QED
      BY <3>1, <3>2 DEF KinOK
  <2>2. KinOK(V, p)
    OBVIOUS
  <2> HIDE DEF heard
  <2>3. /\ \A y \in Kin(W, p) : W[y].first = y => W[y].child \in 1..started /\ W[y].child <= y
        /\ \A y, z \in Kin(W, p) :
             W[y].first = y /\ W[z].first = z /\ W[y].child = W[z].child => y = z
        /\ \A y, z \in Kin(W, p) : W[y].first = W[z].first /\ ~Continued(W[z]) => y <= z
        /\ started = 0 \/ \E y \in Kin(W, p) : W[y].child = started
    BY <1>5, <2>2 DEF KinOK, Continued
  <2>4. QED
    BY <1>2, <2>1, <2>3 DEF KinOK
<1>9. Heard(W, p, {})
  <2>1. ASSUME NEW y \in Kin(V, p), ~Continued(V[y])
        PROVE  W[p].history.heard[LinkIn(V, y)] =
                 IF V[y].status = "RUNNING" THEN << >> ELSE <<OutcomeOf(V[y].status)>>
    <3>1. heard[LinkIn(V, y)] =
            IF V[y].status = "RUNNING" \/ y \in {x} THEN << >> ELSE <<OutcomeOf(V[y].status)>>
      BY <2>1 DEF Heard
    <3>2. CASE y = x
      <4>1. heard[link] = << >>
        BY <3>1, <3>2
      <4>2. W[p].history.heard[link] = Append(<< >>, OutcomeOf(V[x].status))
        BY <1>1, <1>2, <4>1
      <4>3. Append(<< >>, OutcomeOf(V[x].status)) = <<OutcomeOf(V[x].status)>>
        OBVIOUS
      <4>4. QED
        BY <4>2, <4>3, <3>2
    <3>3. CASE y # x
      <4>1. LinkIn(V, y) # link
        <5>1. KinOK(V, p)
          OBVIOUS
        <5>2. QED
          BY <5>1, <2>1, <3>3, OneEnding
      <4>2. W[p].history.heard[LinkIn(V, y)] = heard[LinkIn(V, y)]
        BY <1>1, <1>2, <1>6, <4>1
      <4>3. QED
        BY <3>1, <3>3, <4>2
    <3>4. QED
      BY <3>2, <3>3
  <2>2. \A y \in Kin(W, p) : /\ y \in Kin(V, p)
                             /\ Continued(W[y]) <=> Continued(V[y])
                             /\ W[y].status = V[y].status
                             /\ LinkIn(W, y) = LinkIn(V, y)
    BY <1>5 DEF Continued
  <2>3. ASSUME NEW y \in Kin(W, p), ~Continued(W[y])
        PROVE  W[p].history.heard[LinkIn(W, y)] =
                 IF W[y].status = "RUNNING" THEN << >> ELSE <<OutcomeOf(W[y].status)>>
    <3>1. y \in Kin(V, p) /\ ~Continued(V[y])
      BY <2>2, <2>3
    <3>2. W[p].history.heard[LinkIn(V, y)] =
            IF V[y].status = "RUNNING" THEN << >> ELSE <<OutcomeOf(V[y].status)>>
      BY <2>1, <3>1
    <3>3. W[y].status = V[y].status /\ LinkIn(W, y) = LinkIn(V, y)
      BY <2>2, <2>3
    <3>4. QED
      BY <3>2, <3>3
  <2>4. QED
    BY <2>3 DEF Heard
<1>10. QED
  BY <1>4, <1>7, <1>8, <1>9

(* Nobody is to be told of a run whose parent has closed, or that has none. *)
LEMMA NothingToTell ==
  ASSUME NEW V, V \in [Run -> RunRow], LinkedOK(V), \A q \in Run : KinOK(V, q),
         NEW x \in Run, Exists(V, x),
         \/ V[x].parent = None
         \/ LinkIn(V, x) = None
         \/ V[V[x].parent].status # "RUNNING",
         NEW q \in Run, Heard(V, q, {x})
  PROVE  Heard(V, q, {})
<1>1. CASE x \in Kin(V, q)
  <2>1. V[x].parent = q /\ q # None
    BY <1>1 DEF Kin, Run, None
  <2>2. LinkIn(V, x) # None
    <3>1. LinkIn(V, x) \in Run
      BY <1>1, LinkType
    <3>2. QED
      BY <3>1 DEF Run, None
  <2>3. V[q].status # "RUNNING"
    BY <2>1, <2>2
  <2>4. QED
    BY <2>3 DEF Heard
<1>2. CASE x \notin Kin(V, q)
  BY <1>2 DEF Heard
<1>3. QED
  BY <1>1, <1>2

(* A decision added children to r, which goes on or has ended.              *)
AddsChildren(V, W, r, new) ==
  LET old == V[r].history.started
      now == W[r].history.started
  IN
  /\ V \in [Run -> RunRow] /\ RowsOK(V) /\ LinkedOK(V)
  /\ r \in Run /\ V[r].status = "RUNNING"
  /\ new \subseteq Run /\ r \notin new
  /\ \A y \in Run : y \notin new \cup {r} => W[y] = V[y]
  /\ SameRun(V[r], W[r])
  /\ W[r].status # "ABSENT" /\ ~Continued(W[r])
  /\ W[r].history.heard = V[r].history.heard
  /\ \A x \in new : /\ ~Exists(V, x)
                    /\ W[x].status = "RUNNING"
                    /\ W[x].history = NoHistory
                    /\ W[x].parent = r
                    /\ W[x].first = x
  /\ old <= now
  /\ \A x \in new : W[x].child \in (old + 1)..now
  /\ \A x, y \in new : W[x].child = W[y].child => x = y
  /\ now = old \/ \E x \in new : W[x].child = now
  /\ \A x \in new, z \in Run : Exists(V, z) => z + (W[x].child - old) <= x

(* What was there, and what is new. *)
JoinKin(V, W, r, new) ==
  /\ LinkedOK(W)
  /\ \A q \in Run : q # r => SameKin(V, W, q)
  /\ Kin(W, r) = Kin(V, r) \cup new
  /\ \A y \in Kin(V, r) : /\ y \notin new /\ y # r /\ W[y] = V[y]
                          /\ LinkIn(W, y) = LinkIn(V, y)
                          /\ V[y].first \notin new
  /\ \A x \in new : LinkIn(W, x) = W[x].child /\ W[x].child # None

LEMMA ChildrenKin ==
  ASSUME NEW V, NEW W, NEW r, NEW new, AddsChildren(V, W, r, new)
  PROVE  JoinKin(V, W, r, new)
<1>0. /\ V \in [Run -> RunRow] /\ RowsOK(V) /\ LinkedOK(V)
      /\ r \in Run /\ V[r].status = "RUNNING"
      /\ new \subseteq Run /\ r \notin new
  BY DEF AddsChildren
<1>1. \A x : Exists(V, x) => x \notin new
  BY DEF AddsChildren
<1>2. /\ \A x : Exists(V, x) => /\ Exists(W, x)
                                /\ W[x].parent = V[x].parent /\ W[x].first = V[x].first
                                /\ W[x].child = V[x].child
      /\ \A x \in new : Exists(W, x) /\ W[x].parent = r /\ W[x].first = x
      /\ \A x : Exists(W, x) => Exists(V, x) \/ x \in new
      /\ r # None
  BY <1>0, <1>1 DEF AddsChildren, Exists, SameRun, Run, None
<1>3. LinkedOK(W)
  BY <1>0, <1>2 DEF LinkedOK
<1>4. \A q \in Run : q # r => Kin(W, q) = Kin(V, q)
  BY <1>2 DEF Kin, Exists
<1>5. Kin(W, r) = Kin(V, r) \cup new
  BY <1>2 DEF Kin, Exists
<1>6. \A y : Exists(V, y) => /\ V[y].first \notin new
                             /\ LinkIn(W, y) = LinkIn(V, y)
  BY <1>0, <1>1, <1>2 DEF LinkedOK, LinkIn, Exists
<1>7. ASSUME NEW q \in Run, q # r
      PROVE  SameKin(V, W, q)
  <2>1. SameTold(V[q], W[q])
    <3>1. CASE q \in new
      <4>1. V[q] = Absent /\ W[q].history = NoHistory
        BY <3>1, <1>0, <1>1 DEF RowsOK, AddsChildren
      <4>2. Absent.history = NoHistory
        BY DEF Absent
      <4>3. QED
        BY <4>1, <4>2 DEF SameTold
    <3>2. CASE q \notin new
      BY <3>2, <1>7 DEF AddsChildren, SameTold
    <3>3. QED
      BY <3>1, <3>2
  <2>2. \A y \in Kin(V, q) : Exists(V, y)
    BY DEF Kin
  <2>3. QED
    BY <2>1, <2>2, <1>2, <1>4, <1>6, <1>7 DEF SameKin
<1>8. ASSUME NEW y \in Kin(V, r)
      PROVE  y \notin new /\ y # r /\ W[y] = V[y] /\ LinkIn(W, y) = LinkIn(V, y)
             /\ V[y].first \notin new
  <2>1. Exists(V, y) /\ V[y].parent = r /\ y \in Run
    BY DEF Kin
  <2>2. y # r
    <3>1. V[y].parent < y
      BY <2>1, <1>0 DEF RowsOK, LinksOK
    <3>2. QED
      BY <2>1, <3>1, <1>0 DEF Run
  <2>3. QED
    BY <2>1, <2>2, <1>1, <1>6 DEF AddsChildren
<1>9. ASSUME NEW x \in new
      PROVE  LinkIn(W, x) = W[x].child /\ W[x].child # None
  <2>1. LinkIn(W, x) = W[x].child
    BY <1>2 DEF LinkIn
  <2>2. W[x].child \in (V[r].history.started + 1)..W[r].history.started
    BY DEF AddsChildren
  <2>3. V[r].history.started \in Nat
    BY <1>0 DEF RunRow, HistoryRow
  <2>4. QED
    BY <2>1, <2>2, <2>3 DEF None
<1>10. QED
  BY <1>3, <1>5, <1>7, <1>8, <1>9 DEF JoinKin

LEMMA ChildrenNumbered ==
  ASSUME NEW V, NEW W, NEW r, NEW new, AddsChildren(V, W, r, new),
         W \in [Run -> RunRow], KinOK(V, r)
  PROVE  KinOK(W, r)
<1> DEFINE old == V[r].history.started
           now == W[r].history.started
<1>0. /\ V \in [Run -> RunRow] /\ RowsOK(V) /\ LinkedOK(V)
      /\ r \in Run /\ V[r].status = "RUNNING"
      /\ new \subseteq Run
  BY DEF AddsChildren
<1>1. /\ LinkedOK(W)
      /\ Kin(W, r) = Kin(V, r) \cup new
      /\ \A y \in Kin(V, r) : y \notin new /\ W[y] = V[y] /\ V[y].first \notin new
  BY ChildrenKin DEF JoinKin
<1>2. /\ old \in Nat /\ now \in Nat /\ old <= now
      /\ \A x \in new : /\ W[x].first = x
                        /\ W[x].child \in (old + 1)..now
      /\ \A x, y \in new : W[x].child = W[y].child => x = y
      /\ now = old \/ \E x \in new : W[x].child = now
      /\ \A x \in new, z \in Run : Exists(V, z) => z + (W[x].child - old) <= x
      /\ W[r].history.heard = V[r].history.heard
  BY <1>0 DEF AddsChildren, RunRow, HistoryRow
<1>3. Exists(V, r)
  BY <1>0 DEF Exists
<1> HIDE DEF old, now
<1>4. ASSUME NEW x \in Kin(W, r), W[x].first = x
      PROVE  W[x].child \in 1..now /\ W[x].child <= x
  <2>1. CASE x \in Kin(V, r)
    <3>1. V[x].child \in 1..old /\ V[x].child <= x
      BY <2>1, <1>1, <1>4 DEF KinOK, old
    <3>2. QED
      BY <3>1, <2>1, <1>1, <1>2
  <2>2. CASE x \in new
    <3>1. W[x].child \in (old + 1)..now
      BY <2>2, <1>2
    <3>2. PICK z \in Run : Exists(V, z) /\ old <= z
      <4>1. CASE old = 0
        BY <4>1, <1>0, <1>3 DEF Run
      <4>2. CASE old # 0
        <5>1. PICK z \in Kin(V, r) : V[z].child = old
          BY <4>2 DEF KinOK, old
        <5>2. z \in Run /\ Exists(V, z) /\ V[z].child # None
          BY <5>1, <4>2 DEF Kin, None
        <5>3. V[z].first = z
          BY <5>2, <1>0 DEF LinkedOK
        <5>4. V[z].child <= z
          BY <5>1, <5>3 DEF KinOK
        <5>5. QED
          BY <5>1, <5>2, <5>4
      <4>3. QED
        BY <4>1, <4>2
    <3>3. z + (W[x].child - old) <= x
      BY <2>2, <3>2, <1>2
    <3>4. z \in Nat /\ x \in Nat
      BY <2>2, <1>0 DEF Run
    <3>5. \A a, b, c, d \in Nat : b <= a /\ c >= b + 1 /\ a + (c - b) <= d => c <= d
      OBVIOUS
    <3>6. W[x].child \in Nat /\ W[x].child >= old + 1 /\ W[x].child <= now
      BY <3>1, <1>2
    <3>7. W[x].child <= x
      BY <3>2, <3>3, <3>4, <3>5, <3>6, <1>2
    <3>8. QED
      BY <3>6, <3>7, <1>2
  <2>3. QED
    BY <2>1, <2>2, <1>1
<1>5. ASSUME NEW x \in Kin(W, r), NEW y \in Kin(W, r), W[x].first = x, W[y].first = y,
             W[x].child = W[y].child
      PROVE  x = y
  <2>1. ASSUME NEW a \in Kin(V, r), NEW b \in new, W[a].first = a
        PROVE  W[a].child # W[b].child
    <3>1. V[a].child \in 1..old
      BY <2>1, <1>1 DEF KinOK, old
    <3>2. W[b].child \in (old + 1)..now
      BY <1>2
    <3>3. QED
      BY <3>1, <3>2, <1>1, <1>2
  <2>2. CASE x \in Kin(V, r) /\ y \in Kin(V, r)
    BY <2>2, <1>1, <1>5 DEF KinOK
  <2>3. CASE x \in new /\ y \in new
    BY <2>3, <1>2, <1>5
  <2>4. QED
    BY <2>1, <2>2, <2>3, <1>1, <1>5
<1>6. ASSUME NEW x \in Kin(W, r), NEW y \in Kin(W, r), W[x].first = W[y].first, ~Continued(W[y])
      PROVE  x <= y
  <2>1. CASE x \in Kin(V, r) /\ y \in Kin(V, r)
    BY <2>1, <1>1, <1>6 DEF KinOK
  <2>2. CASE x \in new /\ y \in new
    BY <2>2, <1>0, <1>2, <1>6 DEF Run
  <2>3. CASE x \in new /\ y \in Kin(V, r)
    <3>1. W[x].first = x /\ W[y].first \notin new
      BY <2>3, <1>1, <1>2
    <3>2. QED
      BY <3>1, <2>3, <1>6
  <2>4. CASE x \in Kin(V, r) /\ y \in new
    <3>1. W[y].first = y /\ W[x].first \notin new
      BY <2>4, <1>1, <1>2
    <3>2. QED
      BY <3>1, <2>4, <1>6
  <2>5. QED
    BY <2>1, <2>2, <2>3, <2>4, <1>1
<1>7. now = 0 \/ \E x \in Kin(W, r) : W[x].child = now
  <2>1. CASE now = old
    BY <2>1, <1>1 DEF KinOK, old
  <2>2. CASE \E x \in new : W[x].child = now
    BY <2>2, <1>1
  <2>3. QED
    BY <2>1, <2>2, <1>2
<1>8. ASSUME NEW c \in Run, c > now
      PROVE  W[r].history.heard[c] = << >>
  <2>1. c > old
    BY <1>2, <1>8 DEF Run
  <2>2. QED
    BY <2>1, <1>2 DEF KinOK, old
<1>9. QED
  BY <1>4, <1>5, <1>6, <1>7, <1>8 DEF KinOK, now

(* The parent of r is still to be told if r ended; of the new children      *)
(* nothing was heard.                                                       *)
LEMMA ChildrenTell ==
  ASSUME NEW V, NEW W, NEW r, NEW new, AddsChildren(V, W, r, new),
         W \in [Run -> RunRow], \A q \in Run : KinOK(V, q) /\ Heard(V, q, {}),
         NEW c, c = IF W[r].status = "RUNNING" THEN {} ELSE {r}
  PROVE  LinkedOK(W) /\ \A q \in Run : KinOK(W, q) /\ Heard(W, q, c)
<1>1. /\ V \in [Run -> RunRow] /\ r \in Run /\ V[r].status = "RUNNING"
      /\ RowsOK(V)
      /\ new \subseteq Run /\ r \notin new
      /\ ~Continued(W[r])
      /\ W[r].history.heard = V[r].history.heard
      /\ \A y \in Run : y \notin new \cup {r} => W[y] = V[y]
      /\ \A x \in new : ~Exists(V, x)
  BY DEF AddsChildren
<1>2. /\ LinkedOK(W)
      /\ \A q \in Run : q # r => SameKin(V, W, q)
      /\ Kin(W, r) = Kin(V, r) \cup new
      /\ \A y \in Kin(V, r) : y # r /\ W[y] = V[y] /\ LinkIn(W, y) = LinkIn(V, y)
      /\ \A x \in new : LinkIn(W, x) = W[x].child
  BY ChildrenKin DEF JoinKin
<1>3. KinOK(W, r)
  BY <1>1, ChildrenNumbered
<1>4. ASSUME NEW q \in Run, q # r
      PROVE  KinOK(W, q) /\ Heard(W, q, c)
  <2>1. \A y \in Kin(V, q) :
          \/ y # r /\ W[y] = V[y]
          \/ y = r
    <3>1. \A y \in Kin(V, q) : y \in Run /\ Exists(V, y)
      BY DEF Kin
    <3>2. QED
      BY <3>1, <1>1
  <2>2. ~Continued(V[r])
    BY <1>1 DEF Continued
  <2>3. KinOK(W, q)
    BY <2>1, <2>2, <1>1, <1>2, <1>4, KinKept
  <2>4. CASE q \in new
    <3>1. Kin(W, q) = {}
      <4>1. Kin(W, q) = Kin(V, q)
        BY <1>2, <1>4 DEF SameKin
      <4>2. ASSUME NEW y \in Kin(V, q)
            PROVE  FALSE
        <5>1. y \in Run /\ Exists(V, y) /\ V[y].parent = q /\ q # None
          BY DEF Kin, Run, None
        <5>2. Exists(V, q)
          BY <5>1, <1>1 DEF RowsOK, LinksOK
        <5>3. QED
          BY <5>2, <2>4, <1>1
      <4>3. QED
        BY <4>1, <4>2
    <3>2. QED
      BY <3>1, <2>3 DEF Heard
  <2>5. CASE q \notin new
    <3>1. W[q] = V[q]
      BY <2>5, <1>1, <1>4
    <3>2. \A y \in Kin(V, q) : ~Continued(W[y]) =>
            /\ ~Continued(V[y])
            /\ \/ W[y].status = V[y].status /\ (y \in {} <=> y \in c)
               \/ V[y].status = "RUNNING" /\ y \in c
      <4>1. ASSUME NEW y \in Kin(V, q), y # r, W[y] = V[y]
            PROVE  W[y].status = V[y].status /\ y \notin c
        BY <4>1
      <4>2. W[r].status = "RUNNING" \/ r \in c
        OBVIOUS
      <4>3. W[r].status = "RUNNING" => r \notin c
        OBVIOUS
      <4>4. QED
        BY <4>1, <4>2, <4>3, <2>1, <2>2, <1>1
    <3>3. SameKin(V, W, q) /\ Heard(V, q, {})
      BY <1>2, <1>4
    <3>4. QED
      BY <3>1, <3>2, <3>3, <2>3, HeardKept
  <2>6. QED
    BY <2>3, <2>4, <2>5
<1>5. Heard(W, r, c)
  <2>1. SUFFICES ASSUME W[r].status = "RUNNING", NEW y \in Kin(W, r), ~Continued(W[y])
                 PROVE  W[r].history.heard[LinkIn(W, y)] =
                          IF W[y].status = "RUNNING" THEN << >> ELSE <<OutcomeOf(W[y].status)>>
    BY DEF Heard
  <2>2. CASE y \in Kin(V, r)
    <3>1. W[y] = V[y] /\ LinkIn(W, y) = LinkIn(V, y)
      BY <2>2, <1>2
    <3>2. QED
      BY <3>1, <2>1, <2>2, <1>1 DEF Heard
  <2>3. CASE y \in new
    <3>1. /\ W[y].child \in (V[r].history.started + 1)..W[r].history.started
          /\ W[y].status = "RUNNING" /\ W[y].first = y
      BY <2>3 DEF AddsChildren
    <3>2. /\ V[r].history.started \in Nat
          /\ W[r].history.started \in Nat
      BY <1>1 DEF RunRow, HistoryRow
    <3>3. W[y].child > V[r].history.started /\ W[y].child \in Run
      <4>1. W[y].child <= y /\ W[y].child \in 1..W[r].history.started
        BY <2>1, <3>1, <1>3 DEF KinOK
      <4>2. y \in Run
        BY <2>3, <1>1
      <4>3. QED
        BY <3>1, <3>2, <4>1, <4>2, SizeIsNat DEF Run
    <3>4. V[r].history.heard[W[y].child] = << >>
      BY <3>3, <1>1 DEF KinOK
    <3>5. LinkIn(W, y) = W[y].child
      BY <2>3, <1>2
    <3>6. QED
      BY <3>1, <3>4, <3>5, <1>1
  <2>4. QED
    BY <2>1, <2>2, <2>3, <1>2
<1>6. QED
  BY <1>2, <1>3, <1>4, <1>5

(* The next run of a chain has the parent of r, and tells in its place.     *)
LEMMA NextTells ==
  ASSUME NEW V, NEW W, V \in [Run -> RunRow], RowsOK(V), LinkedOK(V),
         NEW r \in Run, V[r].status = "RUNNING", NEW n \in Run, ~Exists(V, n),
         \A y \in Run : y # r /\ y # n => W[y] = V[y],
         SameRun(V[r], W[r]), Continued(W[r]), SameTold(V[r], W[r]),
         IsNext(V[r], W[n]), W[n].status = "RUNNING", W[n].history = NoHistory,
         \A z \in Run : Exists(V, z) => z < n,
         \A q \in Run : KinOK(V, q) /\ Heard(V, q, {})
  PROVE  LinkedOK(W) /\ \A q \in Run : KinOK(W, q) /\ Heard(W, q, {})
<1> DEFINE P == V[r].parent
<1>1. /\ Exists(V, r) /\ r # n
      /\ \A x : Exists(V, x) => /\ x # n
                                /\ Exists(W, x)
                                /\ W[x].parent = V[x].parent /\ W[x].first = V[x].first
                                /\ W[x].child = V[x].child
      /\ \A x : Exists(W, x) => Exists(V, x) \/ x = n
      /\ Exists(W, n) /\ W[n].parent = P /\ W[n].first = V[r].first /\ W[n].child = None
      /\ W[r].status = "CONTINUED_AS_NEW"
  BY DEF Exists, SameRun, IsNext, Continued
<1>2. LinkedOK(W)
  <2>1. Exists(V, V[r].first) /\ V[V[r].first].first = V[r].first /\ V[V[r].first].parent = P
    BY <1>1 DEF LinkedOK
  <2>2. \A x : Exists(V, x) => /\ Exists(V, V[x].first)
                               /\ V[V[x].first].first = V[x].first
                               /\ V[V[x].first].parent = V[x].parent
                               /\ V[x].child # None => V[x].first = x /\ V[x].parent # None
    BY DEF LinkedOK, Exists
  <2>3. QED
    BY <2>1, <2>2, <1>1 DEF LinkedOK
<1>3. \A q \in Run : q # P => Kin(W, q) = Kin(V, q)
  BY <1>1 DEF Kin, Exists
<1>4. P \in Run => Kin(W, P) = Kin(V, P) \cup {n}
  BY <1>1 DEF Kin, Exists
<1>5. \A y : Exists(V, y) => LinkIn(W, y) = LinkIn(V, y)
  BY <1>1 DEF LinkedOK, LinkIn, Exists
<1>6. \A q \in Run : SameTold(V[q], W[q])
  <2>1. SameTold(V[n], W[n])
    <3>1. V[n] = Absent /\ Absent.history = NoHistory
      BY DEF RowsOK, Absent
    <3>2. QED
      BY <3>1 DEF SameTold
  <2>2. QED
    BY <2>1 DEF SameTold
<1>7. ASSUME NEW q \in Run, NEW y \in Kin(V, q)
      PROVE  y \in Run /\ Exists(V, y) /\ V[y].parent = q
  BY DEF Kin
<1>8. ASSUME NEW q \in Run, q # P
      PROVE  KinOK(W, q) /\ Heard(W, q, {})
  <2>1. SameKin(V, W, q)
    BY <1>1, <1>3, <1>5, <1>6, <1>7, <1>8 DEF SameKin
  <2>2. \A y \in Kin(V, q) : W[y] = V[y]
    <3>1. \A y \in Kin(V, q) : y \in Run /\ y # n /\ y # r
      BY <1>1, <1>7, <1>8
    <3>2. QED
      BY <3>1
  <2>3. KinOK(W, q)
    BY <2>1, <2>2, KinKept
  <2>4. Heard(W, q, {})
    <3>1. CASE q = r
      BY <3>1, <1>1 DEF Heard
    <3>2. CASE q = n
      <4>1. Kin(V, q) = {}
        <5>1. ASSUME NEW y \in Kin(V, q)
              PROVE  FALSE
          <6>1. Exists(V, y) /\ y \in Run /\ V[y].parent = q /\ q # None
            BY <1>7 DEF Run, None
          <6>2. Exists(V, q)
            BY <6>1 DEF RowsOK, LinksOK
          <6>3. QED
            BY <6>2, <3>2
        <5>2. QED
          BY <5>1
      <4>2. Kin(W, q) = {}
        BY <4>1, <1>3, <1>8
      <4>3. QED
        BY <4>2 DEF Heard
    <3>3. CASE q # r /\ q # n
      <4>1. W[q] = V[q]
        BY <3>3
      <4>2. QED
        BY <4>1, <2>1, <2>2, HeardKept
    <3>4. QED
      BY <3>1, <3>2, <3>3
  <2>5. QED
    BY <2>3, <2>4
<1>9. ASSUME P \in Run
      PROVE  KinOK(W, P) /\ Heard(W, P, {})
  <2>1. /\ r \in Kin(V, P) /\ ~Continued(V[r])
        /\ KinOK(V, P) /\ Heard(V, P, {})
    BY <1>1, <1>9 DEF Kin, Continued
  <2>2. P # r /\ P # n /\ W[P] = V[P]
    <3>1. P < r
      BY <1>1 DEF RowsOK, LinksOK
    <3>2. Exists(V, P)
      BY <1>1, <1>9 DEF RowsOK, LinksOK, Run, None
    <3>3. QED
      BY <3>1, <3>2, <1>9 DEF Run
  <2>3. \A y \in Kin(V, P) : /\ W[y].first = V[y].first /\ W[y].child = V[y].child
                             /\ LinkIn(W, y) = LinkIn(V, y)
                             /\ y # n /\ y \in Run /\ y < n /\ V[y].first # n
    BY <1>1, <1>5, <1>7, <1>9 DEF LinkedOK
  <2>4. \A y \in Kin(V, P) : y # r => W[y] = V[y]
    BY <2>3
  <2>5. W[n].first # n
    BY <2>1, <2>3, <1>1
  <2>6. Kin(W, P) = Kin(V, P) \cup {n}
    BY <1>4, <1>9
  <2>7. ASSUME NEW x \in Kin(W, P), NEW y \in Kin(W, P), W[x].first = W[y].first, ~Continued(W[y])
        PROVE  x <= y
    <3>1. y # r
      BY <2>7
    <3>2. CASE y = n
      <4>1. x \in Run /\ (x = n \/ x < n)
        BY <2>3, <2>6
      <4>2. x \in Int /\ n \in Int
        BY <4>1 DEF Run
      <4>3. QED
        BY <4>1, <4>2, <3>2
    <3>3. CASE y \in Kin(V, P) /\ x \in Kin(V, P)
      <4>1. V[x].first = V[y].first /\ ~Continued(V[y])
        BY <2>3, <2>4, <2>7, <3>1, <3>3
      <4>2. QED
        BY <4>1, <3>3, <2>1 DEF KinOK
    <3>4. CASE y \in Kin(V, P) /\ x = n
      <4>1. V[y].first = V[r].first /\ ~Continued(V[y])
        BY <2>3, <2>4, <2>7, <3>1, <3>4, <1>1
      <4>2. y <= r /\ r <= y
        BY <4>1, <3>4, <2>1 DEF KinOK
      <4>3. y \in Int /\ r \in Int
        <5>1. y \in Run /\ r \in Run
          BY <3>4, <2>3
        <5>2. QED
          BY <5>1 DEF Run
      <4>4. y = r
        BY <4>2, <4>3
      <4>5. QED
        BY <4>4, <3>1
    <3>5. QED
      BY <3>2, <3>3, <3>4, <2>6
  <2>8. KinOK(W, P)
    <3> DEFINE started == V[P].history.started
    <3>1. /\ \A x \in Kin(W, P) : W[x].first = x => x \in Kin(V, P) /\ V[x].first = x
                                                  /\ W[x].child = V[x].child
          /\ \A x \in Kin(V, P) : x \in Kin(W, P) /\ W[x].child = V[x].child
      BY <2>3, <2>5, <2>6
    <3>2. /\ \A x \in Kin(W, P) : W[x].first = x => W[x].child \in 1..started /\ W[x].child <= x
          /\ \A x, y \in Kin(W, P) :
               W[x].first = x /\ W[y].first = y /\ W[x].child = W[y].child => x = y
          /\ started = 0 \/ \E x \in Kin(W, P) : W[x].child = started
          /\ \A c \in Run : c > started => V[P].history.heard[c] = << >>
      BY <3>1, <2>1 DEF KinOK
    <3>3. QED
      BY <3>2, <2>2, <2>7 DEF KinOK
  <2>9. Heard(W, P, {})
    <3>1. SUFFICES ASSUME V[P].status = "RUNNING", NEW y \in Kin(W, P), ~Continued(W[y])
                   PROVE  V[P].history.heard[LinkIn(W, y)] =
                            IF W[y].status = "RUNNING" THEN << >> ELSE <<OutcomeOf(W[y].status)>>
      BY <2>2 DEF Heard
    <3>2. CASE y = n
      <4>1. LinkIn(W, n) = LinkIn(V, r)
        <5>1. LinkIn(W, n) = LinkIn(W, r)
          BY <1>1 DEF LinkIn
        <5>2. QED
          BY <5>1, <1>1, <1>5
      <4>2. V[P].history.heard[LinkIn(V, r)] = << >>
        BY <3>1, <2>1 DEF Heard
      <4>3. QED
        BY <4>1, <4>2, <3>2
    <3>3. CASE y \in Kin(V, P)
      <4>1. y # r /\ W[y] = V[y] /\ LinkIn(W, y) = LinkIn(V, y)
        BY <3>1, <3>3, <2>3, <2>4
      <4>2. QED
        BY <4>1, <3>1, <3>3, <2>1 DEF Heard
    <3>4. QED
      BY <3>2, <3>3, <2>6
  <2>10. QED
    BY <2>8, <2>9
<1>10. QED
  BY <1>2, <1>8, <1>9

-----------------------------------------------------------------------------
(* What a transaction has still to tell *)

(* The runs it closed whose parent is still to hear of it.                  *)
Notifying(X) == {y \in Run : Pending(X, "notify", y)}

(* It tells at once of what it closed, and the run it tells of ended its    *)
(* chain.                                                                   *)
NotifiesEnd(V, X) ==
  \A i \in DOMAIN X.todo : X.todo[i].op = "notify" =>
    /\ i = 1
    /\ V[X.todo[i].run].status # "RUNNING"
    /\ ~Continued(V[X.todo[i].run])

(* Who closes a run holds its parent.                                       *)
StatusHeld(rs, X) ==
  \A x \in DOMAIN X.wrote : Exists(rs, x) /\ X.wrote[x].status # rs[x].status =>
    rs[x].parent \in X.held \cup {None}

(* In rows V every open parent has heard of its children, but for those of  *)
(* "ending".                                                                *)
AllTold(V, ending) ==
  /\ LinkedOK(V)
  /\ \A p \in Run : KinOK(V, p) /\ Heard(V, p, ending)

TellTx(rs, X) ==
  /\ AllTold(Over(rs, X), Notifying(X))
  /\ NotifiesEnd(Over(rs, X), X)
  /\ StatusHeld(rs, X)

TellInv ==
  /\ LocksInv
  /\ TellTx(runs, NoTx)
  /\ \A t \in Tx : TellTx(runs, tx[t])

LEMMA OverRows ==
  ASSUME NEW rs \in [Run -> RunRow], NEW Y, Y.wrote \in Written
  PROVE  /\ Over(rs, Y) \in [Run -> RunRow]
         /\ \A x \in Run : Over(rs, Y)[x] = RowIn(rs, Y, x)
         /\ Y.wrote = << >> => Over(rs, Y) = rs
<1>1. Y.wrote \in [DOMAIN Y.wrote -> RunRow]
  BY WrittenType
<1>2. \A x \in Run : RowIn(rs, Y, x) \in RunRow
  BY <1>1 DEF RowIn
<1>3. Y.wrote = << >> => \A x \in Run : RowIn(rs, Y, x) = rs[x]
  BY WrittenType DEF RowIn
<1>4. QED
  BY <1>2, <1>3 DEF Over

LEMMA OverSame ==
  ASSUME NEW rs, NEW X, NEW Y, Y.wrote = X.wrote
  PROVE  Over(rs, Y) = Over(rs, X)
BY DEF Over, RowIn

(* Statements that tell nobody. *)
TellsNobody(todo) == \A i \in DOMAIN todo : todo[i].op # "notify"

LEMMA NobodyNotified ==
  ASSUME NEW Y, TellsNobody(Y.todo)
  PROVE  Notifying(Y) = {} /\ \A V : NotifiesEnd(V, Y)
BY DEF TellsNobody, Notifying, Pending, NotifiesEnd

LEMMA RestTellsNobody ==
  ASSUME LocksInv, NEW t \in Tx, tx[t].todo # << >>, NEW V, NotifiesEnd(V, tx[t])
  PROVE  TellsNobody(Tail(tx[t].todo))
<1>1. ASSUME NEW i \in DOMAIN Tail(tx[t].todo)
      PROVE  Tail(tx[t].todo)[i].op # "notify"
  <2>1. i \in Nat /\ i + 1 \in DOMAIN tx[t].todo /\ Tail(tx[t].todo)[i] = tx[t].todo[i + 1]
    BY HasTodo
  <2>2. i + 1 # 1
    <3>1. i # 0
      <4>1. tx[t].todo \in Seq(OpRow)
        BY OfTx
      <4>2. /\ Len(tx[t].todo) \in Nat
            /\ DOMAIN Tail(tx[t].todo) = 1..(Len(tx[t].todo) - 1)
        BY <4>1, TodoRest
      <4>3. QED
        BY <4>2
    <3>2. QED
      BY <2>1, <3>1
  <2>3. QED
    BY <2>1, <2>2 DEF NotifiesEnd
<1>2. QED
  BY <1>1 DEF TellsNobody

LEMMA BothTellNobody ==
  ASSUME NEW a \in Seq(OpRow), NEW b \in Seq(OpRow), TellsNobody(a), TellsNobody(b)
  PROVE  TellsNobody(a \o b)
<1>1. /\ DOMAIN a = 1..Len(a) /\ DOMAIN b = 1..Len(b)
      /\ DOMAIN (a \o b) = 1..(Len(a) + Len(b))
      /\ \A i \in 1..Len(a) : (a \o b)[i] = a[i]
      /\ \A i \in 1..Len(b) : (a \o b)[Len(a) + i] = b[i]
      /\ \A i \in 1..(Len(a) + Len(b)) :
           i \in 1..Len(a) \/ (i - Len(a) \in 1..Len(b) /\ i = Len(a) + (i - Len(a)))
  BY TodoBefore
<1>2. ASSUME NEW i \in DOMAIN (a \o b)
      PROVE  (a \o b)[i].op # "notify"
  <2>1. CASE i \in 1..Len(a)
    BY <2>1, <1>1 DEF TellsNobody
  <2>2. CASE i \notin 1..Len(a)
    <3> DEFINE k == i - Len(a)
    <3>1. k \in 1..Len(b) /\ i = Len(a) + k
      BY <2>2, <1>1
    <3> HIDE DEF k
    <3>2. (a \o b)[i] = b[k] /\ k \in DOMAIN b
      BY <3>1, <1>1
    <3>3. QED
      BY <3>2 DEF TellsNobody
  <2>3. QED
    BY <2>1, <2>2
<1>3. QED
  BY <1>2 DEF TellsNobody

(* What follows the end of a run tells its parent first.                    *)
LEMMA ClosingTells ==
  ASSUME NEW r \in Run, NEW b \in Seq(OpRow), TellsNobody(b),
         NEW Y, Y.todo = AfterClose(r, "run_terminated") \o b
  PROVE  /\ Notifying(Y) = {r}
         /\ \A V : V[r].status # "RUNNING" /\ ~Continued(V[r]) => NotifiesEnd(V, Y)
<1> DEFINE a == AfterClose(r, "run_terminated")
<1>1. a \in Seq(OpRow) /\ a = <<Op("notify", r), Op("children", r)>>
  BY AfterCloseType
<1>2. /\ DOMAIN a = 1..2 /\ Len(a) = 2
      /\ a[1].op = "notify" /\ a[1].run = r /\ a[2].op # "notify"
  BY <1>1 DEF Op
<1> HIDE DEF a
<1>3. Y.todo = a \o b
  BY DEF a
<1>4. /\ DOMAIN b = 1..Len(b) /\ Len(b) \in Nat
      /\ DOMAIN Y.todo = 1..(2 + Len(b))
      /\ \A i \in 1..2 : Y.todo[i] = a[i]
      /\ \A i \in 1..Len(b) : Y.todo[2 + i] = b[i]
  BY <1>1, <1>2, <1>3, TodoBefore
<1>5. 1 \in DOMAIN Y.todo /\ Y.todo[1].op = "notify" /\ Y.todo[1].run = r
  BY <1>2, <1>4
<1>6. ASSUME NEW i \in DOMAIN Y.todo, i # 1
      PROVE  Y.todo[i].op # "notify"
  <2>1. CASE i = 2
    BY <2>1, <1>2, <1>4
  <2>2. CASE i # 2
    <3> DEFINE k == i - 2
    <3>1. k \in 1..Len(b) /\ i = 2 + k
      BY <2>2, <1>4, <1>6
    <3> HIDE DEF k
    <3>2. Y.todo[i] = b[k] /\ k \in DOMAIN b
      BY <3>1, <1>4
    <3>3. QED
      BY <3>2 DEF TellsNobody
  <2>3. QED
    BY <2>1, <2>2
<1>7. \A i \in DOMAIN Y.todo : Y.todo[i].op = "notify" => i = 1
  BY <1>6
<1>8. Notifying(Y) = {r}
  BY <1>5, <1>7 DEF Notifying, Pending
<1>9. ASSUME NEW V, V[r].status # "RUNNING", ~Continued(V[r])
      PROVE  NotifiesEnd(V, Y)
  BY <1>5, <1>7, <1>9 DEF NotifiesEnd
<1>10. QED
  BY <1>8, <1>9

(* At a statement other than one that tells a parent, nobody is to be told. *)
LEMMA NobodyYet ==
  ASSUME LocksInv, NEW t \in Tx, NEW V, NotifiesEnd(V, tx[t]), NEW name, NextIs(t, name)
  PROVE  /\ TellsNobody(Tail(tx[t].todo)) /\ Tail(tx[t].todo) \in Seq(OpRow)
         /\ name # "notify" => Notifying(tx[t]) = {}
         /\ name = "notify" => /\ Notifying(tx[t]) = {At(t)}
                               /\ V[At(t)].status # "RUNNING" /\ ~Continued(V[At(t)])
<1>1. tx[t].todo # << >> /\ Head(tx[t].todo).op = name
  BY DEF NextIs
<1>2. TellsNobody(Tail(tx[t].todo))
  BY <1>1, RestTellsNobody
<1>3. /\ Head(tx[t].todo) = tx[t].todo[1] /\ 1 \in DOMAIN tx[t].todo
      /\ Tail(tx[t].todo) \in Seq(OpRow)
      /\ At(t) \in Run
  BY <1>1, HasTodo
<1>4. tx[t].todo[1].op = name /\ tx[t].todo[1].run = At(t)
  BY <1>1, <1>3 DEF At
<1>5. \A i \in DOMAIN tx[t].todo : tx[t].todo[i].op = "notify" => i = 1
  BY DEF NotifiesEnd
<1>6. name # "notify" => Notifying(tx[t]) = {}
  BY <1>4, <1>5 DEF Notifying, Pending
<1>7. name = "notify" => Notifying(tx[t]) = {At(t)}
  BY <1>3, <1>4, <1>5 DEF Notifying, Pending
<1>8. name = "notify" => V[At(t)].status # "RUNNING" /\ ~Continued(V[At(t)])
  BY <1>3, <1>4 DEF NotifiesEnd
<1>9. QED
  BY <1>2, <1>3, <1>6, <1>7, <1>8

LEMMA LocalTell ==
  ASSUME TellInv, LocksInv', NEW t \in Tx, NEW Y,
         runs' = runs, tx' = [tx EXCEPT ![t] = Y], TellTx(runs, Y)
  PROVE  TellInv'
<1>1. tx'[t] = Y /\ \A u \in Tx \ {t} : tx'[u] = tx[u]
  BY DEF TellInv, LocksInv, TypeInv
<1>2. \A u \in Tx : TellTx(runs', tx'[u])
  BY <1>1 DEF TellInv
<1>3. QED
  BY <1>2 DEF TellInv

(* A statement that tells nobody and writes nothing.                        *)
LEMMA TellSame ==
  ASSUME NEW rs, NEW X, NEW Y, TellTx(rs, X), Y.wrote = X.wrote, X.held \subseteq Y.held,
         Notifying(X) = {}, TellsNobody(Y.todo)
  PROVE  TellTx(rs, Y)
<1>1. Over(rs, Y) = Over(rs, X)
  BY OverSame
<1>2. Notifying(Y) = {} /\ \A V : NotifiesEnd(V, Y)
  BY NobodyNotified
<1>3. StatusHeld(rs, Y)
  BY DEF TellTx, StatusHeld
<1>4. QED
  BY <1>1, <1>2, <1>3 DEF TellTx

(* A row is rewritten as it stands, or its parent is held.                  *)
LEMMA StatusPut ==
  ASSUME LocksInv, NEW t \in Tx, StatusHeld(runs, tx[t]), NEW Y, Y.held = tx[t].held,
         NEW x \in tx[t].held, NEW row, Y.wrote = Put(t, x, row),
         \/ row.status = RowIn(runs, tx[t], x).status
         \/ RowIn(runs, tx[t], x).parent \in tx[t].held \cup {None}
  PROVE  StatusHeld(runs, Y)
<1> DEFINE X == tx[t]
           seen == RowIn(runs, X, x)
<1>1. x \in Run
  BY OfTx
<1>2. /\ DOMAIN Y.wrote = DOMAIN X.wrote \cup {x}
      /\ Y.wrote[x] = row
      /\ \A y \in DOMAIN X.wrote : y # x => Y.wrote[y] = X.wrote[y]
  BY DEF Put
<1>3. Exists(runs, x) => runs[x].parent = seen.parent
  BY <1>1, SeenRow DEF SameRun
<1>4. ASSUME NEW y \in DOMAIN Y.wrote, Exists(runs, y), Y.wrote[y].status # runs[y].status
      PROVE  runs[y].parent \in X.held \cup {None}
  <2>1. CASE y # x
    BY <2>1, <1>2, <1>4 DEF StatusHeld
  <2>2. CASE y = x /\ row.status # seen.status
    BY <2>2, <1>3, <1>4
  <2>3. CASE y = x /\ row.status = seen.status
    <3>1. x \in DOMAIN X.wrote /\ X.wrote[x] = seen
      BY <2>3, <1>2, <1>4 DEF RowIn
    <3>2. QED
      BY <3>1, <2>3, <1>2, <1>4 DEF StatusHeld
  <2>4. QED
    BY <2>1, <2>2, <2>3
<1>5. QED
  BY <1>4 DEF StatusHeld

LEMMA LockTells ==
  ASSUME TellInv, NEW t \in Tx, Lock(t)
  PROVE  TellInv'
<1> DEFINE X == tx[t]
           held == X.held \cup {At(t)}
           todo == Tail(X.todo)
           Y == [X EXCEPT !.held = held, !.todo = todo]
<1>1. /\ LocksInv /\ TellTx(runs, X)
      /\ NextIs(t, "lock")
      /\ tx' = [tx EXCEPT ![t].held = held, ![t].todo = todo]
      /\ runs' = runs
  BY DEF TellInv, Lock, Rest
<1>2. tx' = [tx EXCEPT ![t] = Y]
  BY <1>1, TxStep
<1>3. /\ TellsNobody(todo) /\ todo \in Seq(OpRow)
      /\ Notifying(X) = {}
  BY <1>1, NobodyYet DEF TellTx
<1>4. X \in TxRow
  BY <1>1, OfTx
<1>5. Y.wrote = X.wrote /\ Y.todo = todo /\ Y.held = held
  <2> HIDE DEF X, held, todo
  <2>1. QED
    BY <1>4 DEF TxRow
<1> HIDE DEF Y
<1>6. TellTx(runs, Y)
  BY <1>1, <1>3, <1>5, TellSame
<1>7. QED
  BY <1>1, <1>2, <1>6, LockKeeps, LocalTell

LEMMA EachTellsNobody ==
  ASSUME NEW S \in SUBSET Run
  PROVE  /\ Each("lock", S) \o Each("policy", S) \in Seq(OpRow)
         /\ TellsNobody(Each("lock", S) \o Each("policy", S))
<1>1. ASSUME NEW name \in {"lock", "policy"}
      PROVE  Each(name, S) \in Seq(OpRow) /\ TellsNobody(Each(name, S))
  <2>1. /\ Each(name, S) \in Seq(OpRow)
        /\ DOMAIN Each(name, S) = 1..Cardinality(S)
        /\ \A i \in 1..Cardinality(S) : Each(name, S)[i] = Op(name, Nth(S, i))
    BY EachOf DEF OpName
  <2>2. \A x : Op(name, x).op # "notify"
    BY DEF Op
  <2>3. QED
    BY <2>1, <2>2 DEF TellsNobody
<1>2. QED
  BY <1>1, BothTellNobody, TodoBefore

LEMMA SelectTells ==
  ASSUME TellInv, NEW t \in Tx, SelectChildren(t)
  PROVE  TellInv'
<1> DEFINE X == tx[t]
           S == OpenChildren(t, At(t))
           a == Each("lock", S) \o Each("policy", S)
           todo == a \o Tail(X.todo)
           Y == [X EXCEPT !.todo = todo]
<1>1. /\ LocksInv /\ TellTx(runs, X)
      /\ NextIs(t, "children")
      /\ tx' = [tx EXCEPT ![t].todo = todo]
      /\ runs' = runs
  BY DEF TellInv, SelectChildren, Rest
<1>2. S \in SUBSET Run
  BY DEF OpenChildren
<1> HIDE DEF S
<1>3. /\ TellsNobody(Tail(X.todo)) /\ Tail(X.todo) \in Seq(OpRow)
      /\ Notifying(X) = {}
  <2> HIDE DEF a
  <2>1. NotifiesEnd(Over(runs, X), X) /\ NextIs(t, "children") /\ "children" # "notify"
    BY <1>1 DEF TellTx
  <2>2. QED
    BY <1>1, <2>1, NobodyYet
<1>4. a \in Seq(OpRow) /\ TellsNobody(a)
  BY <1>2, EachTellsNobody
<1> HIDE DEF a
<1>5. todo \in Seq(OpRow) /\ TellsNobody(todo)
  BY <1>3, <1>4, TodoBefore, BothTellNobody
<1> HIDE DEF todo
<1>6. tx' = [tx EXCEPT ![t] = Y]
  BY <1>1, TxStep
<1>7. X \in TxRow
  BY <1>1, OfTx
<1>8. Y.wrote = X.wrote /\ Y.todo = todo /\ Y.held = X.held
  <2> HIDE DEF X
  <2>1. QED
    BY <1>7 DEF TxRow
<1> HIDE DEF Y
<1>9. TellTx(runs, Y)
  BY <1>1, <1>3, <1>5, <1>8, TellSame
<1>10. QED
  BY <1>1, <1>6, <1>9, SelectKeeps, LocalTell

(* The parent is told, or there is nobody to tell.                          *)
LEMMA NotifyTells ==
  ASSUME TellInv, NEW t \in Tx, NotifyParent(t)
  PROVE  TellInv'
<1> DEFINE X == tx[t]
           x == At(t)
           V == Over(runs, X)
           p == RowIn(runs, X, x).parent
<1>1. /\ LocksInv /\ TellTx(runs, X)
      /\ NotifyDoes(t) /\ NextIs(t, "notify") /\ runs' = runs
  BY AnyNotifyDoes DEF TellInv
<1>2. PICK Y : /\ Moved(t, Y)
               /\ Y.held = X.held
               /\ Y.todo = Tail(X.todo)
               /\ (Y.wrote = X.wrote /\ NobodyToTell(t)) \/ TellsParent(t, Y)
  BY <1>1 DEF NotifyDoes
<1>3. /\ runs \in [Run -> RunRow]
      /\ V \in [Run -> RunRow]
      /\ \A y \in Run : V[y] = RowIn(runs, X, y)
  BY <1>1, OfTx, OverRows
<1> HIDE DEF V
<1>4. /\ LinkedOK(V)
      /\ \A q \in Run : KinOK(V, q) /\ Heard(V, q, {x})
      /\ V[x].status # "RUNNING" /\ ~Continued(V[x])
      /\ StatusHeld(runs, X)
      /\ TellsNobody(Y.todo)
  BY <1>1, <1>2, NobodyYet DEF TellTx, AllTold, V
<1>5. /\ x \in X.held /\ x \in Run /\ KnownTo(runs, X, x)
      /\ V[x] = RowIn(runs, X, x) /\ V[x].parent = p
      /\ Exists(V, x)
  BY <1>1, <1>3, AtStatement DEF KnownTo, Exists
<1>6. LinkSeen(X, x) = LinkIn(V, x)
  <2>1. V[x].first \in Run /\ (V[x].child # None => V[x].first = x)
    BY <1>4, <1>5 DEF LinkedOK, Exists
  <2>2. QED
    BY <2>1, <1>3, <1>5 DEF LinkSeen, LinkIn
<1>7. Notifying(Y) = {} /\ \A W : NotifiesEnd(W, Y)
  BY <1>4, NobodyNotified
<1>8. p # None => p \in Run /\ p # x /\ V[p] = RowIn(runs, X, p)
  <2>1. p # None => p \in Run /\ p < x
    BY <1>1, <1>5, ParentIsThere
  <2>2. QED
    BY <2>1, <1>3, <1>5 DEF Run
<1>9. CASE Y.wrote = X.wrote /\ NobodyToTell(t)
  <2>1. Over(runs, Y) = V
    BY <1>9, OverSame DEF V
  <2>2. \/ V[x].parent = None
        \/ LinkIn(V, x) = None
        \/ V[V[x].parent].status # "RUNNING"
    BY <1>9, <1>5, <1>6, <1>8 DEF NobodyToTell
  <2>3. \A q \in Run : Heard(V, q, {})
    <3>1. \A q \in Run : KinOK(V, q)
      BY <1>4
    <3>2. ASSUME NEW q \in Run
          PROVE  Heard(V, q, {})
      <4>1. Heard(V, q, {x})
        BY <1>4
      <4>2. QED
        BY <4>1, <3>1, <2>2, <1>3, <1>4, <1>5, NothingToTell
    <3>3. QED
      BY <3>2
  <2>4. StatusHeld(runs, Y)
    BY <1>2, <1>4, <1>9 DEF StatusHeld
  <2>5. TellTx(runs, Y)
    BY <2>1, <2>3, <2>4, <1>4, <1>7 DEF TellTx, AllTold
  <2>6. QED
    BY <2>5, <1>1, <1>2, NotifyKeeps, LocalTell DEF Moved
<1>10. CASE TellsParent(t, Y)
  <2>1. /\ p \in X.held
        /\ LinkSeen(X, x) # None
        /\ \E row : /\ Y.wrote = Put(t, p, row)
                    /\ Rewritten(RowIn(runs, X, p), row)
                    /\ row.status = RowIn(runs, X, p).status
                    /\ row.status = "RUNNING"
                    /\ HearsOf(RowIn(runs, X, p), LinkSeen(X, x), RowIn(runs, X, x).status, row)
    BY <1>10 DEF TellsParent
  <2>2. PICK row : /\ Y.wrote = Put(t, p, row)
                   /\ Rewritten(RowIn(runs, X, p), row)
                   /\ row.status = RowIn(runs, X, p).status
                   /\ row.status = "RUNNING"
                   /\ HearsOf(RowIn(runs, X, p), LinkSeen(X, x), RowIn(runs, X, x).status, row)
    BY <2>1
  <2>3. p \in Run /\ p # None
    BY <2>1, <1>1, OfTx DEF Run, None
  <2>4. x # p /\ V[p] = RowIn(runs, X, p) /\ x \in Kin(V, p)
    BY <2>3, <1>5, <1>8 DEF Kin
  <2> DEFINE W == Over(runs, Y)
  <2>5. /\ Y.wrote \in Written
        /\ RowIn(runs, Y, p) = row
        /\ \A y \in Run : y # p => RowIn(runs, Y, y) = RowIn(runs, X, y)
    <3>1. Y.kind = X.kind /\ Y.run = X.run /\ Y.timer = X.timer /\ Y.held = X.held
          /\ row.status # "ABSENT"
      BY <1>2, <2>2 DEF Moved
    <3> HIDE DEF p
    <3>2. QED
      BY <3>1, <2>1, <2>2, <1>1, PutRow
  <2>6. /\ W[p] = row
        /\ \A y \in Run : y # p => W[y] = V[y]
    BY <2>3, <2>5, <1>3, OverRows
  <2>7. /\ SameRun(V[p], W[p]) /\ W[p].status = V[p].status
        /\ W[p].status # "ABSENT" /\ V[p].status = "RUNNING"
        /\ HearsOf(V[p], LinkIn(V, x), V[x].status, W[p])
    BY <2>2, <2>4, <2>6, <1>5, <1>6 DEF Rewritten
  <2> HIDE DEF W, p
  <2>8. LinkedOK(W) /\ \A q \in Run : KinOK(W, q) /\ Heard(W, q, {})
    BY <2>3, <2>4, <2>6, <2>7, <1>3, <1>4, ToldOf
  <2>9. StatusHeld(runs, Y)
    BY <2>1, <2>2, <1>1, <1>2, <1>4, StatusPut
  <2>10. TellTx(runs, Y)
    BY <2>8, <2>9, <1>7 DEF TellTx, AllTold, W
  <2>11. QED
    BY <2>10, <1>1, <1>2, NotifyKeeps, LocalTell DEF Moved
<1>11. QED
  BY <1>2, <1>9, <1>10

(* A child is asked to cancel, or closed and its parent is to be told.      *)
LEMMA PolicyTells ==
  ASSUME TellInv, NEW t \in Tx, ApplyPolicy(t)
  PROVE  TellInv'
<1> DEFINE X == tx[t]
           r == At(t)
           V == Over(runs, X)
           seen == RowIn(runs, X, r)
<1>1. /\ LocksInv /\ TellTx(runs, X)
      /\ PolicyDoes(t) /\ NextIs(t, "policy") /\ runs' = runs
  BY AnyPolicyDoes DEF TellInv
<1>2. PICK Y, a :
        /\ Moved(t, Y)
        /\ Y.held = X.held
        /\ Y.todo = a \o Tail(X.todo)
        /\ \/ a = << >> /\ Y.wrote = X.wrote
           \/ \E row : /\ Y.wrote = Put(t, r, row)
                       /\ Rewritten(seen, row)
                       /\ SameTold(seen, row)
                       /\ \/ a = << >> /\ row.status = seen.status /\ row.status = "RUNNING"
                          \/ a = AfterClose(r, "run_terminated") /\ EndsForGood(seen, row)
  BY <1>1 DEF PolicyDoes
<1>3. /\ X.todo # << >>
      /\ r \in X.held /\ r \in Run /\ KnownTo(runs, X, r)
      /\ seen.parent \in X.held \cup {None}
  BY <1>1, AtStatement
<1>4. /\ runs \in [Run -> RunRow]
      /\ V \in [Run -> RunRow]
      /\ \A y \in Run : V[y] = RowIn(runs, X, y)
  BY <1>1, OfTx, OverRows
<1> HIDE DEF V
<1>5. /\ LinkedOK(V)
      /\ \A q \in Run : KinOK(V, q) /\ Heard(V, q, {})
      /\ StatusHeld(runs, X)
      /\ Notifying(X) = {}
      /\ Tail(X.todo) \in Seq(OpRow) /\ TellsNobody(Tail(X.todo))
  <2>1. NotifiesEnd(V, X) /\ NextIs(t, "policy") /\ "policy" # "notify"
    BY <1>1 DEF TellTx, V
  <2>2. /\ Notifying(X) = {}
        /\ Tail(X.todo) \in Seq(OpRow) /\ TellsNobody(Tail(X.todo))
    BY <1>1, <2>1, NobodyYet
  <2>3. QED
    BY <2>2, <1>1 DEF TellTx, AllTold, V
<1>6. Y.todo = Tail(X.todo) => Notifying(Y) = {} /\ \A W : NotifiesEnd(W, Y)
  BY <1>5, NobodyNotified
<1>7. a = << >> => Y.todo = Tail(X.todo)
  BY <1>2, <1>5, ConcatEmptySeq
<1>8. V[r] = seen /\ Exists(V, r)
  BY <1>3, <1>4 DEF KnownTo, Exists
<1>9. CASE a = << >> /\ Y.wrote = X.wrote
  <2>1. TellsNobody(Y.todo)
    BY <1>5, <1>7, <1>9
  <2>2. TellTx(runs, Y)
    BY <2>1, <1>1, <1>2, <1>5, <1>9, TellSame
  <2>3. QED
    BY <2>2, <1>1, <1>2, PolicyKeeps, LocalTell DEF Moved
<1>10. ASSUME NEW row,
              Y.wrote = Put(t, r, row),
              Rewritten(seen, row),
              SameTold(seen, row),
              \/ a = << >> /\ row.status = seen.status /\ row.status = "RUNNING"
              \/ a = AfterClose(r, "run_terminated") /\ EndsForGood(seen, row)
       PROVE  TellInv'
  <2> DEFINE W == Over(runs, Y)
             c == IF row.status = "RUNNING" THEN {} ELSE {r}
  <2>1. row.status # "ABSENT"
    BY <1>10 DEF EndsForGood
  <2>2. /\ Y.wrote \in Written
        /\ RowIn(runs, Y, r) = row
        /\ \A y \in Run : y # r => RowIn(runs, Y, y) = RowIn(runs, X, y)
    <3>1. Y.kind = X.kind /\ Y.run = X.run /\ Y.timer = X.timer /\ Y.held = X.held
      BY <1>2 DEF Moved
    <3>2. QED
      BY <3>1, <2>1, <1>1, <1>3, <1>10, PutRow
  <2>3. /\ W[r] = row
        /\ \A y \in Run : y # r => W[y] = V[y]
    BY <2>2, <1>3, <1>4, OverRows
  <2> HIDE DEF W
  <2>4. /\ SameRun(V[r], W[r]) /\ W[r].status # "ABSENT" /\ SameTold(V[r], W[r])
        /\ \/ W[r].status = V[r].status /\ c = {}
           \/ EndsForGood(V[r], W[r]) /\ c = {} \cup {r}
    BY <2>1, <2>3, <1>8, <1>10 DEF Rewritten, EndsForGood
  <2>5. Notifying(Y) = c /\ NotifiesEnd(W, Y)
    <3>1. CASE a = << >> /\ row.status = "RUNNING"
      BY <3>1, <1>6, <1>7
    <3>2. CASE a = AfterClose(r, "run_terminated") /\ EndsForGood(seen, row)
      <4>1. W[r].status # "RUNNING" /\ ~Continued(W[r]) /\ c = {r}
        BY <3>2, <2>3 DEF EndsForGood, Continued
      <4>2. Y.todo = AfterClose(r, "run_terminated") \o Tail(X.todo)
        BY <3>2, <1>2
      <4>3. QED
        BY <4>1, <4>2, <1>3, <1>5, ClosingTells
    <3>3. QED
      BY <3>1, <3>2, <1>10
  <2> HIDE DEF c
  <2>6. LinkedOK(W)
    BY <2>3, <2>4, <1>3, <1>5, <1>8, OneRowKin
  <2>7. ASSUME NEW q \in Run
        PROVE  KinOK(W, q) /\ Heard(W, q, c)
    <3>1. KinOK(V, q) /\ Heard(V, q, {})
      BY <1>5
    <3>2. QED
      BY <3>1, <2>3, <2>4, <1>3, <1>5, <1>8, OneRowTells
  <2>8. StatusHeld(runs, Y)
    BY <1>1, <1>2, <1>3, <1>5, <1>10, StatusPut
  <2>9. TellTx(runs, Y)
    BY <2>5, <2>6, <2>7, <2>8 DEF TellTx, AllTold, W
  <2>10. QED
    BY <2>9, <1>1, <1>2, PolicyKeeps, LocalTell DEF Moved
<1>11. QED
  BY <1>2, <1>9, <1>10

LEMMA CommittedTold ==
  ASSUME TellInv
  PROVE  LinkedOK(runs) /\ \A q \in Run : KinOK(runs, q) /\ Heard(runs, q, {})
<1>1. runs \in [Run -> RunRow] /\ NoTx.wrote \in Written /\ NoTx.wrote = << >>
      /\ NoTx.todo = << >>
  BY WrittenType DEF TellInv, LocksInv, TypeInv, NoTx
<1>2. Over(runs, NoTx) = runs
  BY <1>1, OverRows
<1>3. Notifying(NoTx) = {}
  BY NothingPending DEF Notifying
<1>4. QED
  BY <1>2, <1>3 DEF TellInv, TellTx, AllTold

(* A body that goes on to tell the parent of its run holds it.              *)
LEMMA BodyHolds ==
  ASSUME LocksInv', NEW t \in Tx, tx \in [Tx -> TxRow], NEW Y, tx' = [tx EXCEPT ![t] = Y],
         runs' = runs, NEW r \in Run, Exists(runs, r), NEW type, Y.todo = AfterClose(r, type)
  PROVE  runs[r].parent \in Y.held \cup {None}
<1>1. TxOK(runs, Y)
  <2>1. tx'[t] = Y
    OBVIOUS
  <2>2. QED
    BY <2>1 DEF LocksInv
<1>2. Y.todo = <<Op("children", r)>> \/ Y.todo = <<Op("notify", r), Op("children", r)>>
  BY AfterCloseType
<1>3. 1 \in DOMAIN Y.todo /\ Y.todo[1].run = r /\ Y.todo[1].op \notin {"lock", "body"}
      /\ Y.todo # << >>
  <2>1. CASE Y.todo = <<Op("children", r)>>
    BY <2>1 DEF Op
  <2>2. CASE Y.todo = <<Op("notify", r), Op("children", r)>>
    BY <2>2 DEF Op
  <2>3. QED
    BY <2>1, <2>2, <1>2
<1>4. Y # NoTx
  BY <1>3 DEF NoTx
<1>5. ~Beginning(runs, Y)
  BY <1>3 DEF Beginning, Op
<1>6. StatementOK(runs, Y, 1)
  BY <1>1, <1>3, <1>4, <1>5 DEF TxOK, Acted
<1>7. RowIn(runs, Y, r).parent \in Y.held \cup {None}
  BY <1>3, <1>6 DEF StatementOK
<1>8. RowIn(runs, Y, r).parent = runs[r].parent
  BY <1>1 DEF TxOK, WroteOK, RowIn, SameRun
<1>9. QED
  BY <1>7, <1>8

LEMMA ClosedAfterBody ==
  ASSUME NEW r \in Run, NEW Y, Y.todo = AfterClose(r, "run_terminated")
  PROVE  /\ Notifying(Y) = {r}
         /\ \A V : V[r].status # "RUNNING" /\ ~Continued(V[r]) => NotifiesEnd(V, Y)
<1> DEFINE b == << >>
<1>1. b \in Seq(OpRow) /\ TellsNobody(b)
  BY EmptySeq DEF TellsNobody
<1>2. Y.todo = AfterClose(r, "run_terminated") \o b
  BY AfterCloseType, ConcatEmptySeq
<1> HIDE DEF b
<1>3. QED
  BY <1>1, <1>2, ClosingTells

LEMMA ContinuedAfterBody ==
  ASSUME NEW r \in Run, NEW Y, Y.todo = << >> \/ Y.todo = AfterClose(r, "run_continued_as_new")
  PROVE  Notifying(Y) = {} /\ \A V : NotifiesEnd(V, Y)
<1>1. Y.todo = << >> \/ Y.todo = <<Op("children", r)>>
  BY AfterCloseType
<1>2. TellsNobody(Y.todo)
  BY <1>1 DEF TellsNobody, Op
<1>3. QED
  BY <1>2, NobodyNotified

(* A body of a request, or of a timer.                                      *)
LEMMA WritesRunTells ==
  ASSUME TellInv, NEW t \in Tx, NEW Y, Y.wrote \in Written, NEW r \in Run, Exists(runs, r),
         WritesRun(r, Y), Y.todo # << >> => runs[r].parent \in Y.held \cup {None}
  PROVE  TellTx(runs, Y)
<1> DEFINE W == Over(runs, Y)
           row == Y.wrote[r]
           old == runs[r]
           c == IF Y.todo = << >> THEN {} ELSE {r}
<1>1. /\ LinkedOK(runs) /\ \A q \in Run : KinOK(runs, q) /\ Heard(runs, q, {})
      /\ runs \in [Run -> RunRow]
  BY CommittedTold DEF TellInv, LocksInv, TypeInv
<1>2. /\ DOMAIN Y.wrote = {r}
      /\ Rewritten(old, row) /\ SameTold(old, row)
      /\ \/ Y.todo = << >> /\ row.status = old.status
         \/ Y.todo = AfterClose(r, "run_terminated") /\ EndsForGood(old, row)
  BY DEF WritesRun, GoesOn
<1>3. W[r] = row /\ \A y \in Run : y # r => W[y] = runs[y]
  BY <1>1, <1>2, OverRows DEF RowIn
<1>4. AfterClose(r, "run_terminated") # << >>
  BY AfterCloseType
<1> HIDE DEF W, row, old
<1>5. /\ SameRun(old, W[r]) /\ W[r].status # "ABSENT" /\ SameTold(old, W[r])
      /\ \/ W[r].status = old.status /\ c = {}
         \/ EndsForGood(old, W[r]) /\ c = {} \cup {r}
  <2>1. old.status # "ABSENT"
    BY DEF Exists, old
  <2>2. QED
    BY <2>1, <1>2, <1>3, <1>4 DEF Rewritten, EndsForGood
<1>6. Notifying(Y) = c /\ NotifiesEnd(W, Y)
  <2>1. CASE Y.todo = << >>
    BY <2>1, ContinuedAfterBody
  <2>2. CASE Y.todo = AfterClose(r, "run_terminated") /\ EndsForGood(old, row)
    <3>1. W[r].status # "RUNNING" /\ ~Continued(W[r]) /\ c = {r}
      BY <2>2, <1>3, <1>4 DEF EndsForGood, Continued
    <3>2. QED
      BY <3>1, <2>2, ClosedAfterBody
  <2>3. QED
    BY <2>1, <2>2, <1>2
<1> HIDE DEF c
<1>7. LinkedOK(W)
  BY <1>1, <1>3, <1>5, OneRowKin DEF old
<1>8. ASSUME NEW q \in Run
      PROVE  KinOK(W, q) /\ Heard(W, q, c)
  <2>1. KinOK(runs, q) /\ Heard(runs, q, {})
    BY <1>1
  <2>2. QED
    BY <2>1, <1>1, <1>3, <1>5, OneRowTells DEF old
<1>9. StatusHeld(runs, Y)
  <2>1. row.status # old.status => runs[r].parent \in Y.held \cup {None}
    BY <1>2, <1>4
  <2>2. \A x \in DOMAIN Y.wrote : x = r /\ Y.wrote[x] = row /\ runs[x] = old
    BY <1>2 DEF row, old
  <2>3. QED
    BY <2>1, <2>2 DEF StatusHeld
<1>10. QED
  BY <1>6, <1>7, <1>8, <1>9 DEF TellTx, AllTold, W

(* A body of a decision: children, or the next of the chain.                *)
LEMMA WritesDecisionTells ==
  ASSUME TellInv, NEW t \in Tx, NEW Y, Y.wrote \in Written, NEW r \in Run, Exists(runs, r),
         WritesDecision(t, r, Y), Y.todo # << >> => runs[r].parent \in Y.held \cup {None}
  PROVE  TellTx(runs, Y)
<1> DEFINE W == Over(runs, Y)
           row == Y.wrote[r]
           old == runs[r]
           new == DOMAIN Y.wrote \ {r}
<1>1. /\ LinkedOK(runs) /\ \A q \in Run : KinOK(runs, q) /\ Heard(runs, q, {})
      /\ runs \in [Run -> RunRow] /\ RowsOK(runs)
  BY CommittedTold DEF TellInv, LocksInv, TypeInv
<1>2. /\ r \in DOMAIN Y.wrote /\ old.status = "RUNNING"
      /\ SameRun(old, row)
      /\ row.history.heard = old.history.heard
      /\ \A x \in new : IsNew(x, Y.wrote[x])
  BY Zenon DEF WritesDecision
<1>3. IF row.status = "CONTINUED_AS_NEW" THEN NumbersNext(r, Y) ELSE NumbersChildren(r, Y)
  BY DEF WritesDecision
<1>4. \/ /\ row.status = "RUNNING" /\ Y.todo = << >>
         /\ \A x \in new : IsChild(r, x, Y.wrote[x])
      \/ /\ row.status \notin {"ABSENT", "RUNNING", "CONTINUED_AS_NEW"}
         /\ Y.todo = AfterClose(r, "run_terminated")
         /\ \A x \in new : IsChild(r, x, Y.wrote[x])
      \/ /\ row.status = "CONTINUED_AS_NEW"
         /\ Y.todo = AfterClose(r, "run_continued_as_new")
         /\ \E x \in new : new = {x} /\ IsNext(old, Y.wrote[x])
  BY DEF WritesDecision
<1>5. /\ W \in [Run -> RunRow]
      /\ new \subseteq Run
      /\ \A x \in new : W[x] = Y.wrote[x]
      /\ W[r] = row
      /\ \A y \in Run : y \notin new \cup {r} => W[y] = runs[y]
  BY <1>1, <1>2, OverRows, WrittenType DEF RowIn
<1>6. StatusHeld(runs, Y)
  <2>1. \A x \in DOMAIN Y.wrote : Exists(runs, x) => x = r
    BY <1>2 DEF IsNew
  <2>2. row.status # old.status => Y.todo # << >>
    BY <1>2, <1>4, AfterCloseType
  <2>3. QED
    BY <2>1, <2>2 DEF StatusHeld
<1> HIDE DEF W, row
<1>7. CASE row.status # "CONTINUED_AS_NEW"
  <2> DEFINE c == IF row.status = "RUNNING" THEN {} ELSE {r}
  <2>1. AddsChildren(runs, W, r, new)
    <3>1. NumbersChildren(r, Y)
      BY <1>3, <1>7
    <3>2. \A x \in new : IsChild(r, x, Y.wrote[x])
      BY <1>4, <1>7
    <3>3. \A x \in new : /\ ~Exists(runs, x)
                         /\ W[x].status = "RUNNING"
                         /\ W[x].history = NoHistory
                         /\ W[x].parent = r
                         /\ W[x].first = x
      BY <3>2, <1>2, <1>5 DEF IsNew, IsChild
    <3>4. /\ old.history.started <= row.history.started
          /\ \A x \in new : W[x].child \in (old.history.started + 1)..row.history.started
          /\ \A x, y \in new : W[x].child = W[y].child => x = y
          /\ row.history.started = old.history.started
             \/ \E x \in new : W[x].child = row.history.started
          /\ \A x \in new, z \in Run : Exists(runs, z) =>
               z + (W[x].child - old.history.started) <= x
      BY <3>1, <1>5 DEF NumbersChildren, row
    <3>5. row.status # "ABSENT"
      BY <1>4
    <3>6. r \notin new
      OBVIOUS
    <3> HIDE DEF new, old
    <3>7. QED
      BY <3>3, <3>4, <3>5, <3>6, <1>1, <1>2, <1>5, <1>7 DEF AddsChildren, Continued, old
  <2>2. c = IF W[r].status = "RUNNING" THEN {} ELSE {r}
    BY <1>5
  <2>3. Notifying(Y) = c /\ NotifiesEnd(W, Y)
    <3>1. CASE row.status = "RUNNING"
      <4>1. Y.todo = << >>
        BY <1>4, <3>1
      <4>2. QED
        BY <4>1, <3>1, ContinuedAfterBody
    <3>2. CASE row.status # "RUNNING"
      <4>1. Y.todo = AfterClose(r, "run_terminated")
        BY <1>4, <1>7, <3>2
      <4>2. W[r].status # "RUNNING" /\ ~Continued(W[r])
        BY <3>2, <1>5, <1>7 DEF Continued
      <4>3. QED
        BY <4>1, <4>2, <3>2, ClosedAfterBody
    <3>3. QED
      BY <3>1, <3>2
  <2> HIDE DEF c, new
  <2>4. LinkedOK(W) /\ \A q \in Run : KinOK(W, q) /\ Heard(W, q, c)
    BY <2>1, <2>2, <1>1, <1>5, ChildrenTell
  <2>5. QED
    BY <2>3, <2>4, <1>6 DEF TellTx, AllTold, W
<1>8. CASE row.status = "CONTINUED_AS_NEW"
  <2>1. PICK n \in new : new = {n} /\ IsNext(old, Y.wrote[n])
    BY <1>4, <1>8
  <2>2. Y.todo = AfterClose(r, "run_continued_as_new")
    BY <1>4, <1>8
  <2>3. NumbersNext(r, Y)
    BY <1>3, <1>8
  <2>4. SameTold(old, row) /\ \A z \in Run : Exists(runs, z) => z < n
    BY <2>1, <2>3 DEF NumbersNext, row
  <2>5. /\ n \in Run /\ ~Exists(runs, n)
        /\ W[n].status = "RUNNING" /\ W[n].history = NoHistory
        /\ IsNext(old, W[n])
        /\ \A y \in Run : y # r /\ y # n => W[y] = runs[y]
    BY <2>1, <1>2, <1>5 DEF IsNew
  <2>6. SameRun(old, W[r]) /\ Continued(W[r]) /\ SameTold(old, W[r])
    BY <2>4, <1>2, <1>5, <1>8 DEF Continued
  <2> HIDE DEF new
  <2>7. LinkedOK(W) /\ \A q \in Run : KinOK(W, q) /\ Heard(W, q, {})
    BY <2>4, <2>5, <2>6, <1>1, <1>2, NextTells
  <2>8. Notifying(Y) = {} /\ NotifiesEnd(W, Y)
    BY <2>2, ContinuedAfterBody
  <2>9. QED
    BY <2>7, <2>8, <1>6 DEF TellTx, AllTold, W
<1>9. QED
  BY <1>7, <1>8

LEMMA BodyTells ==
  ASSUME TellInv, NEW t \in Tx, Body(t)
  PROVE  TellInv'
<1> DEFINE r == At(t)
<1>1. LocksInv
  BY DEF TellInv
<1>2. BodyDoes(t) /\ NextIs(t, "body") /\ runs' = runs
  BY <1>1, AnyBodyDoes
<1>3. PICK Y : /\ Moved(t, Y)
               /\ WritesNothing(Y) \/ WritesRun(r, Y) \/ WritesDecision(t, r, Y)
  BY <1>2 DEF BodyDoes
<1>4. /\ r \in Run /\ Exists(runs, r)
      /\ tx \in [Tx -> TxRow] /\ tx' = [tx EXCEPT ![t] = Y] /\ Y.wrote \in Written
  BY <1>1, <1>2, <1>3, AtBody DEF LocksInv, TypeInv, Moved, TxRow
<1>5. LocksInv'
  BY <1>1, <1>2, BodyKeeps, AnyBodyDoes
<1>6. Y.todo # << >> /\ ~WritesNothing(Y) => runs[r].parent \in Y.held \cup {None}
  <2>1. Y.todo # << >> /\ ~WritesNothing(Y) => \E type : Y.todo = AfterClose(r, type)
    BY <1>3 DEF WritesRun, WritesDecision
  <2>2. QED
    BY <2>1, <1>2, <1>4, <1>5, BodyHolds
<1>7. CASE WritesNothing(Y)
  <2>1. Over(runs, Y) = runs /\ Notifying(Y) = {} /\ NotifiesEnd(runs, Y)
    <3>1. runs \in [Run -> RunRow]
      BY <1>1 DEF LocksInv, TypeInv
    <3>2. QED
      BY <3>1, <1>4, <1>7, OverRows, ContinuedAfterBody DEF WritesNothing
  <2>2. StatusHeld(runs, Y)
    BY <1>7, WrittenType DEF StatusHeld, WritesNothing
  <2>3. TellTx(runs, Y)
    BY <2>1, <2>2, CommittedTold DEF TellTx, AllTold
  <2>4. QED
    BY <2>3, <1>2, <1>4, <1>5, LocalTell
<1>8. CASE WritesRun(r, Y) /\ ~WritesNothing(Y)
  <2>1. TellTx(runs, Y)
    BY <1>4, <1>6, <1>8, WritesRunTells
  <2>2. QED
    BY <2>1, <1>2, <1>4, <1>5, LocalTell
<1>9. CASE WritesDecision(t, r, Y) /\ ~WritesNothing(Y)
  <2>1. TellTx(runs, Y)
    BY <1>4, <1>6, <1>9, WritesDecisionTells
  <2>2. QED
    BY <2>1, <1>2, <1>4, <1>5, LocalTell
<1>10. QED
  BY <1>3, <1>7, <1>8, <1>9

(* A transaction that begins, or is rolled back, has written nothing.       *)
LEMMA TellsAfresh ==
  ASSUME TellInv, LocksInv', NEW t \in Tx, NEW Y, runs' = runs, tx' = [tx EXCEPT ![t] = Y],
         Y.wrote = << >>, TellsNobody(Y.todo)
  PROVE  TellInv'
<1>1. runs \in [Run -> RunRow] /\ Y.wrote \in Written
  BY WrittenType DEF TellInv, LocksInv, TypeInv
<1>2. Over(runs, Y) = runs /\ Notifying(Y) = {} /\ NotifiesEnd(runs, Y)
  BY <1>1, OverRows, NobodyNotified
<1>3. StatusHeld(runs, Y)
  BY WrittenType DEF StatusHeld
<1>4. TellTx(runs, Y)
  BY <1>2, <1>3, CommittedTold DEF TellTx, AllTold
<1>5. QED
  BY <1>4, LocalTell

LEMMA LocksTellNobody ==
  ASSUME NEW r
  PROVE  TellsNobody(LockRunOnly(r)) /\ TellsNobody(LockRunWithParent(r))
         /\ TellsNobody(NoTx.todo)
BY DEF TellsNobody, LockRunOnly, LockRunWithParent, Op, NoTx

-----------------------------------------------------------------------------
(* What the others have told when one commits *)

(* Rows M are rows B with what Z has written over rows rs.                  *)
Overlays(rs, Z, B, M) ==
  /\ StatusHeld(rs, Z)
  /\ \A x \in Run : x \notin DOMAIN Z.wrote => M[x] = B[x]
  /\ \A x \in DOMAIN Z.wrote :
       /\ x \in Run
       /\ B[x] = rs[x]
       /\ M[x] = Z.wrote[x]
       /\ M[x].status # "ABSENT"
       /\ Exists(rs, x) => SameRun(rs[x], M[x])
       /\ ~Exists(rs, x) => M[x].parent \in Z.held \cup {None}

LEMMA OverlaidRows ==
  ASSUME NEW rs, NEW Z, NEW B, NEW M, Overlays(rs, Z, B, M)
  PROVE  \A x : Exists(B, x) => Exists(M, x) /\ SameRun(B[x], M[x])
<1>1. ASSUME NEW x, Exists(B, x)
      PROVE  Exists(M, x) /\ SameRun(B[x], M[x])
  <2>1. CASE x \in DOMAIN Z.wrote
    <3>1. Exists(rs, x)
      BY <1>1, <2>1 DEF Overlays, Exists
    <3>2. QED
      BY <3>1, <2>1 DEF Overlays, Exists
  <2>2. CASE x \notin DOMAIN Z.wrote
    BY <1>1, <2>2 DEF Overlays, Exists, SameRun
  <2>3. QED
    BY <2>1, <2>2
<1>2. QED
  BY <1>1

(* The family of a run that a transaction has not locked is as it was.      *)
LEMMA UntouchedFamily ==
  ASSUME NEW rs, NEW Z, NEW B, NEW M, Overlays(rs, Z, B, M), LinkedOK(B),
         NEW p \in Run, p \notin Z.held, p \notin DOMAIN Z.wrote,
         KinOK(B, p), NEW b, Heard(B, p, b)
  PROVE  KinOK(M, p) /\ Heard(M, p, b)
<1>1. \A x : Exists(B, x) => Exists(M, x) /\ SameRun(B[x], M[x])
  BY OverlaidRows
<1>2. M[p] = B[p] /\ p # None
  BY DEF Overlays, Run, None
<1>3. Kin(M, p) = Kin(B, p)
  <2>1. ASSUME NEW x \in Kin(M, p)
        PROVE  x \in Kin(B, p)
    <3>1. x \in Run /\ Exists(M, x) /\ M[x].parent = p
      BY DEF Kin
    <3>2. CASE x \in DOMAIN Z.wrote
      <4>1. Exists(rs, x) /\ B[x] = rs[x]
        BY <3>1, <3>2, <1>2 DEF Overlays
      <4>2. Exists(B, x)
        BY <4>1 DEF Exists
      <4>3. QED
        BY <4>2, <3>1, <1>1 DEF Kin, SameRun
    <3>3. CASE x \notin DOMAIN Z.wrote
      BY <3>1, <3>3 DEF Overlays, Kin, Exists
    <3>4. QED
      BY <3>2, <3>3
  <2>2. ASSUME NEW x \in Kin(B, p)
        PROVE  x \in Kin(M, p)
    BY <1>1 DEF Kin, SameRun
  <2>3. QED
    BY <2>1, <2>2
<1>4. ASSUME NEW y \in Kin(B, p)
      PROVE  /\ M[y].first = B[y].first /\ M[y].child = B[y].child
             /\ LinkIn(M, y) = LinkIn(B, y)
             /\ M[y].status = B[y].status
  <2>1. y \in Run /\ Exists(B, y) /\ B[y].parent = p
    BY DEF Kin
  <2>2. M[y].first = B[y].first /\ M[y].child = B[y].child
    BY <2>1, <1>1 DEF SameRun
  <2>3. Exists(B, B[y].first)
    BY <2>1 DEF LinkedOK
  <2>4. LinkIn(M, y) = LinkIn(B, y)
    BY <2>2, <2>3, <1>1 DEF LinkIn, SameRun
  <2>5. M[y].status = B[y].status
    <3>1. CASE y \in DOMAIN Z.wrote
      <4>1. Exists(rs, y) /\ rs[y].parent = p /\ B[y] = rs[y] /\ M[y] = Z.wrote[y]
        BY <3>1, <2>1 DEF Overlays, Exists
      <4>2. QED
        BY <4>1, <3>1, <1>2 DEF Overlays, StatusHeld
    <3>2. CASE y \notin DOMAIN Z.wrote
      BY <3>2, <2>1 DEF Overlays
    <3>3. QED
      BY <3>1, <3>2
  <2>6. QED
    BY <2>2, <2>4, <2>5
<1>5. SameKin(B, M, p)
  BY <1>2, <1>3, <1>4 DEF SameKin, SameTold
<1>6. KinOK(M, p)
  BY <1>4, <1>5, KinKept DEF Continued
<1>7. Heard(M, p, b)
  BY <1>2, <1>4, <1>5, HeardKept DEF Continued
<1>8. QED
  BY <1>6, <1>7

(* No two transactions have to do with one family.                          *)
LEMMA FamiliesApart ==
  ASSUME LocksInv, NEW t \in Tx, NEW u \in Tx, t # u, NEW p \in Run
  PROVE  \/ p \notin tx[t].held /\ p \notin DOMAIN tx[t].wrote
         \/ p \notin tx[u].held /\ p \notin DOMAIN tx[u].wrote
<1>1. /\ WroteOK(runs, tx[t]) /\ HeldOK(runs, tx[t])
      /\ WroteOK(runs, tx[u]) /\ HeldOK(runs, tx[u])
      /\ Apart(runs, tx[t], tx[u])
  BY OfTx DEF LocksInv, TxOK
<1>2. \A x \in DOMAIN tx[u].wrote : x \notin DOMAIN tx[t].wrote
  BY WrittenApart
<1>3. ASSUME NEW a \in Tx, NEW b \in Tx, p \in tx[a].held, p \in DOMAIN tx[b].wrote,
             HeldOK(runs, tx[a]), WroteOK(runs, tx[b])
      PROVE  p \in tx[b].held \/ p \in DOMAIN tx[a].wrote
  BY <1>3 DEF HeldOK, WroteOK, KnownTo, RowIn, Exists
<1>4. QED
  BY <1>1, <1>2, <1>3 DEF Apart

(* What a transaction is to tell of, it holds, and its parent.              *)
LEMMA NotifiedHeld ==
  ASSUME LocksInv, NEW t \in Tx, NEW i \in DOMAIN tx[t].todo, tx[t].todo[i].op = "notify"
  PROVE  LET y == tx[t].todo[i].run IN
         /\ y \in Run /\ y \in tx[t].held
         /\ RowIn(runs, tx[t], y).parent \in tx[t].held \cup {None}
<1> DEFINE X == tx[t]
<1>1. X.todo # << >>
  OBVIOUS
<1>2. Beginning(runs, X) \/ Acted(runs, X)
  BY <1>1, HasTodo
<1>3. ~Beginning(runs, X)
  BY DEF Beginning, Op
<1>4. StatementOK(runs, X, i)
  BY <1>2, <1>3 DEF Acted
<1>5. QED
  BY <1>4 DEF StatementOK, KnownTo

LEMMA TxOverlays ==
  ASSUME TellInv, NEW t \in Tx, NEW u \in Tx, t # u
  PROVE  Overlays(runs, tx[t], Over(runs, tx[u]), Over(After(tx[t]), tx[u]))
         /\ Overlays(runs, tx[u], After(tx[t]), Over(After(tx[t]), tx[u]))
<1> DEFINE Z == tx[t]
           X == tx[u]
           A == After(Z)
           B == Over(runs, X)
           M == Over(A, X)
<1>1. LocksInv /\ StatusHeld(runs, Z) /\ StatusHeld(runs, X)
  BY DEF TellInv, TellTx
<1>2. /\ DOMAIN X.wrote \subseteq Run /\ DOMAIN Z.wrote \subseteq Run
      /\ WroteOK(runs, X) /\ WroteOK(runs, Z)
      /\ \A x \in DOMAIN X.wrote : x \notin DOMAIN Z.wrote
  BY <1>1, OfTx, WrittenApart DEF TxOK
<1>3. /\ \A x \in Run : A[x] = RowIn(runs, Z, x)
      /\ \A x \in Run : B[x] = RowIn(runs, X, x)
      /\ \A x \in Run : M[x] = RowIn(A, X, x)
  BY DEF After, Over
<1> HIDE DEF A, B, M
<1>4. /\ \A x \in DOMAIN Z.wrote : A[x] = Z.wrote[x] /\ B[x] = runs[x] /\ M[x] = Z.wrote[x]
      /\ \A x \in DOMAIN X.wrote : A[x] = runs[x] /\ B[x] = X.wrote[x] /\ M[x] = X.wrote[x]
      /\ \A x \in Run : x \notin DOMAIN Z.wrote => M[x] = B[x]
      /\ \A x \in Run : x \notin DOMAIN X.wrote => M[x] = A[x]
  BY <1>2, <1>3 DEF RowIn
<1>5. Overlays(runs, Z, B, M)
  BY <1>1, <1>2, <1>4 DEF Overlays, WroteOK
<1>6. Overlays(runs, X, A, M)
  BY <1>1, <1>2, <1>4 DEF Overlays, WroteOK
<1>7. QED
  BY <1>5, <1>6 DEF A, B, M

LEMMA CommittedTells ==
  ASSUME TellInv, NEW t \in Tx, tx[t].todo = << >>
  PROVE  AllTold(After(tx[t]), {}) /\ TellTx(After(tx[t]), NoTx)
<1> DEFINE Z == tx[t]
           A == After(Z)
<1>1. A = Over(runs, Z)
  BY DEF After, Over
<1>2. Notifying(Z) = {}
  BY NobodyNotified DEF TellsNobody
<1>3. AllTold(A, {})
  BY <1>1, <1>2 DEF TellInv, TellTx
<1>4. A \in [Run -> RunRow]
  BY AfterCommit DEF TellInv
<1> HIDE DEF A
<1>5. NoTx.wrote = << >> /\ NoTx.wrote \in Written
  BY WrittenType DEF NoTx
<1>6. Over(A, NoTx) = A
  BY <1>4, <1>5, OverRows
<1>7. Notifying(NoTx) = {} /\ NotifiesEnd(A, NoTx)
  BY LocksTellNobody, NobodyNotified
<1>8. StatusHeld(A, NoTx)
  BY <1>5, WrittenType DEF StatusHeld
<1>9. QED
  BY <1>3, <1>6, <1>7, <1>8 DEF TellTx, A

(* What one commits concerns no family another is in the middle of.         *)
LEMMA OthersTell ==
  ASSUME TellInv, NEW t \in Tx, tx[t].todo = << >>, NEW u \in Tx, t # u
  PROVE  TellTx(After(tx[t]), tx[u])
<1> DEFINE Z == tx[t]
           X == tx[u]
           A == After(Z)
           B == Over(runs, X)
           M == Over(A, X)
           b == Notifying(X)
<1>1. LocksInv
  BY DEF TellInv
<1>2. Overlays(runs, Z, B, M) /\ Overlays(runs, X, A, M)
  BY TxOverlays
<1>3. AllTold(A, {}) /\ AllTold(B, b) /\ NotifiesEnd(B, X) /\ StatusHeld(runs, X)
  BY CommittedTells DEF TellInv, TellTx
<1>4. \A x \in DOMAIN X.wrote : x \in Run /\ x \notin DOMAIN Z.wrote
  BY <1>1, OfTx, WrittenApart
<1>5. ASSUME NEW i \in DOMAIN X.todo, X.todo[i].op = "notify"
      PROVE  LET y == X.todo[i].run IN
             M[y] = B[y] /\ y \in Run /\ M[y].parent \in X.held \cup {None}
  <2> DEFINE y == X.todo[i].run
  <2>1. y \in Run /\ y \in X.held /\ RowIn(runs, X, y).parent \in X.held \cup {None}
    BY <1>1, <1>5, NotifiedHeld
  <2> HIDE DEF y
  <2>2. y \notin DOMAIN Z.wrote
    BY <2>1, <1>1, FamiliesApart
  <2>3. B[y] = RowIn(runs, X, y)
    BY <2>1 DEF Over
  <2> HIDE DEF B, M, X, Z
  <2>4. M[y] = B[y]
    BY <2>1, <2>2, <1>2 DEF Overlays
  <2>5. QED
    BY <2>1, <2>3, <2>4 DEF y
<1>6. A = Over(runs, Z)
  BY DEF After, Over
<1> HIDE DEF A, B, M
<1>7. LinkedOK(M)
  <2>1. /\ \A x : Exists(A, x) => Exists(M, x) /\ SameRun(A[x], M[x])
        /\ \A x : Exists(B, x) => Exists(M, x) /\ SameRun(B[x], M[x])
    BY <1>2, OverlaidRows
  <2>2. ASSUME NEW x \in Run, Exists(M, x)
        PROVE  Exists(A, x) \/ Exists(B, x)
    <3>1. x \notin DOMAIN X.wrote => M[x] = A[x]
      BY <1>2 DEF Overlays
    <3>2. x \notin DOMAIN Z.wrote => M[x] = B[x]
      BY <1>2 DEF Overlays
    <3>3. QED
      BY <3>1, <3>2, <2>2, <1>4 DEF Exists
  <2>3. ASSUME NEW V, LinkedOK(V), NEW x, Exists(V, x),
               \A y : Exists(V, y) => Exists(M, y) /\ SameRun(V[y], M[y])
        PROVE  LET h == M[x].first IN
               /\ Exists(M, h) /\ M[h].first = h /\ M[h].parent = M[x].parent
               /\ M[x].child # None => h = x /\ M[x].parent # None
    BY <2>3 DEF LinkedOK, SameRun, Exists
  <2>4. LinkedOK(A) /\ LinkedOK(B)
    BY <1>3 DEF AllTold
  <2>5. QED
    BY <2>1, <2>2, <2>3, <2>4 DEF LinkedOK
<1>8. ASSUME NEW p \in Run
      PROVE  KinOK(M, p) /\ Heard(M, p, b)
  <2>1. CASE p \notin Z.held /\ p \notin DOMAIN Z.wrote
    <3>1. LinkedOK(B) /\ KinOK(B, p) /\ Heard(B, p, b)
      BY <1>3 DEF AllTold
    <3>2. QED
      BY <3>1, <2>1, <1>2, UntouchedFamily
  <2>2. CASE p \notin X.held /\ p \notin DOMAIN X.wrote
    <3>1. LinkedOK(A) /\ KinOK(A, p) /\ Heard(A, p, {})
      BY <1>3 DEF AllTold
    <3>2. KinOK(M, p) /\ Heard(M, p, {})
      BY <3>1, <2>2, <1>2, UntouchedFamily
    <3>3. ASSUME NEW y \in Kin(M, p)
          PROVE  y \notin b
      <4>1. M[y].parent = p /\ p # None
        BY DEF Kin, Run, None
      <4>2. QED
        BY <4>1, <2>2, <1>5 DEF Notifying, Pending
    <3>4. Heard(M, p, b)
      BY <3>2, <3>3 DEF Heard
    <3>5. QED
      BY <3>2, <3>4
  <2>3. QED
    BY <2>1, <2>2, <1>1, FamiliesApart
<1>9. NotifiesEnd(M, X)
  BY <1>3, <1>5 DEF NotifiesEnd
<1>10. StatusHeld(A, X)
  <2>1. \A x \in DOMAIN X.wrote : A[x] = runs[x]
    BY <1>2 DEF Overlays
  <2>2. QED
    BY <2>1, <1>3 DEF StatusHeld, Exists
<1>11. QED
  BY <1>7, <1>8, <1>9, <1>10 DEF TellTx, AllTold, A, M

LEMMA CommitTells ==
  ASSUME TellInv, NEW t \in Tx, Commit(t)
  PROVE  TellInv'
<1>1. /\ LocksInv
      /\ runs' = After(tx[t])
      /\ tx' = [tx EXCEPT ![t] = NoTx]
      /\ tx[t].todo = << >>
  BY DEF TellInv, Commit, After, Row, RowIn
<1>2. tx'[t] = NoTx /\ \A u \in Tx \ {t} : tx'[u] = tx[u]
  BY <1>1 DEF LocksInv, TypeInv
<1>3. TellTx(runs', NoTx)
  BY <1>1, CommittedTells
<1>4. \A u \in Tx : TellTx(runs', tx'[u])
  <2>1. SUFFICES ASSUME NEW u \in Tx
                 PROVE  TellTx(runs', tx'[u])
    OBVIOUS
  <2>2. CASE u = t
    BY <2>2, <1>2, <1>3
  <2>3. CASE u # t
    BY <2>3, <1>1, <1>2, OthersTell
  <2>4. QED
    BY <2>2, <2>3
<1>5. LocksInv'
  BY <1>1, CommitKeeps
<1>6. QED
  BY <1>3, <1>4, <1>5 DEF TellInv

LEMMA TellStep ==
  ASSUME TellInv, [Next]_vars
  PROVE  TellInv'
<1>1. LocksInv /\ LocksInv'
  BY StepKeeps DEF TellInv
<1>2. CASE UNCHANGED vars
  <2>1. runs' = runs /\ tx' = tx
    BY <1>2 DEF vars
  <2>2. QED
    BY <2>1, <1>1 DEF TellInv
<1>3. CASE Next
  <2>1. PICK t \in Tx :
          \/ Proceed(t) \/ RollBack(t)
          \/ \E r \in Run :
               \/ BeginDecision(t, r)
               \/ \E kind \in {"cancel", "terminate"} : BeginRequest(t, r, kind)
               \/ \E timer \in Timer : BeginTimer(t, r, timer)
    BY <1>3 DEF Next
  <2>2. CASE Proceed(t)
    BY <2>2, LockTells, BodyTells, NotifyTells, SelectTells, PolicyTells, CommitTells
    DEF Proceed
  <2>3. CASE RollBack(t)
    <3>1. runs' = runs /\ tx' = [tx EXCEPT ![t] = NoTx] /\ NoTx.wrote = << >>
      BY <2>3 DEF RollBack, NoTx
    <3>2. QED
      BY <3>1, <1>1, LocksTellNobody, TellsAfresh
  <2>4. ASSUME NEW r \in Run,
               \/ BeginDecision(t, r)
               \/ \E kind \in {"cancel", "terminate"} : BeginRequest(t, r, kind)
               \/ \E timer \in Timer : BeginTimer(t, r, timer)
        PROVE  TellInv'
    <3>1. PICK Y : Begin(t, Y) /\ Y.wrote = << >> /\ Starts(r, Y)
      BY <2>4, BeginsEmpty
    <3>2. runs' = runs /\ tx' = [tx EXCEPT ![t] = Y]
      BY <3>1 DEF Begin
    <3>3. TellsNobody(Y.todo)
      BY <3>1, LocksTellNobody DEF Starts
    <3>4. QED
      BY <3>1, <3>2, <3>3, <1>1, TellsAfresh
  <2>5. QED
    BY <2>1, <2>2, <2>3, <2>4
<1>4. QED
  BY <1>2, <1>3

LEMMA TellInit ==
  ASSUME Init
  PROVE  TellInv
<1>1. LocksInv
  BY InitHolds
<1>2. PICK limits \in RootLimits :
        runs = [x \in Run |-> IF x = 1 THEN NewRow(None, None, 1, "abandon", limits) ELSE Absent]
  BY DEF Init, TreeInit
<1>3. \A x \in Run : /\ runs[x].history = NoHistory
                     /\ runs[x].parent = None /\ runs[x].child = None
                     /\ Exists(runs, x) => x = 1 /\ runs[x].first = 1
  <2>1. /\ NewRow(None, None, 1, "abandon", limits).history = NoHistory
        /\ NewRow(None, None, 1, "abandon", limits).parent = None
        /\ NewRow(None, None, 1, "abandon", limits).child = None
        /\ NewRow(None, None, 1, "abandon", limits).first = 1
    BY DEF NewRow
  <2>2. Absent.history = NoHistory /\ Absent.parent = None /\ Absent.child = None
        /\ Absent.status = "ABSENT"
    BY DEF Absent
  <2>3. QED
    BY <1>2, <2>1, <2>2 DEF Exists
<1>4. LinkedOK(runs)
  BY <1>3 DEF LinkedOK
<1>5. ASSUME NEW p \in Run
      PROVE  Kin(runs, p) = {} /\ KinOK(runs, p) /\ Heard(runs, p, {})
  <2>1. Kin(runs, p) = {}
    BY <1>3 DEF Kin, Run, None
  <2>2. NoHistory.started = 0 /\ \A c \in Run : NoHistory.heard[c] = << >>
    BY DEF NoHistory
  <2>3. KinOK(runs, p)
    BY <2>1, <2>2, <1>3 DEF KinOK
  <2>4. QED
    BY <2>1, <2>3 DEF Heard
<1>6. /\ runs \in [Run -> RunRow] /\ NoTx.wrote = << >> /\ NoTx.wrote \in Written
      /\ \A t \in Tx : tx[t] = NoTx
  BY <1>1, WrittenType DEF LocksInv, TypeInv, Init, NoTx
<1>7. TellTx(runs, NoTx)
  <2>1. Over(runs, NoTx) = runs
    BY <1>6, OverRows
  <2>2. Notifying(NoTx) = {} /\ NotifiesEnd(runs, NoTx)
    BY LocksTellNobody, NobodyNotified
  <2>3. StatusHeld(runs, NoTx)
    BY <1>6, WrittenType DEF StatusHeld
  <2>4. QED
    BY <2>1, <2>2, <2>3, <1>4, <1>5 DEF TellTx, AllTold
<1>8. QED
  BY <1>1, <1>6, <1>7 DEF TellInv

(* In the rows as each transaction sees them every open parent has heard of *)
(* the children that ended, but for the one it is about to tell of, however *)
(* the transactions interleave (close-run.ts, notifyParent).                *)
THEOREM TellInvariant == Spec => []TellInv
<1>1. Init => TellInv
  BY TellInit
<1>2. TellInv /\ [Next]_vars => TellInv'
  BY TellStep
<1>3. QED
  BY <1>1, <1>2, PTL DEF Spec

-----------------------------------------------------------------------------
(* A parent hears of each chain once, what became of its last run.          *)
LEMMA HeardExactly ==
  ASSUME TellInv, ChainInv, NEW x \in Run, runs[x].child # None, Open(runs, runs[x].parent)
  PROVE  runs[runs[x].parent].history.heard[runs[x].child] =
           IF ChainOpen(x) THEN << >> ELSE <<OutcomeOf(runs[Last(x)].status)>>
<1> DEFINE p == runs[x].parent
<1>1. /\ LinkedOK(runs) /\ \A q \in Run : KinOK(runs, q) /\ Heard(runs, q, {})
      /\ RowsOK(runs)
  BY CommittedTold DEF TellInv, LocksInv
<1>2. \A y \in Run : Exists(runs, y) <=> runs[y] # Absent
  BY <1>1, AbsentType DEF RowsOK, Exists
<1>3. Exists(runs, x)
  <2>1. runs[x] # Absent
    BY DEF Absent
  <2>2. QED
    BY <2>1, <1>2
<1>4. runs[x].first = x /\ p # None
  BY <1>1, <1>3 DEF LinkedOK
<1>5. p \in Run
  BY <1>1, <1>3, <1>4 DEF RowsOK, LinksOK, Exists
<1>6. PICK e \in Run : EndsIn(runs, x, e)
  BY <1>3, <1>4 DEF ChainInv, ChainsOK
<1>7. Exists(runs, e) /\ runs[e].first = x /\ ~Continued(runs[e])
  BY <1>6 DEF EndsIn
<1>8. \A y \in Chain(x) : y \in Kin(runs, p) /\ runs[y].first = x /\ (y # e => Continued(runs[y]))
  <2>1. SUFFICES ASSUME NEW y \in Chain(x)
                 PROVE  y \in Kin(runs, p) /\ runs[y].first = x /\ (y # e => Continued(runs[y]))
    OBVIOUS
  <2>2. y \in Run /\ Exists(runs, y) /\ runs[y].first = x
    BY <1>2, <1>4 DEF Chain
  <2>3. runs[y].parent = p
    BY <2>2, <1>1 DEF LinkedOK
  <2>4. QED
    BY <2>2, <2>3, <1>6 DEF Kin, EndsIn
<1>9. e \in Chain(x)
  BY <1>2, <1>4, <1>7 DEF Chain
<1>10. Last(x) = e
  <2>1. \A y \in Chain(x) : y <= e
    BY <1>1, <1>5, <1>7, <1>8, <1>9 DEF KinOK
  <2>2. \A y \in Chain(x) : y \in Int
    BY DEF Chain, Run
  <2>3. \A c \in Chain(x) : (\A y \in Chain(x) : y <= c) <=> c = e
    <3>1. ASSUME NEW c \in Chain(x), \A y \in Chain(x) : y <= c
          PROVE  c = e
      <4>1. c <= e /\ e <= c /\ c \in Int /\ e \in Int
        BY <2>1, <2>2, <3>1, <1>9
      <4>2. QED
        BY <4>1
    <3>2. QED
      BY <2>1, <3>1
  <2>4. QED
    BY <2>3, <1>9 DEF Last
<1>11. ChainOpen(x) <=> runs[e].status = "RUNNING"
  <2>1. \A y : Continued(runs[y]) => runs[y].status # "RUNNING"
    BY DEF Continued
  <2>2. QED
    BY <2>1, <1>8, <1>9 DEF ChainOpen, Open
<1>12. runs[p].history.heard[LinkIn(runs, e)] =
         IF runs[e].status = "RUNNING" THEN << >> ELSE <<OutcomeOf(runs[e].status)>>
  <2>1. e \in Kin(runs, p) /\ runs[p].status = "RUNNING" /\ Heard(runs, p, {})
    BY <1>1, <1>5, <1>8, <1>9 DEF Open
  <2>2. QED
    BY <2>1, <1>7 DEF Heard
<1>13. LinkIn(runs, e) = runs[x].child
  BY <1>7 DEF LinkIn
<1>14. QED
  BY <1>10, <1>11, <1>12, <1>13

(* What a run hears it hears exactly once: what became of the last run of a *)
(* child's chain, however the child, its successors and the parent raced    *)
(* (close-run.ts, notifyParent), and a timer whose event is in the history  *)
(* is marked fired; the invariant checker finds only the limits that closed *)
(* their run (timer-scheduler.ts, tick).                                    *)
THEOREM OutcomesAreExact == Spec => []OutcomeExact
<1>1. ASSUME TellInv, ChainInv, TimerInv
      PROVE  OutcomeExact
  <2>1. \A x \in Run : (runs[x].child # None /\ Open(runs, runs[x].parent)) =>
          runs[runs[x].parent].history.heard[runs[x].child]
            = IF ChainOpen(x) THEN << >> ELSE <<OutcomeOf(runs[Last(x)].status)>>
    BY <1>1, HeardExactly
  <2>2. \A r \in Run : TimerOK(runs[r])
    BY <1>1 DEF TimerInv
  <2>3. \A r \in Run : runs[r].history.fired > 0 => runs[r].timers["timer-1"] = "FIRED"
    BY <2>2 DEF TimerOK
  <2>4. ASSUME NEW x \in TimerViolations(runs)
        PROVE  x[2] \in Timeout /\ runs[x[1]].status = "TIMED_OUT"
    <3> DEFINE r == x[1]
               m == x[2]
               events == IF m \in Timeout THEN 0 ELSE runs[r].history.fired
    <3>1. /\ r \in Run /\ m \in Timer
          /\ events > 1 \/ (runs[r].timers[m] = "FIRED" /\ events = 0)
      BY DEF TimerViolations
    <3>2. TimerOK(runs[r])
      BY <3>1, <2>2
    <3>3. CASE m \in Timeout
      <4>1. runs[r].timers[m] = "FIRED"
        BY <3>1, <3>3
      <4>2. QED
        BY <4>1, <3>2, <3>3 DEF TimerOK
    <3>4. CASE m \notin Timeout
      <4>1. m = "timer-1"
        BY <3>1, <3>4 DEF Timer, Timeout
      <4>2. QED
        BY <4>1, <3>1, <3>2, <3>4 DEF TimerOK
    <3>5. QED
      BY <3>3, <3>4
  <2>5. QED
    BY <2>1, <2>3, <2>4 DEF OutcomeExact
<1>2. QED
  BY <1>1, TellInvariant, ChainInvariant, TimerInvariant, PTL
===============================================================================
