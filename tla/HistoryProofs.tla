---------------------------- MODULE HistoryProofs ----------------------------
(***************************************************************************)
(* Proofs about History: for any number of writers, folders, streams and   *)
(* pagers, the row and the snapshot are what the whole log folds to, the   *)
(* row never goes back, and no reader misses an event.                     *)
(***************************************************************************)
EXTENDS History, OrderLemmas

-----------------------------------------------------------------------------
(* What the log says of the run at each of its events *)

IsClosing(kind) == kind \in DOMAIN StateFor

(* The projection of a run after the first n events of its history h.       *)
StateAt(h, n) ==
  [state |-> IF n > 0 /\ IsClosing(h[n]) THEN StateFor[h[n]] ELSE "RUNNING",
   last  |-> n]

(* The events of h behind a, up to b, with their numbers.                   *)
Slice(h, a, b) == [i \in 1..(b - a) |-> [seq |-> a + i, kind |-> h[a + i]]]

(* None of the events from a to b, the first included, closes the run.      *)
OpenThrough(h, a, b) == \A k \in a..b : k > 0 => ~IsClosing(h[k])

(* The states a closing event leads to are closed ones, and not a rejection. *)
LEMMA StateForFacts ==
  ASSUME NEW kind
  PROVE  /\ IsClosing(kind) <=> kind \in {"run_completed", "run_timed_out"}
         /\ IsClosing(kind) => StateFor[kind] \in {"COMPLETED", "TIMED_OUT"}
BY DEF IsClosing, StateFor

(* A fold is any sequence of projections that starts with the given one and *)
(* goes on event by event.                                                  *)
LEMMA FoldSolved ==
  ASSUME NEW es, Len(es) \in Nat, NEW p, NEW g,
         g = [n \in 0..Len(es) |-> g[n]],
         g[0] = p,
         \A n \in 1..Len(es) : g[n] = ApplyEventToProjection(g[n - 1], es[n])
  PROVE  FoldRunEvents(es, p) = g[Len(es)]
<1> DEFINE N == Len(es)
           Step(f, n) == IF n = 0 THEN p ELSE ApplyEventToProjection(f[n - 1], es[n])
<1>1. \A n \in 0..N : g[n] = Step(g, n)
  <2>1. SUFFICES ASSUME NEW n \in 0..N
                 PROVE  g[n] = Step(g, n)
    OBVIOUS
  <2>2. CASE n = 0
    BY <2>2
  <2>3. CASE n \in 1..N
    BY <2>3
  <2>4. QED
    BY <2>2, <2>3
<1> HIDE DEF Step
<1>2. g = [n \in 0..N |-> Step(g, n)]
  BY <1>1
<1>3. ASSUME NEW f, f = [n \in 0..N |-> Step(f, n)]
      PROVE  f = g
  <2> DEFINE T == {n \in 0..N : f[n] # g[n]}
  <2>1. SUFFICES ASSUME T # {}
                 PROVE  FALSE
    <3>1. \A n \in 0..N : f[n] = g[n]
      BY <2>1
    <3>2. QED
      BY <3>1, <1>3
  <2>2. T \in SUBSET Nat
    OBVIOUS
  <2>3. PICK m \in T : \A y \in T : m <= y
    <3> HIDE DEF T
    <3>1. QED
      BY <2>1, <2>2, NatMin
  <2>4. m \in 0..N /\ f[m] # g[m]
    BY <2>3
  <2>5. f[m] = Step(f, m) /\ g[m] = Step(g, m)
    BY <2>4, <1>3, <1>1
  <2>6. m # 0
    BY <2>4, <2>5 DEF Step
  <2>7. m - 1 \in 0..N /\ ~(m <= m - 1)
    BY <2>4, <2>6
  <2>8. f[m - 1] = g[m - 1]
    BY <2>3, <2>7
  <2>9. QED
    BY <2>4, <2>5, <2>8 DEF Step
<1>4. g = [n \in 0..N |-> Step(g, n)] /\ \A f : f = [n \in 0..N |-> Step(f, n)] => f = g
  BY <1>2, <1>3
<1>5. QED
  BY <1>4 DEF Step, FoldRunEvents

(* Folded onto the projection after a events, the events up to b give the   *)
(* projection after b events, unless the run was closed before them.        *)
LEMMA FoldAlong ==
  ASSUME NEW h, NEW a \in Nat, NEW b \in Nat, a <= b
  PROVE  FoldRunEvents(Slice(h, a, b), StateAt(h, a)) =
           IF OpenThrough(h, a, b - 1) THEN StateAt(h, b) ELSE Rejected
<1> DEFINE es == Slice(h, a, b)
           p == StateAt(h, a)
           N == b - a
           At(n) == IF OpenThrough(h, a, a + n - 1) THEN StateAt(h, a + n) ELSE Rejected
           g == [n \in 0..N |-> At(n)]
<1>1. N \in Nat /\ Len(es) = N /\ \A n \in 1..N : es[n] = [seq |-> a + n, kind |-> h[a + n]]
  BY DEF Slice
<1>2. At(0) = p
  <2>1. a + 0 = a /\ \A k \in a..(a + 0 - 1) : FALSE
    OBVIOUS
  <2>2. OpenThrough(h, a, a + 0 - 1)
    BY <2>1 DEF OpenThrough
  <2>3. QED
    BY <2>1, <2>2
<1>3. ASSUME NEW n \in 1..N
      PROVE  At(n) = ApplyEventToProjection(At(n - 1), es[n])
  <2> DEFINE k == a + n
             q == StateAt(h, k - 1)
  <2>1. k \in Nat /\ k > 0 /\ k - 1 \in Nat /\ a + (n - 1) = k - 1 /\ a + (n - 1) - 1 = k - 2
        /\ a <= k - 1
    BY <1>1
  <2>2. es[n] = [seq |-> k, kind |-> h[k]]
    BY <1>1
  <2>3. OpenThrough(h, a, k - 1) <=>
          OpenThrough(h, a, k - 2) /\ (k - 1 > 0 => ~IsClosing(h[k - 1]))
    <3>1. \A i : i \in a..(k - 1) <=> i \in a..(k - 2) \/ i = k - 1
      BY <2>1
    <3>2. QED
      BY <3>1 DEF OpenThrough
  <2>4. At(n) = IF OpenThrough(h, a, k - 1) THEN StateAt(h, k) ELSE Rejected
    OBVIOUS
  <2>5. At(n - 1) = IF OpenThrough(h, a, k - 2) THEN StateAt(h, k - 1) ELSE Rejected
    BY <2>1
  <2>6. ApplyEventToProjection(Rejected, es[n]) = Rejected
    BY DEF ApplyEventToProjection, Rejected, IsTerminalState
  <2>7. IsTerminalState(q.state) <=> (k - 1 > 0 /\ IsClosing(h[k - 1]))
    BY StateForFacts DEF StateAt, IsTerminalState
  <2>8. q.last + 1 = k
    BY <2>1 DEF StateAt
  <2>9. ApplyEventToProjection(q, es[n]) =
          IF k - 1 > 0 /\ IsClosing(h[k - 1]) THEN Rejected ELSE StateAt(h, k)
    <3>1. es[n].seq = q.last + 1 /\ es[n].kind = h[k] /\ es[n].seq = k
      BY <2>2, <2>8
    <3>2. CASE IsTerminalState(q.state)
      BY <3>2, <2>7 DEF ApplyEventToProjection
    <3>3. CASE ~IsTerminalState(q.state)
      <4>1. q.state = "RUNNING"
        BY <3>3 DEF IsTerminalState
      <4>2. ApplyEventToProjection(q, es[n]) =
              [state |-> IF h[k] \in DOMAIN StateFor THEN StateFor[h[k]] ELSE "RUNNING",
               last |-> k]
        BY <3>1, <3>3, <4>1 DEF ApplyEventToProjection
      <4>3. QED
        BY <4>2, <3>3, <2>7, <2>1 DEF StateAt, IsClosing
    <3>4. QED
      BY <3>2, <3>3
  <2> HIDE DEF At, es, k
  <2>10. QED
    BY <2>3, <2>4, <2>5, <2>6, <2>9
<1>4. g[N] = IF OpenThrough(h, a, b - 1) THEN StateAt(h, b) ELSE Rejected
  <2>1. a + N = b /\ N \in 0..N
    BY <1>1
  <2>2. QED
    BY <2>1
<1>5. \A n \in 1..N : g[n] = ApplyEventToProjection(g[n - 1], es[n])
  <2> HIDE DEF At, es
  <2>1. \A n \in 1..N : n \in 0..N /\ n - 1 \in 0..N
    BY <1>1
  <2>2. QED
    BY <2>1, <1>3
<1>6. g[0] = p
  BY <1>1, <1>2
<1> HIDE DEF At, es, p
<1>7. FoldRunEvents(es, p) = g[Len(es)]
  <2>1. g = [n \in 0..Len(es) |-> g[n]]
    BY <1>1
  <2> HIDE DEF g
  <2>2. QED
    BY <2>1, <1>1, <1>5, <1>6, FoldSolved
<1>8. QED
  BY <1>7, <1>4, <1>1 DEF es, p

(* Events that do not go on where the projection ends are rejected.         *)
LEMMA FoldOfGap ==
  ASSUME NEW es, Len(es) \in Nat \ {0}, NEW p, es[1].seq # p.last + 1
  PROVE  FoldRunEvents(es, p) = Rejected
<1> DEFINE g == [n \in 0..Len(es) |-> IF n = 0 THEN p ELSE Rejected]
<1>1. \A e : ApplyEventToProjection(Rejected, e) = Rejected
  BY DEF ApplyEventToProjection, Rejected, IsTerminalState
<1>2. ApplyEventToProjection(p, es[1]) = Rejected
  BY DEF ApplyEventToProjection
<1>3. ASSUME NEW n \in 1..Len(es)
      PROVE  g[n] = ApplyEventToProjection(g[n - 1], es[n])
  <2>1. CASE n = 1
    BY <2>1, <1>2
  <2>2. CASE n # 1
    <3>1. n - 1 \in 0..Len(es) /\ n - 1 # 0 /\ n \in 0..Len(es) /\ n # 0
      BY <2>2
    <3>2. g[n] = Rejected /\ g[n - 1] = Rejected
      BY <3>1
    <3> HIDE DEF g
    <3>3. QED
      BY <3>2, <1>1
  <2>3. QED
    BY <2>1, <2>2
<1>4. g = [n \in 0..Len(es) |-> g[n]] /\ g[0] = p /\ g[Len(es)] = Rejected
  OBVIOUS
<1> HIDE DEF g
<1>5. QED
  BY <1>3, <1>4, FoldSolved

-----------------------------------------------------------------------------
(* Numbers in ascending order *)

(* An interval in ascending order counts up from its first number.          *)
LEMMA AscendingInterval ==
  ASSUME NEW a \in Nat, NEW b \in Nat, a <= b
  PROVE  Ascending((a + 1)..b) = [i \in 1..(b - a) |-> a + i]
<1> DEFINE S == (a + 1)..b
<1>1. Cardinality(S) = b - a
  <2>1. Cardinality((a + 1)..b) = IF a + 1 > b THEN 0 ELSE b - (a + 1) + 1
    BY FS_Interval
  <2>2. QED
    BY <2>1
<1>2. ASSUME NEW s \in S
      PROVE  Cardinality({u \in S : u <= s}) = s - a
  <2>1. {u \in S : u <= s} = (a + 1)..s
    OBVIOUS
  <2>2. Cardinality((a + 1)..s) = s - a
    BY FS_Interval
  <2>3. QED
    BY <2>1, <2>2
<1>3. ASSUME NEW i \in 1..(b - a)
      PROVE  (CHOOSE s \in S : Cardinality({u \in S : u <= s}) = i) = a + i
  <2>1. a + i \in S /\ (a + i) - a = i /\ \A s \in S : s - a = i => s = a + i
    OBVIOUS
  <2> HIDE DEF S
  <2>2. QED
    BY <1>2, <2>1
<1>4. QED
  BY <1>1, <1>3 DEF Ascending

(* Any set of numbers in ascending order is an ascending sequence of them   *)
(* that leaves none out.                                                    *)
LEMMA AscendingSorts ==
  ASSUME NEW n0 \in Nat, NEW S \in SUBSET (1..n0)
  PROVE  /\ Ascending(S) \in Seq(S)
         /\ Increasing(Ascending(S))
         /\ \A n \in S : Holds(Ascending(S), n)
         /\ Len(Ascending(S)) = Cardinality(S)
<1> DEFINE Below(n) == {u \in S : u <= n}
           N == Cardinality(S)
           asc == Ascending(S)
<1>1. IsFiniteSet(S) /\ N \in Nat
  BY IntervalFinite, FS_Subset, FS_CardinalityType
<1>2. \A n \in S : n \in Nat
  OBVIOUS
<1>3. \A n : IsFiniteSet(Below(n)) /\ Cardinality(Below(n)) \in Nat /\ Cardinality(Below(n)) <= N
  <2>1. \A n : Below(n) \subseteq S
    OBVIOUS
  <2> HIDE DEF Below
  <2>2. QED
    BY <2>1, <1>1, FS_Subset, FS_CardinalityType
<1>4. ASSUME NEW m \in S, NEW n \in S, m < n
      PROVE  Cardinality(Below(m)) < Cardinality(Below(n))
  <2>1. Below(m) \subseteq Below(n) /\ n \in Below(n) /\ n \notin Below(m)
    <3>1. m \in Nat /\ n \in Nat /\ \A u \in S : u \in Nat
      BY <1>2
    <3>2. \A u \in S : u <= m => u <= n
      BY <3>1, <1>4
    <3>3. n <= n /\ ~(n <= m)
      BY <3>1, <1>4
    <3>4. QED
      BY <3>2, <3>3
  <2> HIDE DEF Below
  <2>2. Below(m) # Below(n)
    BY <2>1
  <2>3. Cardinality(Below(m)) <= Cardinality(Below(n))
    BY <2>1, <1>3, FS_Subset
  <2>4. Cardinality(Below(m)) # Cardinality(Below(n))
    BY <2>1, <2>2, <1>3, FS_Subset
  <2>5. QED
    BY <2>3, <2>4, <1>3
<1>5. asc = [i \in 1..N |-> CHOOSE s \in S : Cardinality(Below(s)) = i]
  BY DEF Ascending
<1>6. ASSUME NEW i \in 1..N
      PROVE  asc[i] \in S /\ Cardinality(Below(asc[i])) = i
  <2>1. \E s \in S : Cardinality(Below(s)) = i
    BY PlaceTaken
  <2> HIDE DEF Below
  <2>2. QED
    BY <2>1, <1>5
<1> HIDE DEF asc, Below
<1>7. asc \in [1..N -> S]
  BY <1>5, <1>6
<1>8. asc \in Seq(S) /\ Len(asc) = N
  BY <1>7, <1>1
<1>9. Increasing(asc)
  <2>1. SUFFICES ASSUME NEW i \in 1..N, NEW j \in 1..N, i < j
                 PROVE  asc[i] < asc[j]
    BY <1>7 DEF Increasing
  <2>2. asc[i] \in S /\ asc[j] \in S /\ asc[i] \in Nat /\ asc[j] \in Nat
    BY <1>6, <1>2
  <2>3. asc[i] # asc[j]
    BY <1>6, <2>1
  <2>4. ~(asc[j] < asc[i])
    BY <1>4, <1>6, <2>1, <2>2, <1>1
  <2>5. QED
    BY <2>2, <2>3, <2>4
<1>10. ASSUME NEW n \in S
       PROVE  Holds(asc, n)
  <2> DEFINE i == Cardinality(Below(n))
  <2>1. i \in Nat /\ i <= N
    BY <1>3
  <2>2. i # 0
    <3>1. n \in Below(n)
      BY <1>2 DEF Below
    <3>2. QED
      BY <3>1, <1>3, FS_EmptySet
  <2>3. i \in 1..N
    BY <2>1, <2>2
  <2>4. asc[i] \in S /\ Cardinality(Below(asc[i])) = i
    BY <1>6, <2>3
  <2>5. \A m \in S : Cardinality(Below(m)) = i => m = n
    <3>1. SUFFICES ASSUME NEW m \in S, Cardinality(Below(m)) = Cardinality(Below(n))
                   PROVE  m = n
      OBVIOUS
    <3>2. Cardinality(Below(m)) \in Nat /\ Cardinality(Below(n)) \in Nat
      BY <1>3
    <3>3. ~(m < n)
      BY <1>4, <3>1, <3>2
    <3>4. ~(n < m)
      BY <1>4, <3>1, <3>2
    <3>5. m \in Nat /\ n \in Nat
      BY <1>2
    <3>6. QED
      BY <3>3, <3>4, <3>5
  <2>6. asc[i] = n
    BY <2>4, <2>5
  <2>7. QED
    BY <2>3, <2>6, <1>7 DEF Holds
<1>11. QED
  BY <1>8, <1>9, <1>10 DEF asc

-----------------------------------------------------------------------------
(* What is read of the stored events *)

(* The events up to b that are stored when those up to base are pruned.     *)
Kept(h, base, b) == [n \in (base + 1)..b |-> h[n]]

(* What is read of them: all behind the place asked for, and the first kept *)
(* one when that place is pruned.                                           *)
LEMMA ReadSlice ==
  ASSUME NEW h, NEW base \in Nat, NEW from \in Nat, NEW b \in Nat, base <= b
  PROVE  /\ base <= from /\ from <= b => ReadEvents(Kept(h, base, b), from) = Slice(h, from, b)
         /\ from <= base => ReadEvents(Kept(h, base, b), from) = Slice(h, base, b)
         /\ b <= from => ReadEvents(Kept(h, base, b), from) = << >>
<1> DEFINE rows == Kept(h, base, b)
           Wanted == {s \in DOMAIN rows : s > from}
<1>1. DOMAIN rows = (base + 1)..b /\ \A n \in (base + 1)..b : rows[n] = h[n]
  BY DEF Kept
<1> HIDE DEF rows
<1>2. ReadEvents(rows, from) =
        [i \in DOMAIN Ascending(Wanted) |->
           [seq |-> Ascending(Wanted)[i], kind |-> rows[Ascending(Wanted)[i]]]]
  BY DEF ReadEvents
<1>3. ASSUME NEW a \in Nat, base <= a, a <= b, Wanted = (a + 1)..b
      PROVE  ReadEvents(rows, from) = Slice(h, a, b)
  <2>1. Ascending(Wanted) = [i \in 1..(b - a) |-> a + i]
    BY <1>3, AscendingInterval
  <2>2. \A i \in 1..(b - a) : rows[a + i] = h[a + i]
    BY <1>1, <1>3
  <2> HIDE DEF Wanted
  <2>3. ReadEvents(rows, from) = [i \in 1..(b - a) |-> [seq |-> a + i, kind |-> rows[a + i]]]
    BY <1>2, <2>1
  <2>4. QED
    BY <2>2, <2>3 DEF Slice
<1>4. ASSUME base <= from, from <= b
      PROVE  ReadEvents(rows, from) = Slice(h, from, b)
  <2>1. Wanted = (from + 1)..b
    BY <1>1, <1>4
  <2> HIDE DEF Wanted
  <2>2. QED
    BY <1>3, <1>4, <2>1
<1>5. ASSUME from <= base
      PROVE  ReadEvents(rows, from) = Slice(h, base, b)
  <2>1. Wanted = (base + 1)..b
    BY <1>1, <1>5
  <2> HIDE DEF Wanted
  <2>2. QED
    BY <1>3, <2>1
<1>6. ASSUME b <= from
      PROVE  ReadEvents(rows, from) = << >>
  <2>1. Wanted = (b + 1)..b
    BY <1>1, <1>6
  <2>2. ReadEvents(rows, from) = Slice(h, b, b)
    <3> HIDE DEF Wanted
    <3>1. QED
      BY <1>3, <2>1
  <2>3. Slice(h, b, b) = << >>
    BY DEF Slice
  <2>4. QED
    BY <2>2, <2>3
<1>7. QED
  BY <1>4, <1>5, <1>6 DEF rows

-----------------------------------------------------------------------------
(* The inductive invariant *)

RunState == {"RUNNING", "COMPLETED", "TIMED_OUT"}
Projection == [state : RunState, last : Nat]

HistoryType ==
  /\ writer \in [Writer -> [pc : {"idle", "record", "check", "insert"}, expected : Nat]]
  /\ folder \in [Folder -> [pc : {"idle", "read", "fold", "again"},
                            mode : {None, "refresh", "rebuild"},
                            observed : Projection, seen : Seq([seq : Nat, kind : Kind])]]
  /\ stream \in [Stream -> [pc : {"status", "events", "ended", "refused"},
                            status : RunState \cup {None}, lastStatus : RunState \cup {None},
                            cursor : Nat, got : Seq(Nat), before : Seq(Nat)]]
  /\ pager \in [Pager -> [pc : {"more", "done"}, cursor : Nat, got : Seq(Nat)]]
  /\ faults \in Nat

IsClosed(h) == IsClosing(h[Len(h)])

(* Only the last event may close the run; the stored events, the snapshot   *)
(* and the row are three views of one log.                                  *)
StoredInv ==
  LET base == SnapshotOrInitial
  IN /\ log \in Seq(Kind) /\ Len(log) >= 1
     /\ OpenThrough(log, 1, Len(log) - 1)
     /\ snapshot # NoSnapshot => IsClosed(log)
     /\ base.last \in 0..Len(log) /\ base = StateAt(log, base.last)
     /\ events = Kept(log, base.last, Len(log))
     /\ row.last \in base.last..Len(log) /\ row = StateAt(log, row.last)

(* A writer's number was the last of the log when it was read.  Whoever is  *)
(* past the check of an optimistic append read an open run, which was not   *)
(* compacted.                                                               *)
WriterOk(w, wr, lk, h, snap) ==
  /\ wr.expected <= Len(h)
  /\ wr.pc = "record" => lk = w /\ (snap = NoSnapshot \/ snap.last <= wr.expected)
  /\ wr.pc \in {"check", "insert"} => OpenThrough(h, 1, wr.expected)
  /\ wr.pc = "insert" => snap = NoSnapshot

(* What a folder has read goes on from where it found the projection,       *)
(* unless the events in between are pruned, and then the start has moved.   *)
(* The rebuild of a closed run has read the log to its end.                 *)
FolderOk(fd, h, base, r) ==
  /\ fd.pc # "idle" => fd.mode \in {"refresh", "rebuild"}
  /\ fd.observed.last <= Len(h)
  /\ fd.pc # "idle" /\ fd.mode = "rebuild" /\ ~OpenRebuilds => IsTerminalState(r.state)
  /\ fd.pc = "fold" /\ base.last <= fd.observed.last =>
       \E m \in fd.observed.last..Len(h) :
         /\ fd.seen = Slice(h, fd.observed.last, m)
         /\ fd.mode = "rebuild" /\ ~OpenRebuilds => m = Len(h)

(* Up to n, all is there but what is pruned.                                *)
Covered(q, n, pruned) == \A k \in 1..n : Holds(q, k) \/ k <= pruned

Timeline(q, h, pruned) ==
  /\ q \in Seq(1..Len(h))
  /\ Increasing(q)
  /\ Covered(q, LastOf(q, 0), pruned)

StreamOk(st, h, pruned) ==
  /\ Timeline(st.got, h, pruned)
  /\ Timeline(st.before, h, pruned)
  /\ st.cursor <= LastOf(st.got, 0)
  /\ st.pc = "events" /\ IsTerminalState(st.status) => IsClosed(h)
  /\ st.pc = "ended" => IsClosed(h) /\ Covered(st.got, Len(h), pruned)

PagerOk(pg, h, pruned) ==
  /\ Timeline(pg.got, h, pruned)
  /\ pg.pc = "more" => pg.cursor = LastOf(pg.got, 0)

WriterInv == \A w \in Writer : WriterOk(w, writer[w], lock, log, snapshot)
FolderInv == \A f \in Folder : FolderOk(folder[f], log, SnapshotOrInitial, row)
StreamInv == \A s \in Stream : StreamOk(stream[s], log, SnapshotOrInitial.last)
PagerInv == \A p \in Pager : PagerOk(pager[p], log, SnapshotOrInitial.last)

HistoryInv ==
  HistoryType /\ StoredInv /\ WriterInv /\ FolderInv /\ StreamInv /\ PagerInv

-----------------------------------------------------------------------------
(* How the log may change: it stands, or an open one takes one event more.  *)
Grows(h, g) == g = h \/ (~IsClosed(h) /\ \E kind \in Kind : g = Append(h, kind))

(* What that leaves of the log's prefixes, projections and slices.          *)
LEMMA GrowsFacts ==
  ASSUME NEW h \in Seq(Kind), Len(h) >= 1, OpenThrough(h, 1, Len(h) - 1),
         NEW g, Grows(h, g)
  PROVE  /\ g \in Seq(Kind) /\ Len(g) \in Nat /\ Len(g) >= Len(h) /\ Len(h) \in Nat
         /\ OpenThrough(g, 1, Len(g) - 1)
         /\ IsClosed(h) => g = h
         /\ \A n \in 1..Len(h) : g[n] = h[n]
         /\ \A n \in 0..Len(h) : StateAt(g, n) = StateAt(h, n)
         /\ \A a, m \in Nat : m <= Len(h) => Slice(g, a, m) = Slice(h, a, m)
         /\ \A m \in Nat : m <= Len(h) /\ OpenThrough(h, 1, m) => OpenThrough(g, 1, m)
<1>1. Len(h) \in Nat
  OBVIOUS
<1>2. CASE g = h
  BY <1>1, <1>2 DEF IsClosed
<1>3. ASSUME ~IsClosed(h), NEW kind \in Kind, g = Append(h, kind)
      PROVE  /\ g \in Seq(Kind) /\ Len(g) = Len(h) + 1
             /\ \A n \in 1..Len(h) : g[n] = h[n]
  BY <1>3
<1>4. ASSUME ~IsClosed(h), NEW kind \in Kind, g = Append(h, kind)
      PROVE  /\ OpenThrough(g, 1, Len(g) - 1)
             /\ \A n \in 0..Len(h) : StateAt(g, n) = StateAt(h, n)
             /\ \A a, m \in Nat : m <= Len(h) => Slice(g, a, m) = Slice(h, a, m)
             /\ \A m \in Nat : m <= Len(h) /\ OpenThrough(h, 1, m) => OpenThrough(g, 1, m)
  <2>1. Len(g) = Len(h) + 1 /\ \A n \in 1..Len(h) : g[n] = h[n]
    BY <1>3, <1>4
  <2>2. \A k \in 1..Len(h) : ~IsClosing(h[k])
    <3>1. \A k \in 1..Len(h) : k \in 1..(Len(h) - 1) \/ k = Len(h)
      BY <1>1
    <3>2. QED
      BY <3>1, <1>4 DEF OpenThrough, IsClosed
  <2>3. OpenThrough(g, 1, Len(g) - 1)
    <3>1. Len(g) - 1 = Len(h)
      BY <2>1, <1>1
    <3>2. QED
      BY <3>1, <2>1, <2>2 DEF OpenThrough
  <2>4. \A n \in 0..Len(h) : StateAt(g, n) = StateAt(h, n)
    <3>1. \A n \in 0..Len(h) : n > 0 => n \in 1..Len(h)
      BY <1>1
    <3>2. QED
      BY <3>1, <2>1 DEF StateAt
  <2>5. ASSUME NEW a \in Nat, NEW m \in Nat, m <= Len(h)
        PROVE  Slice(g, a, m) = Slice(h, a, m)
    <3>1. \A i \in 1..(m - a) : a + i \in 1..Len(h)
      BY <2>5, <1>1
    <3>2. QED
      BY <3>1, <2>1 DEF Slice
  <2>6. ASSUME NEW m \in Nat, m <= Len(h), OpenThrough(h, 1, m)
        PROVE  OpenThrough(g, 1, m)
    <3>1. \A k \in 1..m : k \in 1..Len(h)
      BY <2>6, <1>1
    <3>2. QED
      BY <3>1, <2>1, <2>6 DEF OpenThrough
  <2>7. QED
    BY <2>3, <2>4, <2>5, <2>6
<1>5. CASE ~IsClosed(h) /\ \E kind \in Kind : g = Append(h, kind)
  <2>1. PICK kind \in Kind : g = Append(h, kind)
    BY <1>5
  <2>2. /\ g \in Seq(Kind) /\ Len(g) = Len(h) + 1
        /\ \A n \in 1..Len(h) : g[n] = h[n]
    BY <2>1, <1>3, <1>5
  <2>3. /\ OpenThrough(g, 1, Len(g) - 1)
        /\ \A n \in 0..Len(h) : StateAt(g, n) = StateAt(h, n)
        /\ \A a, m \in Nat : m <= Len(h) => Slice(g, a, m) = Slice(h, a, m)
        /\ \A m \in Nat : m <= Len(h) /\ OpenThrough(h, 1, m) => OpenThrough(g, 1, m)
    BY <2>1, <1>4, <1>5
  <2>4. Len(g) \in Nat /\ Len(g) >= Len(h)
    BY <2>2, <1>1
  <2>5. QED
    BY <2>2, <2>3, <2>4, <1>1, <1>5
<1>6. QED
  BY <1>2, <1>5 DEF Grows

(* What a reader has stays right when the log takes an event and when the   *)
(* compactor prunes more.                                                   *)
LEMMA TimelineKept ==
  ASSUME NEW h, NEW g, Len(h) \in Nat, Len(g) \in Nat, Len(h) <= Len(g),
         NEW b \in Nat, NEW c \in Nat, b <= c, NEW q, Timeline(q, h, b)
  PROVE  Timeline(q, g, c) /\ LastOf(q, 0) \in 0..Len(h)
<1>1. q \in Seq(1..Len(h)) /\ Increasing(q) /\ Covered(q, LastOf(q, 0), b)
  BY DEF Timeline
<1>2. 1..Len(h) \subseteq 1..Len(g)
  OBVIOUS
<1>3. q \in Seq(1..Len(g))
  BY <1>1, <1>2
<1>4. LastOf(q, 0) \in 0..Len(h)
  BY <1>1 DEF LastOf, Last
<1>5. Covered(q, LastOf(q, 0), c)
  BY <1>1, <1>4 DEF Covered
<1>6. QED
  BY <1>1, <1>3, <1>4, <1>5 DEF Timeline

(* A stream stays right with them, an ended one because a closed log stands. *)
LEMMA StreamKept ==
  ASSUME NEW h \in Seq(Kind), Len(h) >= 1, OpenThrough(h, 1, Len(h) - 1),
         NEW g, Grows(h, g), NEW b \in Nat, NEW c \in Nat, b <= c, NEW st, StreamOk(st, h, b)
  PROVE  StreamOk(st, g, c)
<1>1. Len(g) \in Nat /\ Len(h) \in Nat /\ Len(h) <= Len(g) /\ (IsClosed(h) => g = h)
  BY GrowsFacts
<1>2. Timeline(st.got, g, c) /\ Timeline(st.before, g, c)
  BY <1>1, TimelineKept DEF StreamOk
<1>3. st.pc = "ended" => IsClosed(g) /\ Covered(st.got, Len(g), c)
  <2>1. Covered(st.got, Len(h), b) => Covered(st.got, Len(h), c)
    BY <1>1 DEF Covered
  <2>2. QED
    BY <2>1, <1>1 DEF StreamOk
<1>4. QED
  BY <1>1, <1>2, <1>3 DEF StreamOk

(* So does a pager.                                                         *)
LEMMA PagerKept ==
  ASSUME NEW h \in Seq(Kind), Len(h) >= 1, OpenThrough(h, 1, Len(h) - 1),
         NEW g, Grows(h, g), NEW b \in Nat, NEW c \in Nat, b <= c, NEW pg, PagerOk(pg, h, b)
  PROVE  PagerOk(pg, g, c)
<1>1. Len(g) \in Nat /\ Len(h) \in Nat /\ Len(h) <= Len(g)
  BY GrowsFacts
<1>2. QED
  BY <1>1, TimelineKept DEF PagerOk

(* What a writer knows stays right when others append.                      *)
LEMMA WriterKept ==
  ASSUME NEW h \in Seq(Kind), Len(h) >= 1, OpenThrough(h, 1, Len(h) - 1),
         NEW g, Grows(h, g), NEW w, NEW wr, wr.expected \in Nat, NEW lk, NEW snap,
         WriterOk(w, wr, lk, h, snap)
  PROVE  WriterOk(w, wr, lk, g, snap)
BY GrowsFacts DEF WriterOk

(* What a folder has read does, too, and when the row goes on.              *)
LEMMA FolderKept ==
  ASSUME NEW h \in Seq(Kind), Len(h) >= 1, OpenThrough(h, 1, Len(h) - 1),
         NEW g, Grows(h, g), NEW base, NEW nextBase, base.last \in Nat, nextBase.last \in Nat,
         base.last <= nextBase.last, NEW r, NEW nextRow,
         ~OpenRebuilds /\ IsTerminalState(r.state) => IsTerminalState(nextRow.state) /\ g = h,
         NEW fd, fd.observed.last \in Nat, FolderOk(fd, h, base, r)
  PROVE  FolderOk(fd, g, nextBase, nextRow)
<1> DEFINE o == fd.observed.last
<1>1. /\ Len(g) \in Nat /\ Len(h) \in Nat /\ Len(h) <= Len(g)
      /\ \A a, m \in Nat : m <= Len(h) => Slice(g, a, m) = Slice(h, a, m)
  BY GrowsFacts
<1>2. o <= Len(g)
  BY <1>1 DEF FolderOk
<1>3. ASSUME fd.pc = "fold", nextBase.last <= o
      PROVE  \E m \in o..Len(g) :
               /\ fd.seen = Slice(g, o, m)
               /\ fd.mode = "rebuild" /\ ~OpenRebuilds => m = Len(g)
  <2>1. base.last <= o
    BY <1>3
  <2>2. PICK m \in o..Len(h) : /\ fd.seen = Slice(h, o, m)
                               /\ fd.mode = "rebuild" /\ ~OpenRebuilds => m = Len(h)
    BY <1>3, <2>1 DEF FolderOk
  <2>3. m \in Nat /\ m <= Len(h) /\ m \in o..Len(g)
    BY <2>2, <1>1
  <2>4. fd.mode = "rebuild" /\ ~OpenRebuilds => IsTerminalState(r.state)
    BY <1>3 DEF FolderOk
  <2>5. QED
    BY <2>2, <2>3, <2>4, <1>1
<1>4. QED
  BY <1>2, <1>3 DEF FolderOk

-----------------------------------------------------------------------------
(* What the stored rows say *)

(* The projection after an event of the log is closed only after a closing  *)
(* event, which is the last one.                                            *)
LEMMA StateAtFacts ==
  ASSUME NEW h \in Seq(Kind), Len(h) >= 1, OpenThrough(h, 1, Len(h) - 1), NEW n \in 0..Len(h)
  PROVE  /\ StateAt(h, n) \in Projection
         /\ StateAt(h, n).last = n
         /\ StateAt(h, n).state # Rejected.state
         /\ IsTerminalState(StateAt(h, n).state) <=> n = Len(h) /\ IsClosed(h)
<1>1. Len(h) \in Nat /\ n \in Nat /\ n <= Len(h)
  OBVIOUS
<1>2. StateAt(h, n).state \in RunState /\ StateAt(h, n).last = n
      /\ (StateAt(h, n).state = "RUNNING" <=> ~(n > 0 /\ IsClosing(h[n])))
  BY StateForFacts DEF StateAt, RunState
<1>3. n > 0 /\ n # Len(h) => ~IsClosing(h[n])
  <2>1. n > 0 /\ n # Len(h) => n \in 1..(Len(h) - 1)
    BY <1>1
  <2>2. QED
    BY <2>1 DEF OpenThrough
<1>4. StateAt(h, n) \in Projection
  BY <1>1, <1>2 DEF StateAt, Projection
<1>5. IsTerminalState(StateAt(h, n).state) <=> n = Len(h) /\ IsClosed(h)
  BY <1>1, <1>2, <1>3 DEF IsTerminalState, IsClosed
<1>6. StateAt(h, n).state # Rejected.state
  BY <1>2 DEF RunState, Rejected
<1>7. QED
  BY <1>2, <1>4, <1>5, <1>6

(* Within the log a fold from one of its projections gives a later one.     *)
LEMMA FoldWithin ==
  ASSUME NEW h \in Seq(Kind), Len(h) >= 1, OpenThrough(h, 1, Len(h) - 1),
         NEW a \in Nat, NEW b \in Nat, a <= b, b <= Len(h)
  PROVE  FoldRunEvents(Slice(h, a, b), StateAt(h, a)) = StateAt(h, b)
<1>1. OpenThrough(h, a, b - 1)
  <2>1. \A k \in a..(b - 1) : k > 0 => k \in 1..(Len(h) - 1)
    OBVIOUS
  <2>2. QED
    BY <2>1 DEF OpenThrough
<1>2. QED
  BY <1>1, FoldAlong

(* The log, the row and the snapshot, as the steps use them: a projection   *)
(* is closed only at the end of a closed log.                               *)
LEMMA StoredFacts ==
  ASSUME StoredInv
  PROVE  LET base == SnapshotOrInitial
         IN /\ log \in Seq(Kind) /\ Len(log) \in Nat /\ Len(log) >= 1
            /\ OpenThrough(log, 1, Len(log) - 1)
            /\ row \in Projection /\ base \in Projection
            /\ base.last <= row.last /\ row.last <= Len(log)
            /\ IsTerminalState(row.state) <=> row.last = Len(log) /\ IsClosed(log)
            /\ IsTerminalState(base.state) <=> base.last = Len(log) /\ IsClosed(log)
            /\ DOMAIN events = (base.last + 1)..Len(log)
            /\ CurrentSequence = Len(log)
<1> DEFINE base == SnapshotOrInitial
<1>1. /\ log \in Seq(Kind) /\ Len(log) \in Nat /\ Len(log) >= 1
      /\ OpenThrough(log, 1, Len(log) - 1)
      /\ base.last \in 0..Len(log) /\ base = StateAt(log, base.last)
      /\ events = Kept(log, base.last, Len(log))
      /\ row.last \in base.last..Len(log) /\ row = StateAt(log, row.last)
  BY DEF StoredInv
<1> HIDE DEF base
<1>2. row.last \in 0..Len(log) /\ base.last <= row.last /\ row.last <= Len(log)
  BY <1>1
<1>3. row \in Projection /\ (IsTerminalState(row.state) <=> row.last = Len(log) /\ IsClosed(log))
  <2>1. /\ StateAt(log, row.last) \in Projection
        /\ IsTerminalState(StateAt(log, row.last).state) <=> row.last = Len(log) /\ IsClosed(log)
    BY <1>1, <1>2, StateAtFacts
  <2>2. QED
    BY <1>1, <2>1
<1>4. base \in Projection /\ (IsTerminalState(base.state) <=> base.last = Len(log) /\ IsClosed(log))
  <2>1. /\ StateAt(log, base.last) \in Projection
        /\ IsTerminalState(StateAt(log, base.last).state) <=> base.last = Len(log) /\ IsClosed(log)
    BY <1>1, StateAtFacts
  <2>2. QED
    BY <1>1, <2>1
<1>5. DOMAIN events = (base.last + 1)..Len(log)
  BY <1>1 DEF Kept
<1>6. CurrentSequence = Len(log)
  <2> DEFINE stored == DOMAIN events \cup {base.last}
  <2>1. Len(log) \in stored /\ \A m \in stored : m <= Len(log) /\ m \in Nat
    BY <1>1, <1>5
  <2>2. CurrentSequence = CHOOSE n \in stored : \A m \in stored : m <= n
    BY DEF CurrentSequence, base
  <2> HIDE DEF stored
  <2>3. \A n \in stored : (\A m \in stored : m <= n) => n = Len(log)
    BY <2>1, <1>1
  <2>4. QED
    BY <2>1, <2>2, <2>3
<1>7. QED
  BY <1>1, <1>2, <1>3, <1>4, <1>5, <1>6 DEF base

(* Whoever reads behind a number gets the log from there, or from where it  *)
(* is no longer pruned.                                                     *)
LEMMA StoredReads ==
  ASSUME StoredInv, NEW from \in Nat
  PROVE  LET base == SnapshotOrInitial
         IN /\ base.last <= from /\ from <= Len(log) =>
                 ReadEvents(events, from) = Slice(log, from, Len(log))
            /\ from <= base.last => ReadEvents(events, from) = Slice(log, base.last, Len(log))
            /\ Len(log) <= from => ReadEvents(events, from) = << >>
BY StoredFacts, ReadSlice DEF StoredInv

-----------------------------------------------------------------------------
(* What a step leaves alone stays right *)

(* The stored rows stand.                                                   *)
LEMMA StoredUnchanged ==
  ASSUME StoredInv, UNCHANGED <<log, events, snapshot, row>>
  PROVE  StoredInv' /\ SnapshotOrInitial' = SnapshotOrInitial
<1>1. SnapshotOrInitial' = SnapshotOrInitial
  BY DEF SnapshotOrInitial
<1>2. QED
  BY <1>1 DEF StoredInv

(* The writers stand while others append.                                   *)
LEMMA WritersUnchanged ==
  ASSUME HistoryType, StoredInv, WriterInv, UNCHANGED <<writer, lock, snapshot>>,
         Grows(log, log')
  PROVE  WriterInv'
<1>1. SUFFICES ASSUME NEW w \in Writer
               PROVE  WriterOk(w, writer[w], lock, log', snapshot)
  BY DEF WriterInv
<1>2. WriterOk(w, writer[w], lock, log, snapshot) /\ writer[w].expected \in Nat
  BY DEF WriterInv, HistoryType
<1>3. log \in Seq(Kind) /\ Len(log) >= 1 /\ OpenThrough(log, 1, Len(log) - 1)
  BY DEF StoredInv
<1>4. QED
  BY <1>2, <1>3, WriterKept

(* The folders stand while the log, the row or the snapshot goes on.        *)
LEMMA FoldersUnchanged ==
  ASSUME HistoryType, StoredInv, FolderInv, UNCHANGED folder,
         Grows(log, log'), StoredInv', SnapshotOrInitial.last <= SnapshotOrInitial'.last,
         ~OpenRebuilds /\ IsTerminalState(row.state) => IsTerminalState(row'.state) /\ log' = log
  PROVE  FolderInv'
<1>1. SUFFICES ASSUME NEW f \in Folder
               PROVE  FolderOk(folder[f], log', SnapshotOrInitial', row')
  BY DEF FolderInv
<1>2. FolderOk(folder[f], log, SnapshotOrInitial, row) /\ folder[f].observed.last \in Nat
  BY DEF FolderInv, HistoryType, Projection
<1>3. log \in Seq(Kind) /\ Len(log) >= 1 /\ OpenThrough(log, 1, Len(log) - 1)
  BY DEF StoredInv
<1>4. SnapshotOrInitial.last \in Nat /\ SnapshotOrInitial'.last \in Nat
  BY DEF StoredInv
<1>5. QED
  BY <1>2, <1>3, <1>4, FolderKept

(* The streams stand while the log goes on or is pruned.                    *)
LEMMA StreamsUnchanged ==
  ASSUME StoredInv, StreamInv, UNCHANGED stream,
         Grows(log, log'), StoredInv', SnapshotOrInitial.last <= SnapshotOrInitial'.last
  PROVE  StreamInv'
<1>1. SUFFICES ASSUME NEW s \in Stream
               PROVE  StreamOk(stream[s], log', SnapshotOrInitial'.last)
  BY DEF StreamInv
<1>2. StreamOk(stream[s], log, SnapshotOrInitial.last)
  BY DEF StreamInv
<1>3. log \in Seq(Kind) /\ Len(log) >= 1 /\ OpenThrough(log, 1, Len(log) - 1)
  BY DEF StoredInv
<1>4. SnapshotOrInitial.last \in Nat /\ SnapshotOrInitial'.last \in Nat
  BY DEF StoredInv
<1>5. QED
  BY <1>2, <1>3, <1>4, StreamKept

(* And the pagers.                                                          *)
LEMMA PagersUnchanged ==
  ASSUME StoredInv, PagerInv, UNCHANGED pager,
         Grows(log, log'), StoredInv', SnapshotOrInitial.last <= SnapshotOrInitial'.last
  PROVE  PagerInv'
<1>1. SUFFICES ASSUME NEW p \in Pager
               PROVE  PagerOk(pager[p], log', SnapshotOrInitial'.last)
  BY DEF PagerInv
<1>2. PagerOk(pager[p], log, SnapshotOrInitial.last)
  BY DEF PagerInv
<1>3. log \in Seq(Kind) /\ Len(log) >= 1 /\ OpenThrough(log, 1, Len(log) - 1)
  BY DEF StoredInv
<1>4. SnapshotOrInitial.last \in Nat /\ SnapshotOrInitial'.last \in Nat
  BY DEF StoredInv
<1>5. QED
  BY <1>2, <1>3, <1>4, PagerKept

(* A step of a writer, a folder or a reader that only changes its own       *)
(* record.                                                                  *)
LEMMA StoredStands ==
  ASSUME HistoryInv, UNCHANGED <<log, events, snapshot, row>>
  PROVE  /\ StoredInv'
         /\ UNCHANGED <<writer, lock>> => WriterInv'
         /\ UNCHANGED folder => FolderInv'
         /\ UNCHANGED stream => StreamInv'
         /\ UNCHANGED pager => PagerInv'
<1>1. StoredInv' /\ SnapshotOrInitial' = SnapshotOrInitial
  BY StoredUnchanged DEF HistoryInv
<1>2. Grows(log, log')
  BY DEF Grows
<1>3. SnapshotOrInitial.last <= SnapshotOrInitial'.last
  BY <1>1 DEF HistoryInv, StoredInv
<1>4. HistoryType /\ StoredInv /\ WriterInv /\ FolderInv /\ StreamInv /\ PagerInv
  BY DEF HistoryInv
<1>5. UNCHANGED <<writer, lock>> => WriterInv'
  BY <1>2, <1>4, WritersUnchanged
<1>6. UNCHANGED folder => FolderInv'
  BY <1>1, <1>2, <1>3, <1>4, FoldersUnchanged
<1>7. UNCHANGED stream => StreamInv'
  BY <1>1, <1>2, <1>3, <1>4, StreamsUnchanged
<1>8. UNCHANGED pager => PagerInv'
  BY <1>1, <1>2, <1>3, <1>4, PagersUnchanged
<1>9. QED
  BY <1>1, <1>5, <1>6, <1>7, <1>8

-----------------------------------------------------------------------------
(* Every step preserves the invariant: writers *)

(* A started run.                                                           *)
LEMMA InvInit ==
  ASSUME Init
  PROVE  HistoryInv
<1>1. log \in Seq(Kind) /\ Len(log) = 1 /\ log[1] = "run_started"
  BY DEF Init, Kind
<1>2. ~IsClosing("run_started")
  BY StateForFacts
<1>3. SnapshotOrInitial = [state |-> "RUNNING", last |-> 0]
  BY DEF Init, SnapshotOrInitial, InitialProjection
<1>4. StateAt(log, 0) = [state |-> "RUNNING", last |-> 0]
      /\ StateAt(log, 1) = [state |-> "RUNNING", last |-> 1]
  BY <1>1, <1>2 DEF StateAt
<1>5. events = Kept(log, 0, 1)
  BY <1>1 DEF Init, Kept
<1>6. OpenThrough(log, 1, Len(log) - 1)
  BY <1>1 DEF OpenThrough
<1>7. StoredInv
  <2>1. snapshot = NoSnapshot /\ row = [state |-> "RUNNING", last |-> 1]
    BY DEF Init
  <2>2. QED
    BY <1>1, <1>3, <1>4, <1>5, <1>6, <2>1 DEF StoredInv
<1>8. HistoryType
  <2>1. << >> \in Seq(Nat) /\ << >> \in Seq([seq : Nat, kind : Kind])
    OBVIOUS
  <2>2. writer \in [Writer -> [pc : {"idle", "record", "check", "insert"}, expected : Nat]]
    BY DEF Init, IdleWriter
  <2>3. InitialProjection \in Projection
    BY DEF InitialProjection, Projection, RunState
  <2>4. folder \in [Folder -> [pc : {"idle", "read", "fold", "again"},
                            mode : {None, "refresh", "rebuild"},
                            observed : Projection, seen : Seq([seq : Nat, kind : Kind])]]
    BY <2>1, <2>3 DEF Init, IdleFolder
  <2>5. stream \in [Stream -> [pc : {"status", "events", "ended", "refused"},
                            status : RunState \cup {None}, lastStatus : RunState \cup {None},
                            cursor : Nat, got : Seq(Nat), before : Seq(Nat)]]
    BY <2>1 DEF Init, NewStream
  <2>6. pager \in [Pager -> [pc : {"more", "done"}, cursor : Nat, got : Seq(Nat)]]
    BY <2>1 DEF Init, NewPager
  <2>7. QED
    BY <2>2, <2>4, <2>5, <2>6 DEF Init, HistoryType
<1>9. WriterInv
  BY <1>1 DEF Init, WriterInv, WriterOk, IdleWriter
<1>10. FolderInv
  BY <1>1 DEF Init, FolderInv, FolderOk, IdleFolder, InitialProjection
<1>11. Timeline(<< >>, log, 0)
  BY <1>1 DEF Timeline, Increasing, Covered, LastOf
<1>12. StreamInv
  <2>1. LastOf(<< >>, 0) = 0
    BY DEF LastOf
  <2>2. QED
    BY <1>3, <1>11, <2>1 DEF Init, StreamInv, StreamOk, NewStream
<1>13. PagerInv
  <2>1. LastOf(<< >>, 0) = 0
    BY DEF LastOf
  <2>2. QED
    BY <1>3, <1>11, <2>1 DEF Init, PagerInv, PagerOk, NewPager
<1>14. QED
  BY <1>7, <1>8, <1>9, <1>10, <1>12, <1>13 DEF HistoryInv

(* An idle writer knows nothing that could become wrong.                    *)
LEMMA IdleWriterOk ==
  ASSUME NEW w, NEW lk, NEW h, NEW snap, Len(h) \in Nat
  PROVE  WriterOk(w, IdleWriter, lk, h, snap)
BY DEF WriterOk, IdleWriter

(* Who takes the lock reads the number of the last event.                   *)
LEMMA RecordLockInv ==
  ASSUME HistoryInv, NEW w \in Writer, RecordLock(w)
  PROVE  HistoryInv'
<1>1. HistoryType /\ StoredInv /\ WriterInv
  BY DEF HistoryInv
<1>2. /\ lock = None /\ lock' = w /\ None # w
      /\ writer' = [writer EXCEPT ![w] = [pc |-> "record", expected |-> CurrentSequence]]
      /\ UNCHANGED <<log, events, snapshot, row, folder, stream, pager, faults>>
  BY HistoryAssumption DEF RecordLock
<1>3. CurrentSequence = Len(log) /\ Len(log) \in Nat
      /\ SnapshotOrInitial.last <= Len(log)
  <2>1. SnapshotOrInitial.last \in 0..Len(log)
    BY <1>1 DEF StoredInv
  <2>2. QED
    BY <1>1, <2>1, StoredFacts
<1>4. HistoryType'
  BY <1>1, <1>2, <1>3 DEF HistoryType
<1>5. WriterInv'
  <2>1. SUFFICES ASSUME NEW v \in Writer
                 PROVE  WriterOk(v, writer'[v], w, log, snapshot)
    BY <1>2 DEF WriterInv
  <2>2. CASE v = w
    <3>1. writer'[v] = [pc |-> "record", expected |-> Len(log)]
      BY <1>1, <1>2, <1>3, <2>2 DEF HistoryType
    <3>2. snapshot = NoSnapshot \/ snapshot.last <= Len(log)
      BY <1>3 DEF SnapshotOrInitial
    <3>3. QED
      BY <3>1, <3>2, <2>2, <1>3 DEF WriterOk
  <2>3. CASE v # w
    <3>1. writer'[v] = writer[v] /\ WriterOk(v, writer[v], None, log, snapshot)
      BY <1>1, <1>2, <2>3 DEF HistoryType, WriterInv
    <3>2. v # None
      BY HistoryAssumption
    <3>3. QED
      BY <3>1, <3>2 DEF WriterOk
  <2>4. QED
    BY <2>2, <2>3
<1>6. StoredInv' /\ FolderInv' /\ StreamInv' /\ PagerInv'
  BY <1>2, StoredStands
<1>7. QED
  BY <1>4, <1>5, <1>6 DEF HistoryInv

(* A writer that gives its lock up and stops.                               *)
LEMMA ReleasedInv ==
  ASSUME HistoryType, StoredInv, WriterInv, NEW w \in Writer, writer[w].pc = "record",
         Released(w), snapshot' = snapshot, Grows(log, log')
  PROVE  /\ WriterInv'
         /\ writer' \in [Writer -> [pc : {"idle", "record", "check", "insert"}, expected : Nat]]
<1>1. lock = w /\ lock' = None /\ writer' = [writer EXCEPT ![w] = IdleWriter]
  BY DEF WriterInv, WriterOk, Released
<1>2. log \in Seq(Kind) /\ Len(log) >= 1 /\ OpenThrough(log, 1, Len(log) - 1)
  BY DEF StoredInv
<1>3. Len(log') \in Nat
  BY <1>2, GrowsFacts
<1>4. writer' \in [Writer -> [pc : {"idle", "record", "check", "insert"}, expected : Nat]]
  BY <1>1 DEF HistoryType, IdleWriter
<1>5. WriterInv'
  <2>1. SUFFICES ASSUME NEW v \in Writer
                 PROVE  WriterOk(v, writer'[v], None, log', snapshot)
    BY <1>1 DEF WriterInv
  <2>2. CASE v = w
    <3>1. writer'[v] = IdleWriter
      BY <1>1, <2>2 DEF HistoryType
    <3>2. QED
      BY <3>1, <1>3, IdleWriterOk
  <2>3. CASE v # w
    <3>1. writer'[v] = writer[v] /\ WriterOk(v, writer[v], w, log, snapshot)
          /\ writer[v].expected \in Nat
      BY <1>1, <2>3 DEF HistoryType, WriterInv
    <3>2. WriterOk(v, writer[v], w, log', snapshot)
      BY <3>1, <1>2, WriterKept
    <3>3. QED
      BY <3>1, <3>2, <2>3 DEF WriterOk
  <2>4. QED
    BY <2>2, <2>3
<1>6. QED
  BY <1>4, <1>5

(* A transaction that is rolled back leaves nothing.                        *)
LEMMA RecordLostInv ==
  ASSUME HistoryInv, NEW w \in Writer, RecordLost(w)
  PROVE  HistoryInv'
<1>1. HistoryType /\ StoredInv /\ WriterInv
  BY DEF HistoryInv
<1>2. /\ writer[w].pc = "record" /\ Released(w) /\ faults' = faults + 1
      /\ UNCHANGED <<log, events, snapshot, row, folder, stream, pager>>
  BY DEF RecordLost
<1>3. Grows(log, log')
  BY <1>2 DEF Grows
<1>4. WriterInv' /\ HistoryType'
  <2>1. /\ WriterInv'
        /\ writer' \in [Writer -> [pc : {"idle", "record", "check", "insert"}, expected : Nat]]
    BY <1>1, <1>2, <1>3, ReleasedInv
  <2>2. faults' \in Nat
    BY <1>1, <1>2 DEF HistoryType
  <2>3. HistoryType'
    BY <1>1, <1>2, <2>1, <2>2 DEF HistoryType
  <2>4. QED
    BY <2>1, <2>3
<1>5. StoredInv' /\ FolderInv' /\ StreamInv' /\ PagerInv'
  BY <1>2, StoredStands
<1>6. QED
  BY <1>4, <1>5 DEF HistoryInv

(* An event behind the last one keeps the rows the log.                     *)
LEMMA InsertedBehind ==
  ASSUME StoredInv, NEW kind \in Kind
  PROVE  Inserted(Len(log) + 1, kind) =
           Kept(Append(log, kind), SnapshotOrInitial.last, Len(log) + 1)
<1> DEFINE base == SnapshotOrInitial.last
           N == Len(log)
           rows == Inserted(N + 1, kind)
<1>1. N \in Nat /\ base \in Nat /\ base <= N /\ events = Kept(log, base, N) /\ log \in Seq(Kind)
  BY DEF StoredInv
<1> HIDE DEF base
<1>2. /\ Append(log, kind)[N + 1] = kind
      /\ \A n \in 1..N : Append(log, kind)[n] = log[n]
  BY <1>1
<1>3. DOMAIN events = (base + 1)..N /\ \A n \in (base + 1)..N : events[n] = log[n]
  BY <1>1 DEF Kept
<1>4. (base + 1)..N \cup {N + 1} = (base + 1)..(N + 1)
  BY <1>1
<1>5. \A n \in (base + 1)..(N + 1) : n = N + 1 \/ (n \in (base + 1)..N /\ n \in 1..N /\ n # N + 1)
  BY <1>1
<1>6. rows = [n \in (base + 1)..(N + 1) |-> IF n = N + 1 THEN kind ELSE events[n]]
  BY <1>3, <1>4 DEF Inserted
<1>7. \A n \in (base + 1)..(N + 1) :
        (IF n = N + 1 THEN kind ELSE events[n]) = Append(log, kind)[n]
  BY <1>2, <1>3, <1>5
<1>8. QED
  BY <1>6, <1>7 DEF Kept, base

(* The log takes an event, and the row stands or goes on within the log.    *)
LEMMA StoredAppended ==
  ASSUME StoredInv, NEW kind \in Kind, ~IsClosed(log), log' = Append(log, kind),
         events' = Inserted(Len(log) + 1, kind), snapshot' = snapshot,
         row' = row \/ row' = StateAt(log', Len(log'))
  PROVE  StoredInv' /\ SnapshotOrInitial' = SnapshotOrInitial /\ Grows(log, log')
<1> DEFINE base == SnapshotOrInitial
<1>1. /\ log \in Seq(Kind) /\ Len(log) >= 1 /\ OpenThrough(log, 1, Len(log) - 1)
      /\ snapshot # NoSnapshot => IsClosed(log)
      /\ base.last \in 0..Len(log) /\ base = StateAt(log, base.last)
      /\ row.last \in base.last..Len(log) /\ row = StateAt(log, row.last)
  BY DEF StoredInv
<1>2. SnapshotOrInitial' = base
  BY DEF SnapshotOrInitial
<1> HIDE DEF base
<1>3. Grows(log, log')
  BY DEF Grows
<1>4. /\ log' \in Seq(Kind) /\ Len(log') >= Len(log)
      /\ OpenThrough(log', 1, Len(log') - 1)
      /\ \A n \in 0..Len(log) : StateAt(log', n) = StateAt(log, n)
  BY <1>1, <1>3, GrowsFacts
<1>5. Len(log') = Len(log) + 1 /\ Len(log) \in Nat
  BY <1>1
<1>6. events' = Kept(log', base.last, Len(log'))
  BY <1>5, InsertedBehind DEF base
<1>7. base.last \in 0..Len(log') /\ base = StateAt(log', base.last)
  BY <1>1, <1>4, <1>5
<1>8. row'.last \in base.last..Len(log') /\ row' = StateAt(log', row'.last)
  <2>1. CASE row' = row
    <3>1. row.last \in 0..Len(log) /\ row.last \in base.last..Len(log')
      BY <1>1, <1>5
    <3>2. QED
      BY <2>1, <3>1, <1>1, <1>4
  <2>2. CASE row' = StateAt(log', Len(log'))
    <3>1. row'.last = Len(log')
      BY <2>2 DEF StateAt
    <3>2. QED
      BY <2>2, <3>1, <1>1, <1>5
  <2>3. QED
    BY <2>1, <2>2
<1>9. snapshot' = NoSnapshot
  BY <1>1
<1>10. StoredInv'
  BY <1>2, <1>4, <1>5, <1>6, <1>7, <1>8, <1>9 DEF StoredInv
<1>11. QED
  BY <1>2, <1>3, <1>10 DEF base

(* The row goes on in the history, and stands once it is closed.            *)
RowForward == row'.last >= row.last /\ (IsTerminalState(row.state) => row' = row)

(* A step that leaves the row alone does not take it back.                  *)
LEMMA RowStands ==
  ASSUME StoredInv, row' = row
  PROVE  RowForward
BY DEF StoredInv, RowForward

(* What the writers append are kinds of events.                              *)
LEMMA KindFacts == /\ {"step_completed", "run_completed", "run_timed_out"} \subseteq Kind
                   /\ "run_started" \in Kind
BY StateForFacts DEF Kind, IsClosing

(* What a transaction of the engine folds onto the row when it commits.     *)
LEMMA FoldOfCommit ==
  ASSUME StoredInv, NEW kind \in Kind,
         NEW next, next = FoldRunEvents(ReadEvents(Inserted(Len(log) + 1, kind), row.last), row),
         next.state # Rejected.state
  PROVE  ~IsClosed(log) /\ next = StateAt(Append(log, kind), Len(log) + 1)
<1> DEFINE N == Len(log)
           h == Append(log, kind)
           base == SnapshotOrInitial.last
<1>1. /\ log \in Seq(Kind) /\ N \in Nat /\ N >= 1
      /\ base \in Nat /\ row.last \in Nat /\ base <= row.last /\ row.last <= N
      /\ row = StateAt(log, row.last)
  BY DEF StoredInv
<1>2. \A n \in 1..N : h[n] = log[n]
  BY <1>1
<1>3. Inserted(N + 1, kind) = Kept(h, base, N + 1)
  BY InsertedBehind
<1> HIDE DEF h, base
<1>4. ReadEvents(Kept(h, base, N + 1), row.last) = Slice(h, row.last, N + 1)
  <2>1. N + 1 \in Nat /\ row.last <= N + 1 /\ base <= N + 1
    BY <1>1
  <2>2. QED
    BY <1>1, <2>1, ReadSlice
<1>5. row = StateAt(h, row.last)
  <2>1. row.last > 0 => h[row.last] = log[row.last]
    BY <1>1, <1>2
  <2>2. StateAt(h, row.last) = StateAt(log, row.last)
    BY <2>1 DEF StateAt
  <2>3. QED
    BY <2>2, <1>1
<1>6. next = IF OpenThrough(h, row.last, N) THEN StateAt(h, N + 1) ELSE Rejected
  <2>1. FoldRunEvents(Slice(h, row.last, N + 1), StateAt(h, row.last)) =
          IF OpenThrough(h, row.last, N + 1 - 1) THEN StateAt(h, N + 1) ELSE Rejected
    BY <1>1, N + 1 \in Nat, row.last <= N + 1, FoldAlong
  <2>2. N + 1 - 1 = N
    BY <1>1
  <2>3. QED
    BY <2>1, <2>2, <1>3, <1>4, <1>5
<1>7. OpenThrough(h, row.last, N)
  BY <1>6
<1>8. ~IsClosed(log)
  <2>1. N \in row.last..N /\ N > 0 /\ N \in 1..N
    BY <1>1
  <2>2. QED
    BY <1>2, <1>7, <2>1 DEF OpenThrough, IsClosed
<1>9. QED
  BY <1>6, <1>7, <1>8 DEF h

(* A transaction under the lock appends right behind the log, or nothing.   *)
LEMMA RecordCommitInv ==
  ASSUME HistoryInv, NEW w \in Writer, NEW kind \in {"step_completed", "run_completed"},
         RecordCommit(w, kind)
  PROVE  HistoryInv' /\ RowForward
<1> DEFINE seq  == writer[w].expected + 1
           next == FoldRunEvents(ReadEvents(Inserted(seq, kind), row.last), row)
           ok   == ~Taken(seq) /\ next.state # Rejected.state
<1>1. HistoryType /\ StoredInv /\ WriterInv /\ FolderInv /\ StreamInv /\ PagerInv
  BY DEF HistoryInv
<1>2. /\ writer[w].pc = "record"
      /\ events' = IF ok THEN Inserted(seq, kind) ELSE events
      /\ log' = IF ok THEN Append(log, kind) ELSE log
      /\ row' = IF ok THEN next ELSE row
      /\ Released(w)
      /\ UNCHANGED <<snapshot, folder, stream, pager, faults>>
  BY DEF RecordCommit
<1>3. kind \in Kind
  BY KindFacts
<1>4. CASE ~ok
  <2>1. UNCHANGED <<log, events, snapshot, row>>
    BY <1>2, <1>4
  <2>2. Grows(log, log')
    BY <2>1 DEF Grows
  <2>3. /\ WriterInv'
        /\ writer' \in [Writer -> [pc : {"idle", "record", "check", "insert"}, expected : Nat]]
    BY <1>1, <1>2, <2>2, ReleasedInv
  <2>4. HistoryType'
    BY <1>1, <1>2, <2>3 DEF HistoryType
  <2>5. StoredInv' /\ FolderInv' /\ StreamInv' /\ PagerInv'
    BY <1>2, <2>1, StoredStands
  <2>6. RowForward
    BY <1>1, <2>1, RowStands
  <2>7. QED
    BY <2>3, <2>4, <2>5, <2>6 DEF HistoryInv
<1>5. CASE ok
  <2> DEFINE base == SnapshotOrInitial.last
  <2>1. /\ Len(log) \in Nat /\ DOMAIN events = (base + 1)..Len(log)
        /\ base \in Nat /\ base <= Len(log) /\ row.last \in Nat /\ row.last <= Len(log)
    BY <1>1, StoredFacts DEF StoredInv
  <2>2. writer[w].expected = Len(log)
    <3>1. writer[w].expected \in Nat /\ writer[w].expected <= Len(log)
          /\ (snapshot = NoSnapshot \/ snapshot.last <= writer[w].expected)
      BY <1>1, <1>2 DEF HistoryType, WriterInv, WriterOk
    <3>2. base <= writer[w].expected
      BY <3>1 DEF SnapshotOrInitial, InitialProjection
    <3>3. writer[w].expected + 1 \notin (base + 1)..Len(log)
      BY <1>5, <2>1 DEF Taken
    <3>4. QED
      BY <3>1, <3>2, <3>3, <2>1
  <2>3. seq = Len(log) + 1
    BY <2>2
  <2>4. /\ events' = Inserted(Len(log) + 1, kind) /\ log' = Append(log, kind)
        /\ row' = next
        /\ next = FoldRunEvents(ReadEvents(Inserted(Len(log) + 1, kind), row.last), row)
        /\ next.state # Rejected.state
    BY <1>2, <1>5, <2>3
  <2> HIDE DEF next, seq, ok
  <2>5. ~IsClosed(log) /\ next = StateAt(Append(log, kind), Len(log) + 1)
    BY <1>1, <1>3, <2>4, FoldOfCommit
  <2>6. Len(log') = Len(log) + 1
    BY <1>1, <2>4 DEF StoredInv
  <2>7. row' = StateAt(log', Len(log'))
    BY <2>4, <2>5, <2>6
  <2>8. StoredInv' /\ SnapshotOrInitial' = SnapshotOrInitial /\ Grows(log, log')
    BY <1>1, <1>2, <1>3, <2>4, <2>5, <2>7, StoredAppended
  <2>9. SnapshotOrInitial.last <= SnapshotOrInitial'.last
    BY <2>8, <2>1
  <2>10. ~IsTerminalState(row.state)
    BY <1>1, <2>5, StoredFacts
  <2>11. /\ WriterInv'
         /\ writer' \in [Writer -> [pc : {"idle", "record", "check", "insert"}, expected : Nat]]
    BY <1>1, <1>2, <2>8, ReleasedInv
  <2>12. HistoryType'
    BY <1>1, <1>2, <2>11 DEF HistoryType
  <2>13. FolderInv'
    BY <1>1, <1>2, <2>8, <2>9, <2>10, FoldersUnchanged
  <2>14. StreamInv' /\ PagerInv'
    BY <1>1, <1>2, <2>8, <2>9, StreamsUnchanged, PagersUnchanged
  <2>15. RowForward
    <3>1. row'.last = Len(log) + 1
      BY <2>6, <2>7 DEF StateAt
    <3>2. QED
      BY <3>1, <2>1, <2>10 DEF RowForward
  <2>16. QED
    BY <2>8, <2>11, <2>12, <2>13, <2>14, <2>15 DEF HistoryInv
<1>6. QED
  BY <1>4, <1>5

(* The history read from its first number is that of an open run only when  *)
(* the log is open and nothing is pruned.                                   *)
LEMMA WholeHistoryOpen ==
  ASSUME StoredInv, NEW seen, seen = FoldRunEvents(ReadEvents(events, 0), InitialProjection),
         DOMAIN events # {}, ~IsTerminalState(seen.state)
  PROVE  seen.last = Len(log) /\ OpenThrough(log, 1, Len(log))
<1> DEFINE base == SnapshotOrInitial.last
<1>1. /\ log \in Seq(Kind) /\ Len(log) \in Nat /\ Len(log) >= 1
      /\ OpenThrough(log, 1, Len(log) - 1)
      /\ DOMAIN events = (base + 1)..Len(log) /\ base \in Nat /\ base <= Len(log)
  BY StoredFacts DEF StoredInv
<1>2. ReadEvents(events, 0) = Slice(log, base, Len(log))
  BY <1>1, StoredReads
<1>3. InitialProjection = StateAt(log, 0)
  BY DEF InitialProjection, StateAt
<1> HIDE DEF base
<1>4. base = 0
  <2>1. SUFFICES ASSUME base # 0
                 PROVE  FALSE
    OBVIOUS
  <2> DEFINE es == Slice(log, base, Len(log))
  <2>2. base + 1 <= Len(log)
    BY <1>1
  <2>3. Len(es) = Len(log) - base /\ Len(es) \in Nat \ {0}
        /\ es[1].seq = base + 1
    BY <1>1, <2>2 DEF Slice
  <2>4. es[1].seq # InitialProjection.last + 1
    BY <1>1, <2>1, <2>3 DEF InitialProjection
  <2> HIDE DEF es
  <2>5. FoldRunEvents(es, InitialProjection) = Rejected
    BY <2>3, <2>4, FoldOfGap
  <2>6. seen = Rejected
    BY <2>5, <1>2 DEF es
  <2>7. QED
    BY <2>6 DEF Rejected, IsTerminalState
<1>5. seen = StateAt(log, Len(log))
  <2>1. FoldRunEvents(Slice(log, 0, Len(log)), StateAt(log, 0)) = StateAt(log, Len(log))
    BY <1>1, FoldWithin
  <2>2. QED
    BY <2>1, <1>2, <1>3, <1>4
<1>6. Len(log) \in 0..Len(log)
  BY <1>1
<1>7. seen.last = Len(log) /\ ~IsClosed(log)
  BY <1>1, <1>5, <1>6, StateAtFacts
<1>8. OpenThrough(log, 1, Len(log))
  <2>1. \A k \in 1..Len(log) : k \in 1..(Len(log) - 1) \/ k = Len(log)
    BY <1>1
  <2>2. QED
    BY <2>1, <1>1, <1>7 DEF OpenThrough, IsClosed
<1>9. QED
  BY <1>7, <1>8

(* One writer's record changes and the store stands.                        *)
LEMMA WriterStep ==
  ASSUME HistoryType, WriterInv, NEW w \in Writer,
         NEW wr \in [pc : {"idle", "record", "check", "insert"}, expected : Nat],
         writer' = [writer EXCEPT ![w] = wr], WriterOk(w, wr, lock, log, snapshot),
         UNCHANGED <<log, snapshot, lock, folder, stream, pager, faults>>
  PROVE  HistoryType' /\ WriterInv'
<1>1. HistoryType'
  BY DEF HistoryType
<1>2. \A v \in Writer : writer'[v] = IF v = w THEN wr ELSE writer[v]
  BY DEF HistoryType
<1>3. WriterInv'
  BY <1>2 DEF WriterInv
<1>4. QED
  BY <1>1, <1>3

(* What was read of an open run is its whole log.                           *)
LEMMA TimeoutReadInv ==
  ASSUME HistoryInv, NEW w \in Writer, TimeoutRead(w)
  PROVE  HistoryInv'
<1> DEFINE seen == FoldRunEvents(ReadEvents(events, 0), InitialProjection)
           wr == [pc |-> "check", expected |-> seen.last]
<1>1. HistoryType /\ StoredInv /\ WriterInv
  BY DEF HistoryInv
<1>2. /\ DOMAIN events # {} /\ ~IsTerminalState(seen.state)
      /\ writer' = [writer EXCEPT ![w] = wr]
      /\ UNCHANGED <<log, events, snapshot, row, lock, folder, stream, pager, faults>>
  BY DEF TimeoutRead
<1> HIDE DEF seen
<1>3. seen.last = Len(log) /\ OpenThrough(log, 1, Len(log))
  BY <1>1, <1>2, WholeHistoryOpen DEF seen
<1>4. Len(log) \in Nat
  BY <1>1, StoredFacts
<1>5. wr \in [pc : {"idle", "record", "check", "insert"}, expected : Nat]
      /\ WriterOk(w, wr, lock, log, snapshot)
  BY <1>3, <1>4 DEF WriterOk
<1> HIDE DEF wr
<1>6. HistoryType' /\ WriterInv'
  BY <1>1, <1>2, <1>5, WriterStep
<1>7. StoredInv' /\ FolderInv' /\ StreamInv' /\ PagerInv'
  BY <1>2, StoredStands
<1>8. QED
  BY <1>6, <1>7 DEF HistoryInv

(* Past the check the log still ends where it was read.                     *)
LEMMA AppendCheckInv ==
  ASSUME HistoryInv, NEW w \in Writer, AppendCheck(w)
  PROVE  HistoryInv'
<1> DEFINE wr == IF CurrentSequence = writer[w].expected
                   THEN [writer[w] EXCEPT !.pc = "insert"] ELSE IdleWriter
<1>1. HistoryType /\ StoredInv /\ WriterInv
  BY DEF HistoryInv
<1>2. /\ writer[w].pc = "check" /\ writer' = [writer EXCEPT ![w] = wr]
      /\ UNCHANGED <<log, events, snapshot, row, lock, folder, stream, pager, faults>>
  BY DEF AppendCheck
<1>3. CurrentSequence = Len(log) /\ Len(log) \in Nat /\ Len(log) >= 1
  BY <1>1, StoredFacts
<1>4. writer[w] \in [pc : {"idle", "record", "check", "insert"}, expected : Nat]
      /\ WriterOk(w, writer[w], lock, log, snapshot)
  BY <1>1 DEF HistoryType, WriterInv
<1>5. wr \in [pc : {"idle", "record", "check", "insert"}, expected : Nat]
      /\ WriterOk(w, wr, lock, log, snapshot)
  <2>1. CASE CurrentSequence = writer[w].expected
    <3>1. wr.pc = "insert" /\ wr.expected = Len(log)
          /\ wr \in [pc : {"idle", "record", "check", "insert"}, expected : Nat]
      BY <2>1, <1>3, <1>4
    <3>2. OpenThrough(log, 1, Len(log))
      BY <2>1, <1>2, <1>3, <1>4 DEF WriterOk
    <3>3. ~IsClosed(log)
      BY <3>2, <1>3 DEF OpenThrough, IsClosed
    <3>4. snapshot = NoSnapshot
      BY <3>3, <1>1 DEF StoredInv
    <3> HIDE DEF wr
    <3>5. QED
      BY <3>1, <3>2, <3>4, <1>3 DEF WriterOk
  <2>2. CASE CurrentSequence # writer[w].expected
    <3>1. wr = IdleWriter
      BY <2>2
    <3> HIDE DEF wr
    <3>2. QED
      BY <3>1, <1>3, IdleWriterOk DEF IdleWriter
  <2>3. QED
    BY <2>1, <2>2
<1> HIDE DEF wr
<1>6. HistoryType' /\ WriterInv'
  BY <1>1, <1>2, <1>5, WriterStep
<1>7. StoredInv' /\ FolderInv' /\ StreamInv' /\ PagerInv'
  BY <1>2, StoredStands
<1>8. QED
  BY <1>6, <1>7 DEF HistoryInv

(* An optimistic append goes behind the log it read, or nowhere.            *)
LEMMA AppendInsertInv ==
  ASSUME HistoryInv, NEW w \in Writer, AppendInsert(w)
  PROVE  HistoryInv'
<1> DEFINE seq == writer[w].expected + 1
           kind == "run_timed_out"
<1>1. HistoryType /\ StoredInv /\ WriterInv /\ FolderInv /\ StreamInv /\ PagerInv
  BY DEF HistoryInv
<1>2. /\ writer[w].pc = "insert" /\ writer' = [writer EXCEPT ![w] = IdleWriter]
      /\ Taken(seq) => UNCHANGED <<events, log>>
      /\ ~Taken(seq) => events' = Inserted(seq, kind) /\ log' = Append(log, kind)
      /\ UNCHANGED <<snapshot, row, lock, folder, stream, pager, faults>>
  BY DEF AppendInsert
<1>3. kind \in Kind
  BY KindFacts
<1>4. log \in Seq(Kind) /\ Len(log) \in Nat /\ Len(log) >= 1
      /\ OpenThrough(log, 1, Len(log) - 1)
  BY <1>1, StoredFacts
<1>5. StoredInv' /\ Grows(log, log') /\ SnapshotOrInitial.last <= SnapshotOrInitial'.last
      /\ (IsTerminalState(row.state) => log' = log)
  <2>1. SnapshotOrInitial.last \in Nat /\ SnapshotOrInitial.last <= SnapshotOrInitial.last
    BY <1>1 DEF StoredInv
  <2>2. CASE Taken(seq)
    <3>1. UNCHANGED <<log, events, snapshot, row>>
      BY <2>2, <1>2
    <3>2. StoredInv' /\ SnapshotOrInitial' = SnapshotOrInitial
      BY <1>1, <3>1, StoredUnchanged
    <3>3. QED
      BY <3>1, <3>2, <2>1 DEF Grows
  <2>3. CASE ~Taken(seq)
    <3>1. /\ snapshot = NoSnapshot /\ writer[w].expected \in Nat
          /\ writer[w].expected <= Len(log) /\ OpenThrough(log, 1, writer[w].expected)
      BY <1>1, <1>2 DEF HistoryType, WriterInv, WriterOk
    <3>2. DOMAIN events = 1..Len(log)
      <4>1. SnapshotOrInitial.last + 1 = 1
        BY <3>1 DEF SnapshotOrInitial, InitialProjection
      <4>2. QED
        BY <4>1, <1>1, StoredFacts
    <3>3. writer[w].expected = Len(log)
      BY <2>3, <3>1, <3>2, <1>4 DEF Taken
    <3>4. ~IsClosed(log)
      BY <3>1, <3>3, <1>4 DEF OpenThrough, IsClosed
    <3>5. events' = Inserted(Len(log) + 1, kind) /\ log' = Append(log, kind)
      BY <2>3, <1>2, <3>3
    <3> HIDE DEF seq, kind
    <3>6. StoredInv' /\ SnapshotOrInitial' = SnapshotOrInitial /\ Grows(log, log')
      BY <1>1, <1>2, <1>3, <3>4, <3>5, StoredAppended
    <3>7. ~IsTerminalState(row.state)
      BY <1>1, <3>4, StoredFacts
    <3>8. QED
      BY <3>6, <3>7, <2>1
  <2>4. QED
    BY <2>2, <2>3
<1>6. Len(log') \in Nat
  BY <1>4, <1>5, GrowsFacts
<1>7. HistoryType'
  <2>1. IdleWriter \in [pc : {"idle", "record", "check", "insert"}, expected : Nat]
    BY DEF IdleWriter
  <2>2. QED
    BY <1>1, <1>2, <2>1 DEF HistoryType
<1>8. WriterInv'
  <2>1. SUFFICES ASSUME NEW v \in Writer
                 PROVE  WriterOk(v, writer'[v], lock, log', snapshot)
    BY <1>2 DEF WriterInv
  <2>2. writer'[v] = IF v = w THEN IdleWriter ELSE writer[v]
    BY <1>1, <1>2 DEF HistoryType
  <2>3. WriterOk(v, writer[v], lock, log, snapshot) /\ writer[v].expected \in Nat
    BY <1>1 DEF WriterInv, HistoryType
  <2>4. WriterOk(v, writer[v], lock, log', snapshot)
    BY <2>3, <1>4, <1>5, WriterKept
  <2>5. WriterOk(v, IdleWriter, lock, log', snapshot)
    BY <1>6, IdleWriterOk
  <2>6. QED
    BY <2>2, <2>4, <2>5
<1>9. FolderInv'
  BY <1>1, <1>2, <1>5, FoldersUnchanged
<1>10. StreamInv' /\ PagerInv'
  BY <1>1, <1>2, <1>5, StreamsUnchanged, PagersUnchanged
<1>11. QED
  BY <1>5, <1>7, <1>8, <1>9, <1>10 DEF HistoryInv

-----------------------------------------------------------------------------
(* Folders *)

FolderType == [pc : {"idle", "read", "fold", "again"}, mode : {None, "refresh", "rebuild"},
               observed : Projection, seen : Seq([seq : Nat, kind : Kind])]

(* What is read of the stored events are events with their numbers.         *)
LEMMA ReadType ==
  ASSUME StoredInv, NEW from \in Nat
  PROVE  ReadEvents(events, from) \in Seq([seq : Nat, kind : Kind])
<1>1. log \in Seq(Kind) /\ Len(log) \in Nat /\ SnapshotOrInitial.last \in Nat
      /\ SnapshotOrInitial.last <= Len(log)
  BY StoredFacts DEF StoredInv
<1>2. ASSUME NEW a \in Nat, a <= Len(log)
      PROVE  Slice(log, a, Len(log)) \in Seq([seq : Nat, kind : Kind])
  <2>1. \A i \in 1..(Len(log) - a) : a + i \in Nat /\ a + i \in 1..Len(log)
    BY <1>1, <1>2
  <2>2. \A i \in 1..(Len(log) - a) :
          [seq |-> a + i, kind |-> log[a + i]] \in [seq : Nat, kind : Kind]
    BY <2>1, <1>1
  <2>3. Len(log) - a \in Nat
    BY <1>1, <1>2
  <2> DEFINE n == Len(log) - a
             R == [seq : Nat, kind : Kind]
             es == Slice(log, a, Len(log))
  <2>4. es \in [1..n -> R]
    BY <2>2 DEF Slice
  <2>5. n \in Nat
    BY <2>3
  <2> HIDE DEF n, R, es
  <2>6. es \in Seq(R)
    BY <2>4, <2>5
  <2>7. QED
    BY <2>6 DEF R, es
<1>3. CASE from <= SnapshotOrInitial.last
  BY <1>1, <1>2, <1>3, StoredReads
<1>4. CASE SnapshotOrInitial.last <= from /\ from <= Len(log)
  BY <1>1, <1>2, <1>4, StoredReads
<1>5. CASE Len(log) <= from
  <2>1. << >> \in Seq([seq : Nat, kind : Kind])
    OBVIOUS
  <2>2. ReadEvents(events, from) = << >>
    BY <1>5, StoredReads
  <2>3. QED
    BY <2>1, <2>2
<1>6. \/ from <= SnapshotOrInitial.last
      \/ SnapshotOrInitial.last <= from /\ from <= Len(log)
      \/ Len(log) <= from
  BY <1>1
<1>7. QED
  BY <1>3, <1>4, <1>5, <1>6

(* One folder's record changes and the store stands.                        *)
LEMMA FolderStep ==
  ASSUME HistoryType, FolderInv, NEW f \in Folder, NEW fd \in FolderType,
         folder' = [folder EXCEPT ![f] = fd],
         FolderOk(fd, log, SnapshotOrInitial, row),
         UNCHANGED <<log, snapshot, row, writer, stream, pager, faults>>
  PROVE  HistoryType' /\ FolderInv'
<1>1. folder' \in [Folder -> FolderType]
  BY DEF HistoryType, FolderType
<1>2. HistoryType'
  BY <1>1 DEF HistoryType, FolderType
<1>3. \A g \in Folder : folder'[g] = IF g = f THEN fd ELSE folder[g]
  BY DEF HistoryType
<1>4. FolderInv'
  BY <1>3 DEF FolderInv, SnapshotOrInitial
<1>5. QED
  BY <1>2, <1>4

(* Where a fold starts.                                                     *)
LEMMA StartFacts ==
  ASSUME StoredInv, NEW mode
  PROVE  /\ StartFrom(mode) \in Projection
         /\ StartFrom(mode).last <= Len(log)
         /\ SnapshotOrInitial.last <= StartFrom(mode).last
         /\ StartFrom(mode) = StateAt(log, StartFrom(mode).last)
         /\ mode = "refresh" => StartFrom(mode) = row
<1>1. CASE mode = "refresh"
  BY <1>1, StoredFacts DEF StartFrom, StoredInv
<1>2. CASE mode # "refresh"
  <2>1. SnapshotOrInitial.last \in Nat /\ SnapshotOrInitial.last <= Len(log)
        /\ SnapshotOrInitial.last <= SnapshotOrInitial.last
    BY StoredFacts DEF StoredInv
  <2>2. QED
    BY <1>2, <2>1, StoredFacts DEF StartFrom, StoredInv
<1>3. QED
  BY <1>1, <1>2

(* A fold begins where the row or the snapshot is.                          *)
LEMMA FoldObserveInv ==
  ASSUME HistoryInv, NEW f \in Folder, NEW mode \in {"refresh", "rebuild"}, FoldObserve(f, mode)
  PROVE  HistoryInv'
<1> DEFINE fd == [pc |-> "read", mode |-> mode, observed |-> StartFrom(mode), seen |-> << >>]
<1>1. HistoryType /\ StoredInv /\ FolderInv
  BY DEF HistoryInv
<1>2. /\ \/ folder[f].pc = "idle"
            /\ (mode = "rebuild" => OpenRebuilds \/ IsTerminalState(row.state))
         \/ folder[f].pc = "again" /\ folder[f].mode = mode
      /\ folder' = [folder EXCEPT ![f] = fd]
      /\ UNCHANGED <<log, events, snapshot, row, lock, writer, stream, pager, faults>>
  BY DEF FoldObserve
<1>3. StartFrom(mode) \in Projection /\ StartFrom(mode).last <= Len(log)
  BY <1>1, StartFacts
<1>4. FolderOk(folder[f], log, SnapshotOrInitial, row)
  BY <1>1 DEF FolderInv
<1>5. mode = "rebuild" /\ ~OpenRebuilds => IsTerminalState(row.state)
  BY <1>2, <1>4 DEF FolderOk
<1>6. fd \in FolderType
  BY <1>3 DEF FolderType
<1>7. FolderOk(fd, log, SnapshotOrInitial, row)
  BY <1>3, <1>5 DEF FolderOk
<1> HIDE DEF fd
<1>8. HistoryType' /\ FolderInv'
  BY <1>1, <1>2, <1>6, <1>7, FolderStep
<1>9. StoredInv' /\ WriterInv' /\ StreamInv' /\ PagerInv'
  BY <1>2, StoredStands
<1>10. QED
  BY <1>8, <1>9 DEF HistoryInv

(* What it reads goes on from there, unless that was pruned meanwhile.      *)
LEMMA FoldReadInv ==
  ASSUME HistoryInv, NEW f \in Folder, FoldRead(f)
  PROVE  HistoryInv'
<1> DEFINE o == folder[f].observed
           seen == ReadEvents(events, o.last)
           fd == [folder[f] EXCEPT !.pc = "fold", !.seen = seen]
<1>1. HistoryType /\ StoredInv /\ FolderInv
  BY DEF HistoryInv
<1>2. /\ folder[f].pc = "read"
      /\ folder' = [folder EXCEPT ![f].pc = "fold",
                                  ![f].seen = ReadEvents(events, folder[f].observed.last)]
      /\ UNCHANGED <<log, events, snapshot, row, lock, writer, stream, pager, faults>>
  BY DEF FoldRead
<1>3. folder[f] \in FolderType /\ FolderOk(folder[f], log, SnapshotOrInitial, row)
  BY <1>1 DEF FolderInv, HistoryType, FolderType
<1>4. o \in Projection /\ o.last \in Nat /\ o.last <= Len(log) /\ Len(log) \in Nat
      /\ folder[f].mode \in {"refresh", "rebuild"}
  BY <1>1, <1>2, <1>3, StoredFacts DEF FolderType, Projection, FolderOk
<1>5. folder' = [folder EXCEPT ![f] = fd]
  BY <1>2
<1>6. seen \in Seq([seq : Nat, kind : Kind])
  BY <1>1, <1>4, ReadType
<1>7. SnapshotOrInitial.last <= o.last => seen = Slice(log, o.last, Len(log))
  BY <1>1, <1>4, StoredReads
<1>8. fd \in FolderType /\ fd.mode = folder[f].mode /\ fd.observed = o /\ fd.seen = seen
  <2> HIDE DEF seen
  <2> DEFINE r(x, y) == [x EXCEPT !.pc = "fold", !.seen = y]
             R == Seq([seq : Nat, kind : Kind])
  <2>1. ASSUME NEW x \in FolderType, NEW y \in R
        PROVE  r(x, y) \in FolderType /\ r(x, y).mode = x.mode
               /\ r(x, y).observed = x.observed /\ r(x, y).seen = y
    <3>1. FolderType = [pc : {"idle", "read", "fold", "again"},
                        mode : {None, "refresh", "rebuild"}, observed : Projection, seen : R]
      BY DEF FolderType
    <3> HIDE DEF R
    <3>2. QED
      BY <3>1
  <2>2. fd = r(folder[f], seen) /\ seen \in R
    BY <1>6
  <2> HIDE DEF r, fd, R
  <2>3. QED
    BY <1>3, <2>1, <2>2
<1> HIDE DEF seen, o, fd
<1>9. FolderOk(fd, log, SnapshotOrInitial, row)
  <2>1. fd.mode = "rebuild" /\ ~OpenRebuilds => IsTerminalState(row.state)
    BY <1>2, <1>3, <1>8 DEF FolderOk
  <2>2. Len(log) \in o.last..Len(log)
    BY <1>4
  <2>3. SnapshotOrInitial.last <= fd.observed.last =>
          \E m \in fd.observed.last..Len(log) :
            /\ fd.seen = Slice(log, fd.observed.last, m)
            /\ fd.mode = "rebuild" /\ ~OpenRebuilds => m = Len(log)
    BY <1>7, <1>8, <2>2
  <2>4. fd.mode \in {"refresh", "rebuild"} /\ fd.observed.last <= Len(log)
    BY <1>4, <1>8
  <2>5. QED
    BY <2>1, <2>3, <2>4 DEF FolderOk
<1>10. HistoryType' /\ FolderInv'
  BY <1>1, <1>2, <1>5, <1>8, <1>9, FolderStep
<1>11. StoredInv' /\ WriterInv' /\ StreamInv' /\ PagerInv'
  BY <1>2, StoredStands
<1>12. QED
  BY <1>10, <1>11 DEF HistoryInv

(* What a fold writes: a later projection of the log, of which nothing but  *)
(* the rebuild of an open run goes back behind the row.                     *)
LEMMA FoldWrites ==
  ASSUME StoredInv, NEW fd \in FolderType, FolderOk(fd, log, SnapshotOrInitial, row),
         fd.pc = "fold", StartFrom(fd.mode).last = fd.observed.last,
         NEW next, next = FoldRunEvents(fd.seen, StartFrom(fd.mode))
  PROVE  \E m \in SnapshotOrInitial.last..Len(log) :
           /\ next = StateAt(log, m)
           /\ ~OpenRebuilds => row.last <= m
<1> DEFINE start == StartFrom(fd.mode)
           base == SnapshotOrInitial.last
<1>1. /\ log \in Seq(Kind) /\ Len(log) \in Nat /\ Len(log) >= 1
      /\ OpenThrough(log, 1, Len(log) - 1) /\ row.last \in Nat /\ row.last <= Len(log)
  BY StoredFacts DEF Projection
<1>2. /\ start.last \in Nat /\ base \in Nat /\ base <= start.last
      /\ start = StateAt(log, start.last)
      /\ fd.mode = "refresh" => start = row
  BY StartFacts DEF StoredInv, Projection
<1>3. PICK m \in start.last..Len(log) :
        /\ fd.seen = Slice(log, start.last, m)
        /\ fd.mode = "rebuild" /\ ~OpenRebuilds => m = Len(log)
  BY <1>2 DEF FolderOk
<1>4. m \in Nat /\ start.last <= m /\ m <= Len(log) /\ m \in base..Len(log)
  BY <1>1, <1>2, <1>3
<1> HIDE DEF start, base
<1>5. next = StateAt(log, m)
  BY <1>1, <1>2, <1>3, <1>4, FoldWithin DEF start
<1>6. ~OpenRebuilds => row.last <= m
  <2>1. CASE fd.mode = "refresh"
    BY <2>1, <1>2, <1>4
  <2>2. CASE fd.mode = "rebuild"
    BY <2>2, <1>1, <1>3, <1>4
  <2>3. fd.mode \in {"refresh", "rebuild"}
    BY DEF FolderOk
  <2>4. QED
    BY <2>1, <2>2, <2>3
<1>7. QED
  BY <1>4, <1>5, <1>6 DEF base

(* What it writes is a projection of the log, not behind the row.           *)
LEMMA FoldCommitInv ==
  ASSUME HistoryInv, NEW f \in Folder, FoldCommit(f)
  PROVE  HistoryInv' /\ (~OpenRebuilds => RowForward)
<1> DEFINE start == StartFrom(folder[f].mode)
           next  == FoldRunEvents(folder[f].seen, start)
           moved == start.last # folder[f].observed.last
           fd == IF moved THEN [IdleFolder EXCEPT !.pc = "again", !.mode = folder[f].mode]
                 ELSE IdleFolder
           base == SnapshotOrInitial
<1>1. HistoryType /\ StoredInv /\ WriterInv /\ FolderInv /\ StreamInv /\ PagerInv
  BY DEF HistoryInv
<1>2. /\ folder[f].pc = "fold"
      /\ row' = IF moved \/ next.state = Rejected.state THEN row ELSE next
      /\ folder' = [folder EXCEPT ![f] = fd]
      /\ UNCHANGED <<log, events, snapshot, lock, writer, stream, pager, faults>>
  BY DEF FoldCommit
<1>3. folder[f] \in FolderType /\ FolderOk(folder[f], log, base, row)
  BY <1>1 DEF FolderInv, HistoryType, FolderType
<1>4. /\ log \in Seq(Kind) /\ Len(log) \in Nat /\ Len(log) >= 1
      /\ OpenThrough(log, 1, Len(log) - 1) /\ row.last \in Nat /\ row.last <= Len(log)
      /\ base.last \in Nat /\ base.last <= row.last
      /\ IsTerminalState(row.state) <=> row.last = Len(log) /\ IsClosed(log)
      /\ row = StateAt(log, row.last)
  BY <1>1, StoredFacts DEF Projection, StoredInv
<1>5. \E m \in base.last..Len(log) :
        /\ row' = StateAt(log, m)
        /\ ~OpenRebuilds => row.last <= m
  <2>1. CASE moved \/ next.state = Rejected.state
    <3>1. row' = row /\ row.last \in base.last..Len(log) /\ row.last <= row.last
      BY <1>2, <1>4, <2>1
    <3>2. QED
      BY <3>1, <1>4
  <2>2. CASE ~(moved \/ next.state = Rejected.state)
    <3>1. row' = next /\ StartFrom(folder[f].mode).last = folder[f].observed.last
      BY <1>2, <2>2
    <3>2. QED
      BY <1>1, <1>2, <1>3, <3>1, FoldWrites
  <2>3. QED
    BY <2>1, <2>2
<1>6. PICK m \in base.last..Len(log) :
        /\ row' = StateAt(log, m)
        /\ ~OpenRebuilds => row.last <= m
  BY <1>5
<1>7. m \in 0..Len(log) /\ row'.last = m
      /\ (IsTerminalState(row'.state) <=> m = Len(log) /\ IsClosed(log))
  <2>1. m \in 0..Len(log)
    BY <1>4, <1>6
  <2>2. StateAt(log, m).last = m
        /\ (IsTerminalState(StateAt(log, m).state) <=> m = Len(log) /\ IsClosed(log))
    BY <2>1, <1>4, StateAtFacts
  <2>3. QED
    BY <1>6, <2>1, <2>2
<1>8. SnapshotOrInitial' = base
  BY <1>2 DEF SnapshotOrInitial
<1>9. StoredInv'
  BY <1>1, <1>2, <1>6, <1>7, <1>8 DEF StoredInv
<1>10. ~OpenRebuilds => RowForward
  <2>1. ASSUME ~OpenRebuilds, IsTerminalState(row.state)
        PROVE  row' = row
    <3>1. m = Len(log) /\ row.last = Len(log)
      BY <1>4, <1>6, <1>7, <2>1
    <3>2. QED
      BY <3>1, <1>4, <1>6
  <2>2. ~OpenRebuilds => row.last <= row'.last
    BY <1>6, <1>7
  <2>3. QED
    BY <2>1, <2>2, <1>4, <1>7 DEF RowForward
<1>11. ~OpenRebuilds /\ IsTerminalState(row.state) => IsTerminalState(row'.state)
  BY <1>10 DEF RowForward
<1>12. fd \in FolderType
  <2>1. IdleFolder \in FolderType
    <3>1. InitialProjection \in Projection
      BY DEF InitialProjection, Projection, RunState
    <3>2. << >> \in Seq([seq : Nat, kind : Kind])
      OBVIOUS
    <3>3. QED
      BY <3>1, <3>2 DEF IdleFolder, FolderType
  <2>2. [IdleFolder EXCEPT !.pc = "again", !.mode = folder[f].mode] \in FolderType
    BY <2>1, <1>3 DEF FolderType
  <2>3. QED
    BY <2>1, <2>2
<1>13. folder' \in [Folder -> FolderType]
  <2> HIDE DEF fd
  <2>1. QED
    BY <1>1, <1>2, <1>12 DEF HistoryType, FolderType
<1>14. HistoryType'
  BY <1>1, <1>2, <1>13 DEF HistoryType, FolderType
<1>15. FolderInv'
  <2>1. SUFFICES ASSUME NEW g \in Folder
                 PROVE  FolderOk(folder'[g], log, base, row')
    BY <1>2, <1>8 DEF FolderInv
  <2>2. CASE g = f
    <3>1. folder'[g] = fd
      BY <1>1, <1>2, <2>2 DEF HistoryType
    <3>2. fd.pc \in {"idle", "again"} /\ fd.observed.last = 0
          /\ (fd.pc = "again" => fd.mode = folder[f].mode)
      BY DEF IdleFolder, InitialProjection
    <3>3. fd.pc = "again" => fd.mode \in {"refresh", "rebuild"}
      BY <1>2, <1>3, <3>2 DEF FolderOk
    <3>4. fd.pc = "again" /\ fd.mode = "rebuild" /\ ~OpenRebuilds =>
            IsTerminalState(row'.state)
      BY <1>2, <1>3, <1>11, <3>2 DEF FolderOk
    <3> HIDE DEF fd
    <3>5. QED
      BY <3>1, <3>2, <3>3, <3>4, <1>4 DEF FolderOk
  <2>3. CASE g # f
    <3>1. folder'[g] = folder[g]
      BY <1>1, <1>2, <2>3 DEF HistoryType
    <3>2. FolderOk(folder[g], log, base, row) /\ folder[g].observed.last \in Nat
      BY <1>1 DEF FolderInv, HistoryType, Projection
    <3>3. Grows(log, log)
      BY DEF Grows
    <3>4. base.last <= base.last
      BY <1>4
    <3>5. FolderOk(folder[g], log, base, row')
      BY <1>4, <1>11, <3>2, <3>3, <3>4, FolderKept
    <3>6. QED
      BY <3>1, <3>5
  <2>4. QED
    BY <2>2, <2>3
<1>16. Grows(log, log') /\ SnapshotOrInitial.last <= SnapshotOrInitial'.last
  BY <1>2, <1>4, <1>8 DEF Grows
<1>17. WriterInv'
  BY <1>1, <1>2, <1>16, WritersUnchanged
<1>18. StreamInv' /\ PagerInv'
  BY <1>1, <1>2, <1>9, <1>16, StreamsUnchanged, PagersUnchanged
<1>19. QED
  BY <1>9, <1>10, <1>14, <1>15, <1>17, <1>18 DEF HistoryInv

-----------------------------------------------------------------------------
(* The compactor *)

(* The first k of a slice are a slice.                                      *)
LEMMA SliceFront ==
  ASSUME NEW h, NEW a \in Nat, NEW b \in Nat, NEW k \in Nat, a + k <= b
  PROVE  SubSeq(Slice(h, a, b), 1, k) = Slice(h, a, a + k)
<1> DEFINE es == Slice(h, a, b)
           front == Slice(h, a, a + k)
<1>1. Len(es) = b - a /\ b - a \in Nat /\ k <= b - a /\ (a + k) - a = k
  BY DEF Slice
<1>2. front = [i \in 1..k |-> es[i]]
  <2>1. \A i \in 1..k : i \in 1..(b - a) /\ es[i] = [seq |-> a + i, kind |-> h[a + i]]
    BY <1>1 DEF Slice
  <2>2. front = [i \in 1..k |-> [seq |-> a + i, kind |-> h[a + i]]]
    BY <1>1 DEF Slice
  <2> HIDE DEF es, front
  <2>3. QED
    BY <2>1, <2>2
<1> HIDE DEF es, front
<1>3. SubSeq(es, 1, k) = [i \in 1..k |-> es[i]]
  BY <1>1
<1>4. QED
  BY <1>2, <1>3 DEF es, front

(* The compactor replaces events by the projection behind them.             *)
LEMMA CompactRunInv ==
  ASSUME HistoryInv, CompactRun
  PROVE  HistoryInv'
<1> DEFINE base   == SnapshotOrInitial
           N      == Len(log)
           found  == ReadEvents(events, base.last)
           cut    == IF Len(found) > TailEvents THEN Len(found) - TailEvents ELSE 0
           folded == FoldRunEvents(SubSeq(found, 1, cut), base)
           m      == base.last + cut
<1>1. HistoryType /\ StoredInv /\ WriterInv /\ FolderInv /\ StreamInv /\ PagerInv
  BY DEF HistoryInv
<1>2. /\ lock = None /\ IsTerminalState(row.state) /\ RetentionPassed
      /\ snapshot' = folded
      /\ events' = [s \in {n \in DOMAIN events : n > folded.last} |-> events[s]]
      /\ UNCHANGED <<log, row, lock, writer, folder, stream, pager, faults>>
  BY DEF CompactRun
<1>3. /\ log \in Seq(Kind) /\ N \in Nat /\ N >= 1
      /\ OpenThrough(log, 1, N - 1)
      /\ base.last \in Nat /\ base.last <= N /\ base = StateAt(log, base.last)
      /\ events = Kept(log, base.last, N)
      /\ row.last = N /\ IsClosed(log) /\ row = StateAt(log, row.last)
  BY <1>1, <1>2, StoredFacts DEF StoredInv
<1>4. found = Slice(log, base.last, N)
  BY <1>1, <1>3, StoredReads
<1>5. Len(found) = N - base.last /\ Len(found) \in Nat
  BY <1>3, <1>4 DEF Slice
<1>6. cut \in Nat /\ cut <= N - base.last
  BY <1>5, HistoryAssumption
<1>7. m \in Nat /\ base.last <= m /\ m <= N
  <2> HIDE DEF base, cut, N
  <2>1. QED
    BY <1>3, <1>6
<1>8. folded = StateAt(log, m)
  <2> HIDE DEF base, cut, found, N
  <2>1. SubSeq(found, 1, cut) = Slice(log, base.last, m)
    <3>1. base.last \in Nat /\ N \in Nat /\ cut \in Nat /\ base.last + cut <= N
      BY <1>3, <1>6, <1>7
    <3>2. SubSeq(Slice(log, base.last, N), 1, cut) = Slice(log, base.last, base.last + cut)
      BY <3>1, SliceFront
    <3>3. QED
      BY <3>2, <1>4
  <2>2. FoldRunEvents(Slice(log, base.last, m), StateAt(log, base.last)) = StateAt(log, m)
    BY <1>3, <1>7, FoldWithin DEF N
  <2>3. QED
    BY <1>3, <2>1, <2>2
<1> HIDE DEF folded, cut, found, m
<1>9. folded.last = m /\ folded.state \in RunState
  <2>1. m \in 0..N
    BY <1>3, <1>7
  <2>2. StateAt(log, m).last = m /\ StateAt(log, m) \in Projection
    BY <1>3, <2>1, StateAtFacts
  <2>3. QED
    BY <1>8, <2>2 DEF Projection
<1>10. snapshot' # NoSnapshot
  BY <1>2, <1>9 DEF NoSnapshot, None, RunState
<1>11. SnapshotOrInitial' = folded
  BY <1>2, <1>10 DEF SnapshotOrInitial
<1>12. events' = Kept(log, m, N)
  <2>1. DOMAIN events = (base.last + 1)..N /\ \A n \in (base.last + 1)..N : events[n] = log[n]
    BY <1>3 DEF Kept
  <2>2. {n \in DOMAIN events : n > m} = (m + 1)..N
    BY <1>3, <1>7, <2>1
  <2>3. \A n \in (m + 1)..N : n \in (base.last + 1)..N
    BY <1>3, <1>7
  <2> HIDE DEF base, N
  <2>4. QED
    BY <1>2, <1>9, <2>1, <2>2, <2>3 DEF Kept
<1>13. StoredInv'
  <2>1. m \in 0..N /\ N \in m..N
    BY <1>3, <1>7
  <2>2. folded.last = m /\ folded = StateAt(log, folded.last)
    BY <1>8, <1>9
  <2>3. log' = log /\ row' = row
    BY <1>2
  <2> HIDE DEF base
  <2>4. QED
    BY <1>3, <1>11, <1>12, <2>1, <2>2, <2>3 DEF StoredInv
<1>14. Grows(log, log') /\ SnapshotOrInitial.last <= SnapshotOrInitial'.last
  BY <1>2, <1>7, <1>9, <1>11 DEF Grows
<1>15. HistoryType'
  BY <1>1, <1>2 DEF HistoryType
<1>16. WriterInv'
  <2>1. SUFFICES ASSUME NEW w \in Writer
                 PROVE  WriterOk(w, writer[w], lock, log, snapshot')
    BY <1>2 DEF WriterInv
  <2>2. WriterOk(w, writer[w], lock, log, snapshot) /\ w # None
    BY <1>1, HistoryAssumption DEF WriterInv
  <2>3. writer[w].pc # "record" /\ writer[w].pc # "insert"
    BY <1>2, <2>2 DEF WriterOk, RetentionPassed
  <2>4. QED
    BY <2>2, <2>3 DEF WriterOk
<1>17. FolderInv'
  BY <1>1, <1>2, <1>13, <1>14, FoldersUnchanged
<1>18. StreamInv' /\ PagerInv'
  BY <1>1, <1>2, <1>13, <1>14, StreamsUnchanged, PagersUnchanged
<1>19. QED
  BY <1>13, <1>15, <1>16, <1>17, <1>18 DEF HistoryInv

-----------------------------------------------------------------------------
(* Readers *)

StreamType == [pc : {"status", "events", "ended", "refused"},
               status : RunState \cup {None}, lastStatus : RunState \cup {None},
               cursor : Nat, got : Seq(Nat), before : Seq(Nat)]

(* The numbers a reader finds behind its cursor: the log to its end, from   *)
(* the cursor on or from where the pruned events end.                       *)
LEMMA NewSeqs ==
  ASSUME StoredInv, NEW c \in Nat, c <= Len(log)
  PROVE  \E a \in c..Len(log) :
           /\ Seqs(ReadEvents(events, c)) = [i \in 1..(Len(log) - a) |-> a + i]
           /\ a = c \/ a = SnapshotOrInitial.last
<1> DEFINE N == Len(log)
           base == SnapshotOrInitial.last
<1>1. N \in Nat /\ base \in Nat /\ base <= N
  BY StoredFacts DEF StoredInv
<1>2. ASSUME NEW a \in c..N
      PROVE  Seqs(Slice(log, a, N)) = [i \in 1..(N - a) |-> a + i]
  <2>1. DOMAIN Slice(log, a, N) = 1..(N - a)
        /\ \A i \in 1..(N - a) : Slice(log, a, N)[i] = [seq |-> a + i, kind |-> log[a + i]]
    BY DEF Slice
  <2>2. QED
    BY <2>1 DEF Seqs
<1>3. CASE base <= c
  <2>1. ReadEvents(events, c) = Slice(log, c, N) /\ c \in c..N
    BY <1>1, <1>3, StoredReads
  <2>2. QED
    BY <2>1, <1>2
<1>4. CASE c <= base
  <2>1. ReadEvents(events, c) = Slice(log, base, N) /\ base \in c..N
    BY <1>1, <1>4, StoredReads
  <2>2. QED
    BY <2>1, <1>2
<1>5. QED
  BY <1>1, <1>3, <1>4

(* The last of ascending numbers is the greatest of them.                   *)
LEMMA LastIsGreatest ==
  ASSUME NEW q \in Seq(Nat), Increasing(q), NEW n \in Nat, Holds(q, n)
  PROVE  n <= LastOf(q, 0)
<1>1. PICK i \in DOMAIN q : q[i] = n
  BY DEF Holds
<1>2. i \in 1..Len(q) /\ Len(q) \in 1..Len(q) /\ q # << >> /\ Len(q) \in Nat
  BY <1>1
<1>3. LastOf(q, 0) = q[Len(q)]
  BY <1>2 DEF LastOf, Last
<1>4. i = Len(q) \/ q[i] < q[Len(q)]
  BY <1>2 DEF Increasing
<1>5. q[Len(q)] \in Nat
  BY <1>2
<1>6. QED
  BY <1>1, <1>3, <1>4, <1>5

(* A timeline and the numbers behind a cursor within it make a timeline     *)
(* that reaches the end of the log when there are any.                      *)
LEMMA MergedTimeline ==
  ASSUME NEW h, Len(h) \in Nat, NEW b \in Nat, NEW q, Timeline(q, h, b),
         NEW c \in Nat, c <= LastOf(q, 0), NEW a \in c..Len(h), a = c \/ a = b,
         NEW new, new = [i \in 1..(Len(h) - a) |-> a + i]
  PROVE  /\ Timeline(MergeEntries(q, new), h, b)
         /\ LastOf(new, c) \in Nat /\ LastOf(new, c) <= LastOf(MergeEntries(q, new), 0)
<1> DEFINE N == Len(h)
           S == Range(q) \cup Range(new)
           got == MergeEntries(q, new)
<1>1. q \in Seq(1..N) /\ Increasing(q) /\ Covered(q, LastOf(q, 0), b)
  BY DEF Timeline
<1>2. /\ \A n : n \in Range(q) <=> Holds(q, n)
      /\ \A n : n \in Range(new) <=> n \in (a + 1)..N
  <2>1. \A n : n \in Range(q) <=> Holds(q, n)
    BY DEF Range, Holds
  <2>2. ASSUME NEW n \in (a + 1)..N
        PROVE  n \in Range(new)
    <3>1. n - a \in 1..(N - a) /\ a + (n - a) = n
      OBVIOUS
    <3>2. QED
      BY <3>1 DEF Range
  <2>3. ASSUME NEW n \in Range(new)
        PROVE  n \in (a + 1)..N
    BY DEF Range
  <2>4. QED
    BY <2>1, <2>2, <2>3
<1>3. S \in SUBSET (1..N)
  <2>1. \A n : Holds(q, n) => n \in 1..N
    BY <1>1 DEF Holds
  <2>2. \A n \in (a + 1)..N : n \in 1..N
    OBVIOUS
  <2>3. QED
    BY <1>2, <2>1, <2>2
<1>4. /\ got \in Seq(S) /\ Increasing(got)
      /\ \A n \in S : Holds(got, n)
  <2>1. got = Ascending(S)
    BY DEF MergeEntries
  <2> HIDE DEF S, got
  <2>2. QED
    BY <1>3, <2>1, AscendingSorts
<1>5. got \in Seq(1..N)
  <2> DEFINE K == 1..N
  <2>1. S \subseteq K
    BY <1>3
  <2> HIDE DEF got, S, K
  <2>2. got \in Seq(K)
    BY <1>4, <2>1
  <2>3. QED
    BY <2>2 DEF K
<1>6. LastOf(q, 0) \in 0..N /\ LastOf(got, 0) \in 0..N
  <2> HIDE DEF got, S
  <2>1. ASSUME NEW z \in Seq(1..N)
        PROVE  LastOf(z, 0) \in 0..N
    BY DEF LastOf, Last
  <2>2. QED
    BY <1>1, <1>5, <2>1
<1>7. Covered(got, LastOf(got, 0), b)
  <2>1. SUFFICES ASSUME NEW k \in 1..N
                 PROVE  Holds(got, k) \/ k <= b
    BY <1>6 DEF Covered
  <2>2. CASE k <= a
    <3>1. k <= c \/ k <= b
      BY <2>2
    <3>2. k <= c => k \in 1..LastOf(q, 0)
      BY <1>6
    <3>3. k <= c => Holds(q, k) \/ k <= b
      BY <1>1, <3>2 DEF Covered
    <3>4. QED
      BY <3>1, <3>3, <1>2, <1>4
  <2>3. CASE k > a
    <3>1. k \in (a + 1)..N
      BY <2>3
    <3>2. QED
      BY <3>1, <1>2, <1>4
  <2>4. QED
    BY <2>2, <2>3
<1>8. Timeline(got, h, b)
  BY <1>4, <1>5, <1>7 DEF Timeline
<1>9. ASSUME NEW n \in S
      PROVE  n <= LastOf(got, 0)
  <2>1. got \in Seq(Nat) /\ n \in Nat
    <3> HIDE DEF got, S
    <3>1. QED
      BY <1>3, <1>5
  <2> HIDE DEF got
  <2>2. QED
    BY <2>1, <1>4, LastIsGreatest
<1>10. LastOf(new, c) \in Nat /\ LastOf(new, c) <= LastOf(got, 0)
  <2>1. CASE a = N
    <3>1. new = << >>
      BY <2>1
    <3>2. LastOf(new, c) = c
      BY <3>1 DEF LastOf
    <3>3. LastOf(q, 0) = 0 \/ LastOf(q, 0) \in S
      <4>1. q # << >> => LastOf(q, 0) = q[Len(q)] /\ Len(q) \in DOMAIN q
        BY <1>1 DEF LastOf, Last
      <4>2. q = << >> => LastOf(q, 0) = 0
        BY DEF LastOf
      <4>3. QED
        BY <4>1, <4>2 DEF Range
    <3>4. LastOf(q, 0) <= LastOf(got, 0)
      <4> HIDE DEF got, S
      <4>1. QED
        BY <3>3, <1>6, <1>9
    <3> HIDE DEF got
    <3>5. QED
      BY <3>2, <3>4, <1>6
  <2>2. CASE a # N
    <3>1. Len(new) = N - a /\ N - a \in 1..(N - a) /\ a + (N - a) = N /\ new # << >>
      <4>1. N - a \in Nat /\ N - a >= 1 /\ a + (N - a) = N
        BY <2>2
      <4>2. Len(new) = N - a
        BY <4>1
      <4>3. N - a \in 1..(N - a)
        BY <4>1
      <4>4. new # << >>
        <5>1. 1 \in DOMAIN new
          BY <4>1
        <5>2. 1 \notin DOMAIN << >>
          OBVIOUS
        <5>3. QED
          BY <5>1, <5>2
      <4>5. QED
        BY <4>1, <4>2, <4>3, <4>4
    <3>2. LastOf(new, c) = N
      BY <3>1 DEF LastOf, Last
    <3>3. N \in (a + 1)..N
      BY <2>2
    <3>4. N \in S
      BY <3>3, <1>2
    <3> HIDE DEF got, S
    <3>5. QED
      BY <3>2, <3>4, <1>9
  <2>3. QED
    BY <2>1, <2>2
<1>11. QED
  BY <1>8, <1>10

(* A timeline is a sequence of numbers.                                     *)
LEMMA NumbersOfTimeline ==
  ASSUME NEW h, NEW b, NEW q, Timeline(q, h, b)
  PROVE  q \in Seq(Nat)
<1>1. q \in Seq(1..Len(h))
  BY DEF Timeline
<1>2. Len(q) \in Nat /\ q \in [1..Len(q) -> 1..Len(h)]
  BY <1>1
<1>3. \A i \in 1..Len(q) : q[i] \in Nat
  BY <1>2
<1>4. q = [i \in 1..Len(q) |-> q[i]]
  BY <1>2
<1>5. q \in [1..Len(q) -> Nat]
  BY <1>3, <1>4
<1>6. QED
  BY <1>2, <1>5

(* One stream's record changes and nothing else does.                       *)
LEMMA StreamStep ==
  ASSUME HistoryInv, NEW s \in Stream, NEW st \in StreamType,
         stream' = [stream EXCEPT ![s] = st],
         StreamOk(st, log, SnapshotOrInitial.last), faults' \in Nat,
         UNCHANGED <<log, events, snapshot, row, lock, writer, folder, pager>>
  PROVE  HistoryInv'
<1>1. HistoryType /\ StreamInv
  BY DEF HistoryInv
<1>2. stream' \in [Stream -> StreamType]
  BY <1>1 DEF HistoryType, StreamType
<1>3. HistoryType'
  BY <1>1, <1>2 DEF HistoryType, StreamType
<1>4. \A t \in Stream : stream'[t] = IF t = s THEN st ELSE stream[t]
  BY <1>1 DEF HistoryType
<1>5. StreamInv'
  BY <1>1, <1>4 DEF StreamInv, SnapshotOrInitial
<1>6. StoredInv' /\ WriterInv' /\ FolderInv' /\ PagerInv'
  BY StoredStands
<1>7. QED
  BY <1>3, <1>5, <1>6 DEF HistoryInv

(* What is known of one stream.                                             *)
LEMMA StreamFacts ==
  ASSUME HistoryInv, NEW s \in Stream
  PROVE  /\ stream[s] \in StreamType
         /\ StreamOk(stream[s], log, SnapshotOrInitial.last)
         /\ Len(log) \in Nat /\ SnapshotOrInitial.last \in Nat
         /\ LastOf(stream[s].got, 0) \in 0..Len(log)
<1>1. HistoryType /\ StoredInv /\ StreamInv
  BY DEF HistoryInv
<1>2. stream[s] \in StreamType /\ StreamOk(stream[s], log, SnapshotOrInitial.last)
  BY <1>1 DEF HistoryType, StreamType, StreamInv
<1>3. Len(log) \in Nat /\ SnapshotOrInitial.last \in Nat /\ Len(log) <= Len(log)
      /\ SnapshotOrInitial.last <= SnapshotOrInitial.last
  BY <1>1, StoredFacts DEF StoredInv
<1>4. LastOf(stream[s].got, 0) \in 0..Len(log)
  BY <1>2, <1>3, TimelineKept DEF StreamOk
<1>5. QED
  BY <1>2, <1>3, <1>4

(* A closed status is read only of a closed log.                            *)
LEMMA StreamStatusInv ==
  ASSUME HistoryInv, NEW s \in Stream, StreamStatus(s)
  PROVE  HistoryInv'
<1> DEFINE st == [stream[s] EXCEPT !.pc = "events", !.status = row.state]
<1>1. stream[s] \in StreamType /\ StreamOk(stream[s], log, SnapshotOrInitial.last)
  BY StreamFacts
<1>2. row.state \in RunState /\ (IsTerminalState(row.state) => IsClosed(log))
  BY StoredFacts DEF HistoryInv, Projection
<1>3. /\ stream' = [stream EXCEPT ![s].pc = "events", ![s].status = row.state]
      /\ UNCHANGED <<log, events, snapshot, row, lock, writer, folder, pager, faults>>
  BY DEF StreamStatus
<1>4. stream' = [stream EXCEPT ![s] = st]
  BY <1>3
<1>5. st \in StreamType /\ st.pc = "events" /\ st.status = row.state
      /\ st.got = stream[s].got /\ st.before = stream[s].before /\ st.cursor = stream[s].cursor
  <2> DEFINE r(x, y) == [x EXCEPT !.pc = "events", !.status = y]
  <2>1. ASSUME NEW x \in StreamType, NEW y \in RunState
        PROVE  /\ r(x, y) \in StreamType /\ r(x, y).pc = "events" /\ r(x, y).status = y
               /\ r(x, y).got = x.got /\ r(x, y).before = x.before /\ r(x, y).cursor = x.cursor
    BY DEF StreamType
  <2>2. st = r(stream[s], row.state)
    OBVIOUS
  <2> HIDE DEF r, st
  <2>3. QED
    BY <1>1, <1>2, <2>1, <2>2
<1> HIDE DEF st
<1>6. StreamOk(st, log, SnapshotOrInitial.last)
  BY <1>1, <1>2, <1>5 DEF StreamOk
<1>7. faults' \in Nat
  BY <1>3 DEF HistoryInv, HistoryType
<1>8. QED
  BY <1>3, <1>4, <1>5, <1>6, <1>7, StreamStep

(* A slice completes the timeline to the end of the log; without one of a   *)
(* closed run it was complete.                                              *)
LEMMA StreamSliceInv ==
  ASSUME HistoryInv, NEW s \in Stream, StreamSlice(s)
  PROVE  HistoryInv'
<1> DEFINE x    == stream[s]
           new  == Seqs(ReadEvents(events, x.cursor))
           news == new # << >> \/ x.status # x.lastStatus
           st   == CASE news -> TakeSlice(x, x.status, new)
                     [] ~news /\ IsTerminalState(x.status) -> [x EXCEPT !.pc = "ended"]
                     [] OTHER -> [x EXCEPT !.pc = "status"]
           base == SnapshotOrInitial.last
           N    == Len(log)
<1>1. /\ x \in StreamType /\ StreamOk(x, log, base) /\ N \in Nat /\ base \in Nat
      /\ LastOf(x.got, 0) \in 0..N
  BY StreamFacts
<1>2. /\ x.pc = "events" /\ stream' = [stream EXCEPT ![s] = st]
      /\ UNCHANGED <<log, events, snapshot, row, lock, writer, folder, pager, faults>>
  BY DEF StreamSlice
<1>3. x.cursor \in Nat /\ x.cursor <= N /\ x.cursor <= LastOf(x.got, 0)
  BY <1>1 DEF StreamType, StreamOk
<1>4. PICK a \in x.cursor..N : new = [i \in 1..(N - a) |-> a + i] /\ (a = x.cursor \/ a = base)
  BY <1>3, NewSeqs DEF HistoryInv
<1>5. faults' \in Nat
  BY <1>2 DEF HistoryInv, HistoryType
<1>6. SUFFICES st \in StreamType /\ StreamOk(st, log, base)
  <2> HIDE DEF st
  <2>1. QED
    BY <1>2, <1>5, <1>6, StreamStep
<1>7. CASE news
  <2> DEFINE merged == MergeEntries(x.got, new)
             cursor == LastOf(new, x.cursor)
  <2>1. Timeline(merged, log, base) /\ cursor \in Nat /\ cursor <= LastOf(merged, 0)
    <3>1. Timeline(x.got, log, base)
      BY <1>1 DEF StreamOk
    <3> HIDE DEF x, new, base
    <3>2. QED
      BY <1>1, <1>3, <1>4, <3>1, MergedTimeline
  <2>2. merged \in Seq(Nat)
    <3> HIDE DEF merged
    <3>1. QED
      BY <2>1, NumbersOfTimeline
  <2>3. st = [x EXCEPT !.pc = "status", !.lastStatus = x.status, !.cursor = cursor,
                       !.before = x.got, !.got = merged]
    <3> HIDE DEF news
    <3>1. st = TakeSlice(x, x.status, new)
      BY <1>7
    <3> HIDE DEF st, new, x
    <3>2. QED
      BY <3>1 DEF TakeSlice
  <2> HIDE DEF x, merged, cursor, st, news, new
  <2>4. /\ st \in StreamType /\ st.pc = "status" /\ st.cursor = cursor
        /\ st.before = x.got /\ st.got = merged
    <3> DEFINE r(y, c, m) == [y EXCEPT !.pc = "status", !.lastStatus = y.status, !.cursor = c,
                                       !.before = y.got, !.got = m]
    <3>1. ASSUME NEW y \in StreamType, NEW c \in Nat, NEW m \in Seq(Nat)
          PROVE  /\ r(y, c, m) \in StreamType /\ r(y, c, m).pc = "status"
                 /\ r(y, c, m).cursor = c /\ r(y, c, m).before = y.got /\ r(y, c, m).got = m
      BY DEF StreamType
    <3>2. st = r(x, cursor, merged)
      BY <2>3
    <3> HIDE DEF r
    <3>3. x \in StreamType /\ cursor \in Nat /\ merged \in Seq(Nat)
      BY <1>1, <2>1, <2>2
    <3>4. QED
      BY <3>1, <3>2, <3>3
  <2>5. StreamOk(st, log, base)
    BY <1>1, <2>1, <2>4 DEF StreamOk
  <2>6. QED
    BY <2>4, <2>5
<1>8. CASE ~news /\ IsTerminalState(x.status)
  <2>1. st = [x EXCEPT !.pc = "ended"] /\ new = << >>
    BY <1>8
  <2>2. a = N
    <3>1. SUFFICES ASSUME a # N
                   PROVE  FALSE
      OBVIOUS
    <3>2. 1 \in 1..(N - a)
      BY <1>1, <1>3, <1>4, <3>1
    <3>3. 1 \in DOMAIN new
      <4> HIDE DEF new
      <4>1. QED
        BY <1>4, <3>2
    <3>4. 1 \notin DOMAIN << >>
      OBVIOUS
    <3> HIDE DEF new
    <3>5. QED
      BY <2>1, <3>3, <3>4
  <2> HIDE DEF x, st, news, new
  <2>3. st \in StreamType /\ st.pc = "ended" /\ st.got = x.got /\ st.before = x.before
        /\ st.cursor = x.cursor
    BY <1>1, <2>1 DEF StreamType
  <2>4. IsClosed(log)
    BY <1>1, <1>2, <1>8 DEF StreamOk
  <2>5. Covered(x.got, N, base)
    <3>1. SUFFICES ASSUME NEW k \in 1..N
                   PROVE  Holds(x.got, k) \/ k <= base
      BY DEF Covered
    <3>2. k <= x.cursor \/ k <= base
      BY <1>4, <2>2
    <3>3. k <= x.cursor => k \in 1..LastOf(x.got, 0)
      BY <1>1, <1>3
    <3>4. k <= x.cursor => Holds(x.got, k) \/ k <= base
      BY <1>1, <3>3 DEF StreamOk, Timeline, Covered
    <3>5. QED
      BY <3>2, <3>4
  <2>6. StreamOk(st, log, base)
    BY <1>1, <2>3, <2>4, <2>5 DEF StreamOk
  <2>7. QED
    BY <2>3, <2>6
<1>9. CASE ~news /\ ~IsTerminalState(x.status)
  <2>1. st = [x EXCEPT !.pc = "status"]
    BY <1>9
  <2> HIDE DEF x, st, news, new
  <2>2. st \in StreamType /\ st.pc = "status" /\ st.got = x.got /\ st.before = x.before
        /\ st.cursor = x.cursor
    BY <1>1, <2>1 DEF StreamType
  <2>3. StreamOk(st, log, base)
    BY <1>1, <2>2 DEF StreamOk
  <2>4. QED
    BY <2>2, <2>3
<1>10. QED
  BY <1>7, <1>8, <1>9

(* A new connection begins within what the client has.                      *)
LEMMA StreamReconnectInv ==
  ASSUME HistoryInv, NEW s \in Stream, NEW kept, NEW after, StreamReconnect(s, kept, after)
  PROVE  HistoryInv'
<1> DEFINE st == Resumed(kept, after)
           base == SnapshotOrInitial.last
<1>1. /\ stream[s] \in StreamType /\ StreamOk(stream[s], log, base)
      /\ Len(log) \in Nat /\ base \in Nat /\ Len(log) <= Len(log) /\ base <= base
  BY StreamFacts
<1>2. /\ kept \in {stream[s].got, stream[s].before} /\ after \in {0, LastOf(kept, 0)}
      /\ faults' = faults + 1 /\ stream' = [stream EXCEPT ![s] = st]
      /\ UNCHANGED <<log, events, snapshot, row, lock, writer, folder, pager>>
  BY DEF StreamReconnect
<1>3. Timeline(kept, log, base) /\ kept \in Seq(Nat)
  BY <1>1, <1>2 DEF StreamOk, StreamType
<1>4. LastOf(kept, 0) \in 0..Len(log)
  BY <1>1, <1>3, TimelineKept
<1>5. after \in Nat /\ after <= LastOf(kept, 0)
  BY <1>2, <1>4
<1>6. /\ st \in StreamType /\ st.pc = "status" /\ st.cursor = after
      /\ st.got = kept /\ st.before = kept
  BY <1>3, <1>5 DEF Resumed, NewStream, StreamType
<1> HIDE DEF st
<1>7. StreamOk(st, log, base)
  BY <1>3, <1>5, <1>6 DEF StreamOk
<1>8. faults' \in Nat
  BY <1>2 DEF HistoryInv, HistoryType
<1>9. QED
  BY <1>2, <1>6, <1>7, <1>8, StreamStep

(* A refused client keeps what it has.                                      *)
LEMMA StreamRefusedInv ==
  ASSUME HistoryInv, NEW s \in Stream, StreamRefused(s)
  PROVE  HistoryInv'
<1> DEFINE st == [stream[s] EXCEPT !.pc = "refused"]
<1>1. stream[s] \in StreamType /\ StreamOk(stream[s], log, SnapshotOrInitial.last)
  BY StreamFacts
<1>2. /\ faults' = faults + 1 /\ stream' = [stream EXCEPT ![s] = st]
      /\ UNCHANGED <<log, events, snapshot, row, lock, writer, folder, pager>>
  BY DEF StreamRefused
<1>3. /\ st \in StreamType /\ st.pc = "refused" /\ st.got = stream[s].got
      /\ st.before = stream[s].before /\ st.cursor = stream[s].cursor
  BY <1>1 DEF StreamType
<1> HIDE DEF st
<1>4. StreamOk(st, log, SnapshotOrInitial.last)
  BY <1>1, <1>3 DEF StreamOk
<1>5. faults' \in Nat
  BY <1>2 DEF HistoryInv, HistoryType
<1>6. QED
  BY <1>2, <1>3, <1>4, <1>5, StreamStep

(* A page behind a complete timeline makes a complete timeline.             *)
LEMMA PageAppended ==
  ASSUME NEW h, Len(h) \in Nat, NEW b \in Nat, NEW q, Timeline(q, h, b),
         NEW c \in Nat, c = LastOf(q, 0), NEW a \in c..Len(h), a = c \/ a = b,
         NEW k \in Nat, a + k <= Len(h), NEW shown, shown = [i \in 1..k |-> a + i]
  PROVE  /\ Timeline(q \o shown, h, b)
         /\ k > 0 => LastOf(q \o shown, 0) = a + k
<1> DEFINE N == Len(h)
           got == q \o shown
           Q == Len(q)
<1>1. q \in Seq(1..N) /\ Increasing(q) /\ Covered(q, LastOf(q, 0), b) /\ Q \in Nat
  BY DEF Timeline
<1>2. shown \in Seq(1..N) /\ Len(shown) = k /\ \A i \in 1..k : shown[i] = a + i
  <2>1. \A i \in 1..k : a + i \in 1..N
    OBVIOUS
  <2>2. QED
    BY <2>1
<1>3. /\ got \in Seq(1..N) /\ Len(got) = Q + k
      /\ \A i \in 1..Q : got[i] = q[i]
      /\ \A i \in 1..k : got[Q + i] = a + i
  <2> DEFINE K == 1..N
  <2>1. q \in Seq(K) /\ shown \in Seq(K)
    BY <1>1, <1>2
  <2> HIDE DEF K
  <2>2. got \in Seq(K) /\ Len(got) = Q + k
    BY <1>2, <2>1
  <2>3. \A i \in 1..Q : got[i] = q[i]
    BY <1>2, <2>1
  <2>4. \A i \in 1..k : got[Q + i] = shown[i]
    BY <1>1, <1>2, <2>1
  <2>5. QED
    BY <1>2, <2>2, <2>3, <2>4 DEF K
<1> HIDE DEF got
<1>4. \A i \in 1..Q : q[i] \in Nat /\ q[i] <= c
  <2>1. q \in Seq(Nat)
    BY NumbersOfTimeline
  <2>2. \A i \in 1..Q : Holds(q, q[i]) /\ q[i] \in Nat
    BY <2>1 DEF Holds
  <2>3. QED
    BY <1>1, <2>1, <2>2, LastIsGreatest
<1>5. Increasing(got)
  <2>1. SUFFICES ASSUME NEW i \in 1..(Q + k), NEW j \in 1..(Q + k), i < j
                 PROVE  got[i] < got[j]
    BY <1>1, <1>3 DEF Increasing
  <2>2. CASE j \in 1..Q
    <3>1. i \in 1..Q /\ i \in DOMAIN q /\ j \in DOMAIN q
      BY <1>1, <2>1, <2>2
    <3>2. QED
      BY <1>1, <1>3, <2>1, <2>2, <3>1 DEF Increasing
  <2>3. CASE i \in 1..Q /\ j \notin 1..Q
    <3>1. j - Q \in 1..k /\ j = Q + (j - Q) /\ i \in 1..Q
      BY <1>1, <2>1, <2>3
    <3>2. got[j] = a + (j - Q) /\ got[i] = q[i]
      BY <1>3, <3>1
    <3>3. q[i] \in Nat /\ q[i] <= c
      BY <1>4, <3>1
    <3>4. QED
      BY <3>1, <3>2, <3>3
  <2>4. CASE i \notin 1..Q
    <3>1. i - Q \in 1..k /\ i = Q + (i - Q) /\ j - Q \in 1..k /\ j = Q + (j - Q)
      BY <1>1, <2>1, <2>4
    <3>2. got[i] = a + (i - Q) /\ got[j] = a + (j - Q)
      BY <1>3, <3>1
    <3>3. QED
      BY <1>1, <2>1, <3>1, <3>2
  <2>5. i \notin 1..Q \/ (i \in 1..Q /\ j \notin 1..Q) \/ j \in 1..Q
    OBVIOUS
  <2>6. QED
    BY <2>2, <2>3, <2>4, <2>5
<1>6. \A n : Holds(q, n) => Holds(got, n)
  <2>1. DOMAIN q = 1..Q /\ DOMAIN got = 1..(Q + k)
    BY <1>1, <1>3
  <2>2. \A i \in 1..Q : i \in 1..(Q + k)
    BY <1>1
  <2>3. \A i \in DOMAIN q : i \in 1..Q /\ i \in DOMAIN got
    BY <2>1, <2>2
  <2>4. QED
    BY <1>3, <2>3 DEF Holds
<1>7. \A n \in (a + 1)..(a + k) : Holds(got, n)
  <2>1. SUFFICES ASSUME NEW n \in (a + 1)..(a + k)
                 PROVE  Holds(got, n)
    OBVIOUS
  <2>2. n - a \in 1..k /\ a + (n - a) = n /\ Q + (n - a) \in 1..(Q + k)
    BY <1>1
  <2>3. got[Q + (n - a)] = n
    BY <1>3, <2>2
  <2>4. Q + (n - a) \in DOMAIN got
    BY <1>3, <2>2
  <2>5. QED
    BY <2>3, <2>4 DEF Holds
<1>8. k > 0 => LastOf(got, 0) = a + k
  <2>1. SUFFICES ASSUME k > 0
                 PROVE  LastOf(got, 0) = a + k
    OBVIOUS
  <2>2. k \in 1..k /\ Q + k \in DOMAIN got
    BY <1>1, <1>3, <2>1
  <2>3. got # << >>
    <3>1. \A i : i \notin DOMAIN << >>
      OBVIOUS
    <3>2. QED
      BY <2>2, <3>1
  <2>4. QED
    BY <1>3, <2>2, <2>3 DEF LastOf, Last
<1>9. k = 0 => LastOf(got, 0) = c
  <2>1. SUFFICES ASSUME k = 0
                 PROVE  LastOf(got, 0) = c
    OBVIOUS
  <2>2. got = q
    <3>1. Len(got) = Q /\ \A i \in 1..Q : got[i] = q[i]
      BY <1>1, <1>3, <2>1
    <3> DEFINE K == 1..N
    <3>2. got \in Seq(K) /\ q \in Seq(K)
      BY <1>1, <1>3
    <3> HIDE DEF K
    <3>3. QED
      BY <3>1, <3>2
  <2>3. QED
    BY <2>2
<1>10. Covered(got, LastOf(got, 0), b)
  <2>1. SUFFICES ASSUME NEW n \in 1..(a + k), k = 0 => n <= c
                 PROVE  Holds(got, n) \/ n <= b
    <3>1. k = 0 \/ k > 0
      OBVIOUS
    <3>2. c <= a + k
      OBVIOUS
    <3>3. \A n \in 1..LastOf(got, 0) : n \in 1..(a + k) /\ (k = 0 => n <= c)
      BY <1>8, <1>9, <3>1, <3>2
    <3>4. QED
      BY <2>1, <3>3 DEF Covered
  <2>2. CASE n <= c
    <3>1. n \in 1..LastOf(q, 0)
      BY <2>2
    <3>2. QED
      BY <1>1, <1>6, <3>1 DEF Covered
  <2>3. CASE n > c /\ n <= a
    BY <2>3
  <2>4. CASE n > a
    <3>1. n \in (a + 1)..(a + k)
      BY <2>4
    <3>2. QED
      BY <1>7, <3>1
  <2>5. QED
    BY <2>2, <2>3, <2>4
<1>11. Timeline(got, h, b)
  BY <1>3, <1>5, <1>10 DEF Timeline
<1>12. QED
  BY <1>8, <1>11 DEF got

(* A page goes on where the last one ended.                                 *)
LEMMA GetHistoryInv ==
  ASSUME HistoryInv, NEW p \in Pager, GetHistory(p)
  PROVE  HistoryInv'
<1> DEFINE pg    == pager[p]
           found == Seqs(ReadEvents(events, pg.cursor))
           more  == Len(found) > PageLimit
           shown == IF more THEN SubSeq(found, 1, PageLimit) ELSE found
           next  == IF more THEN NextCursor(SubSeq(found, 1, PageLimit + 1), shown) ELSE 0
           base  == SnapshotOrInitial.last
           N     == Len(log)
           taken == TakePage(pg, shown, next)
<1>1. HistoryType /\ StoredInv /\ PagerInv
  BY DEF HistoryInv
<1>2. /\ pg.pc = "more" /\ pager' = [pager EXCEPT ![p] = taken]
      /\ UNCHANGED <<log, events, snapshot, row, lock, writer, folder, stream, faults>>
  BY DEF GetHistory
<1>3. /\ N \in Nat /\ base \in Nat /\ N <= N /\ base <= base
      /\ pg.cursor \in Nat /\ pg.got \in Seq(Nat)
      /\ Timeline(pg.got, log, base) /\ pg.cursor = LastOf(pg.got, 0)
  BY <1>1, <1>2, StoredFacts DEF HistoryType, PagerInv, PagerOk, StoredInv
<1>4. pg.cursor <= N
  BY <1>3, TimelineKept
<1>5. PICK a \in pg.cursor..N : found = [i \in 1..(N - a) |-> a + i] /\ (a = pg.cursor \/ a = base)
  BY <1>1, <1>3, <1>4, NewSeqs
<1>6. PageLimit \in Nat /\ PageLimit >= 1
  BY HistoryAssumption
<1>7. N - a \in Nat /\ Len(found) = N - a /\ a \in Nat
  <2>1. N - a \in Nat /\ a \in Nat
    BY <1>3, <1>5
  <2> HIDE DEF found
  <2>2. QED
    BY <1>5, <2>1
<1> DEFINE k == IF more THEN PageLimit ELSE N - a
<1>8. k \in Nat /\ a + k <= N
  <2> HIDE DEF found, N
  <2>1. QED
    BY <1>3, <1>5, <1>6, <1>7
<1>9. shown = [i \in 1..k |-> a + i]
  <2>1. CASE more
    <3> DEFINE S == SubSeq(found, 1, PageLimit)
    <3>1. shown = S /\ k = PageLimit /\ PageLimit <= Len(found)
      BY <2>1, <1>6, <1>7
    <3>2. S = [i \in 1..PageLimit |-> found[i]]
      <4> HIDE DEF found
      <4>1. QED
        BY <1>6, <1>7, <3>1
    <3>3. \A i \in 1..PageLimit : found[i] = a + i
      <4>1. \A i \in 1..PageLimit : i \in 1..(N - a)
        BY <1>6, <1>7, <3>1
      <4> HIDE DEF found
      <4>2. QED
        BY <1>5, <4>1
    <3> HIDE DEF found, S, shown, k
    <3>4. QED
      BY <3>1, <3>2, <3>3
  <2>2. CASE ~more
    <3>1. shown = found /\ k = N - a
      BY <2>2
    <3> HIDE DEF found, shown, k
    <3>2. QED
      BY <3>1, <1>5
  <2>3. QED
    BY <2>1, <2>2
<1>10. more => next = a + k /\ k > 0
  <2>1. SUFFICES ASSUME more
                 PROVE  next = a + k /\ k > 0
    OBVIOUS
  <2>2. next = LastOf(shown, 0) /\ k = PageLimit
    BY <2>1 DEF NextCursor
  <2> HIDE DEF shown, next, k, more
  <2>3. k \in 1..k /\ k \in Nat
    BY <2>2, <1>6
  <2>4. Len(shown) = k /\ k \in DOMAIN shown /\ shown[k] = a + k
    BY <2>3, <1>9
  <2>5. shown # << >>
    <3>1. \A i : i \notin DOMAIN << >>
      OBVIOUS
    <3>2. QED
      BY <2>4, <3>1
  <2>6. LastOf(shown, 0) = a + k
    BY <2>4, <2>5 DEF LastOf, Last
  <2>7. QED
    BY <2>2, <2>3, <2>6
<1>11. ~more => next = 0
  OBVIOUS
<1>12. taken = [pc |-> IF next = 0 THEN "done" ELSE "more", cursor |-> next,
                got |-> pg.got \o shown]
  BY DEF TakePage
<1> HIDE DEF pg, found, more, shown, next, k, taken, base, N
<1>13. /\ Timeline(pg.got \o shown, log, base)
       /\ k > 0 => LastOf(pg.got \o shown, 0) = a + k
  BY <1>3, <1>5, <1>8, <1>9, PageAppended DEF N
<1>14. next \in Nat /\ (next # 0 => next = LastOf(pg.got \o shown, 0))
  BY <1>7, <1>8, <1>10, <1>11, <1>13
<1>15. pg.got \o shown \in Seq(Nat)
  BY <1>13, NumbersOfTimeline
<1>16. taken \in [pc : {"more", "done"}, cursor : Nat, got : Seq(Nat)]
       /\ PagerOk(taken, log, base)
  BY <1>12, <1>13, <1>14, <1>15 DEF PagerOk
<1>17. pager' \in [Pager -> [pc : {"more", "done"}, cursor : Nat, got : Seq(Nat)]]
  BY <1>1, <1>2, <1>16 DEF HistoryType
<1>18. HistoryType'
  BY <1>1, <1>2, <1>17 DEF HistoryType
<1>19. PagerInv'
  <2>1. \A r \in Pager : pager'[r] = IF r = p THEN taken ELSE pager[r]
    BY <1>1, <1>2 DEF HistoryType
  <2>2. SnapshotOrInitial'.last = base
    BY <1>2 DEF SnapshotOrInitial, base
  <2>3. \A r \in Pager : PagerOk(pager[r], log, base)
    BY <1>1 DEF PagerInv, base
  <2>4. QED
    BY <1>2, <1>16, <2>1, <2>2, <2>3 DEF PagerInv
<1>20. StoredInv' /\ WriterInv' /\ FolderInv' /\ StreamInv'
  BY <1>2, StoredStands
<1>21. QED
  BY <1>18, <1>19, <1>20 DEF HistoryInv

-----------------------------------------------------------------------------
(* Each step preserves the invariant and takes no row back.                 *)
LEMMA InvNext ==
  ASSUME HistoryInv, [Next]_vars
  PROVE  HistoryInv' /\ (~OpenRebuilds => RowForward)
<1>1. StoredInv
  BY DEF HistoryInv
<1>2. CASE UNCHANGED vars
  <2>1. UNCHANGED <<log, events, snapshot, row, lock, writer, folder, stream, pager, faults>>
    BY <1>2 DEF vars
  <2>2. HistoryType'
    BY <2>1 DEF HistoryInv, HistoryType
  <2>3. QED
    BY <1>1, <2>1, <2>2, StoredStands, RowStands DEF HistoryInv
<1>3. ASSUME NEW w \in Writer, RecordLock(w)
      PROVE  HistoryInv' /\ RowForward
  BY <1>1, <1>3, RecordLockInv, RowStands DEF RecordLock
<1>4. ASSUME NEW w \in Writer, NEW kind \in {"step_completed", "run_completed"},
             RecordCommit(w, kind)
      PROVE  HistoryInv' /\ RowForward
  BY <1>4, RecordCommitInv
<1>5. ASSUME NEW w \in Writer, RecordLost(w)
      PROVE  HistoryInv' /\ RowForward
  BY <1>1, <1>5, RecordLostInv, RowStands DEF RecordLost
<1>6. ASSUME NEW w \in Writer, TimeoutRead(w)
      PROVE  HistoryInv' /\ RowForward
  BY <1>1, <1>6, TimeoutReadInv, RowStands DEF TimeoutRead
<1>7. ASSUME NEW w \in Writer, AppendCheck(w)
      PROVE  HistoryInv' /\ RowForward
  BY <1>1, <1>7, AppendCheckInv, RowStands DEF AppendCheck
<1>8. ASSUME NEW w \in Writer, AppendInsert(w)
      PROVE  HistoryInv' /\ RowForward
  BY <1>1, <1>8, AppendInsertInv, RowStands DEF AppendInsert
<1>9. ASSUME NEW f \in Folder, NEW mode \in {"refresh", "rebuild"}, FoldObserve(f, mode)
      PROVE  HistoryInv' /\ RowForward
  BY <1>1, <1>9, FoldObserveInv, RowStands DEF FoldObserve
<1>10. ASSUME NEW f \in Folder, FoldRead(f)
       PROVE  HistoryInv' /\ RowForward
  BY <1>1, <1>10, FoldReadInv, RowStands DEF FoldRead
<1>11. ASSUME NEW f \in Folder, FoldCommit(f)
       PROVE  HistoryInv' /\ (~OpenRebuilds => RowForward)
  BY <1>11, FoldCommitInv
<1>12. ASSUME CompactRun
       PROVE  HistoryInv' /\ RowForward
  BY <1>1, <1>12, CompactRunInv, RowStands DEF CompactRun
<1>13. ASSUME NEW s \in Stream, StreamStatus(s)
       PROVE  HistoryInv' /\ RowForward
  BY <1>1, <1>13, StreamStatusInv, RowStands DEF StreamStatus
<1>14. ASSUME NEW s \in Stream, StreamSlice(s)
       PROVE  HistoryInv' /\ RowForward
  BY <1>1, <1>14, StreamSliceInv, RowStands DEF StreamSlice
<1>15. ASSUME NEW s \in Stream, StreamRefused(s)
       PROVE  HistoryInv' /\ RowForward
  BY <1>1, <1>15, StreamRefusedInv, RowStands DEF StreamRefused
<1>16. ASSUME NEW s \in Stream, NEW kept, NEW after, StreamReconnect(s, kept, after)
       PROVE  HistoryInv' /\ RowForward
  BY <1>1, <1>16, StreamReconnectInv, RowStands DEF StreamReconnect
<1>17. ASSUME NEW p \in Pager, GetHistory(p)
       PROVE  HistoryInv' /\ RowForward
  BY <1>1, <1>17, GetHistoryInv, RowStands DEF GetHistory
<1>18. QED
  BY <1>2, <1>3, <1>4, <1>5, <1>6, <1>7, <1>8, <1>9, <1>10, <1>11, <1>12, <1>13, <1>14,
     <1>15, <1>16, <1>17 DEF Next

-----------------------------------------------------------------------------
(* What the invariant says of the projections and of the readers *)

(* A log is closed when one of its events closes the run.                   *)
LEMMA ClosedIsLast ==
  ASSUME StoredInv
  PROVE  IsClosed(log) <=> Closed
<1>1. log \in Seq(Kind) /\ Len(log) \in Nat /\ Len(log) >= 1
      /\ OpenThrough(log, 1, Len(log) - 1)
  BY StoredFacts
<1>2. \A i \in DOMAIN log : i = Len(log) \/ i \in 1..(Len(log) - 1)
  BY <1>1
<1>3. Len(log) \in DOMAIN log
  BY <1>1
<1>4. QED
  BY <1>1, <1>2, <1>3 DEF IsClosed, Closed, OpenThrough, IsClosing

(* The whole log up to a number is the slice from its beginning.            *)
LEMMA FoldOfLog ==
  ASSUME StoredInv, NEW n \in Nat, n <= Len(log)
  PROVE  FoldRunEvents(LogUpTo(n), InitialProjection) = StateAt(log, n)
<1>1. LogUpTo(n) = Slice(log, 0, n)
  <2>1. n - 0 = n /\ \A i \in 1..n : 0 + i = i
    OBVIOUS
  <2>2. QED
    BY <2>1 DEF LogUpTo, Slice
<1>2. InitialProjection = StateAt(log, 0)
  BY DEF InitialProjection, StateAt
<1>3. QED
  BY <1>1, <1>2, StoredFacts, FoldWithin

(* The checker reports nothing but a row that has not been folded with the  *)
(* closing event yet.                                                       *)
LEMMA CheckerReports ==
  ASSUME StoredInv, InconsistentProjection
  PROVE  IsClosed(log) /\ ~IsTerminalState(row.state)
<1> DEFINE base    == SnapshotOrInitial
           N       == Len(log)
           found   == ReadEvents(events, base.last)
           logEnd  == LastOf(Seqs(found), base.last)
           upTo    == [s \in {n \in DOMAIN events : n <= row.last} |-> events[s]]
           upToRow == FoldRunEvents(ReadEvents(upTo, base.last), base)
           full    == FoldRunEvents(found, base)
<1>1. /\ log \in Seq(Kind) /\ N \in Nat /\ N >= 1 /\ OpenThrough(log, 1, N - 1)
      /\ base.last \in Nat /\ base.last <= row.last /\ row.last \in Nat /\ row.last <= N
      /\ base = StateAt(log, base.last) /\ row = StateAt(log, row.last)
      /\ events = Kept(log, base.last, N)
  BY StoredFacts DEF StoredInv
<1>2. found = Slice(log, base.last, N)
  BY <1>1, StoredReads
<1>3. upTo = Kept(log, base.last, row.last)
  <2>1. DOMAIN events = (base.last + 1)..N /\ \A n \in (base.last + 1)..N : events[n] = log[n]
    BY <1>1 DEF Kept
  <2>2. {n \in DOMAIN events : n <= row.last} = (base.last + 1)..row.last
    BY <1>1, <2>1
  <2>3. \A n \in (base.last + 1)..row.last : n \in (base.last + 1)..N
    BY <1>1
  <2> HIDE DEF base, N
  <2>4. QED
    BY <2>1, <2>2, <2>3 DEF Kept
<1>4. upToRow = row
  <2> HIDE DEF upTo, base, N
  <2>1. ReadEvents(upTo, base.last) = Slice(log, base.last, row.last)
    BY <1>1, <1>3, ReadSlice
  <2>2. FoldRunEvents(Slice(log, base.last, row.last), StateAt(log, base.last))
          = StateAt(log, row.last)
    BY <1>1, FoldWithin DEF N
  <2>3. QED
    BY <1>1, <2>1, <2>2
<1>5. full = StateAt(log, N)
  <2> HIDE DEF base, found
  <2>1. FoldRunEvents(Slice(log, base.last, N), StateAt(log, base.last)) = StateAt(log, N)
    BY <1>1, FoldWithin
  <2>2. QED
    BY <1>1, <1>2, <2>1
<1>6. logEnd = N
  <2>1. CASE base.last = N
    <3>1. found = << >>
      BY <1>1, <1>2, <2>1 DEF Slice
    <3>2. Seqs(found) = << >>
      <4> HIDE DEF found
      <4>1. QED
        BY <3>1 DEF Seqs
    <3>3. QED
      <4> HIDE DEF found, base, N
      <4>1. QED
        BY <3>2, <2>1 DEF LastOf
  <2>2. CASE base.last # N
    <3> DEFINE sq == Seqs(found)
               b == base.last
    <3>1. b \in Nat /\ N - b \in Nat /\ N - b \in 1..(N - b) /\ b + (N - b) = N
      BY <1>1, <2>2
    <3>2. sq = [i \in 1..(N - b) |-> b + i]
      <4>1. DOMAIN found = 1..(N - b)
            /\ \A i \in 1..(N - b) : found[i] = [seq |-> b + i, kind |-> log[b + i]]
        <5> HIDE DEF found
        <5>1. QED
          BY <1>2 DEF Slice
      <4> HIDE DEF found, b, N
      <4>2. QED
        BY <4>1 DEF Seqs
    <3> HIDE DEF sq, b, N
    <3>3. Len(sq) = N - b /\ N - b \in DOMAIN sq /\ sq[N - b] = N
      BY <3>1, <3>2
    <3>4. sq # << >>
      <4>1. \A i : i \notin DOMAIN << >>
        OBVIOUS
      <4>2. QED
        BY <3>3, <4>1
    <3>5. LastOf(sq, b) = N
      BY <3>3, <3>4 DEF LastOf, Last
    <3>6. QED
      BY <3>5 DEF sq, b
  <2>3. QED
    BY <2>1, <2>2
<1>7. \/ row.last > logEnd
      \/ row.last < base.last
      \/ Differs(row, upToRow)
      \/ full.state = Rejected.state
      \/ IsTerminalState(full.state) /\ ~IsTerminalState(upToRow.state)
  BY DEF InconsistentProjection
<1> HIDE DEF base, found, logEnd, upTo, upToRow, full
<1>8. ~Differs(row, upToRow)
  BY <1>4 DEF Differs
<1>9. N \in 0..N
  BY <1>1
<1>10. full.state # Rejected.state /\ (IsTerminalState(full.state) => IsClosed(log))
  BY <1>1, <1>5, <1>9, StateAtFacts
<1>11. QED
  BY <1>1, <1>4, <1>6, <1>7, <1>8, <1>10

(* The row and the snapshot are what the log folds to.                      *)
LEMMA InvExact ==
  ASSUME HistoryInv
  PROVE  ProjectionExact
<1>1. StoredInv
  BY DEF HistoryInv
<1>2. /\ log \in Seq(Kind) /\ Len(log) \in Nat
      /\ SnapshotOrInitial.last \in Nat /\ SnapshotOrInitial.last <= Len(log)
      /\ row.last \in Nat /\ row.last <= Len(log)
      /\ row = StateAt(log, row.last)
      /\ SnapshotOrInitial = StateAt(log, SnapshotOrInitial.last)
      /\ events = Kept(log, SnapshotOrInitial.last, Len(log))
  BY <1>1, StoredFacts DEF StoredInv
<1>3. DOMAIN events = (SnapshotOrInitial.last + 1)..Len(log)
      /\ \A s \in DOMAIN events : events[s] = log[s]
  BY <1>2 DEF Kept
<1>4. \A p \in {row, SnapshotOrInitial} :
        p.last <= Len(log) /\ p = FoldRunEvents(LogUpTo(p.last), InitialProjection)
  <2>1. row = FoldRunEvents(LogUpTo(row.last), InitialProjection)
    BY <1>1, <1>2, FoldOfLog
  <2>2. SnapshotOrInitial = FoldRunEvents(LogUpTo(SnapshotOrInitial.last), InitialProjection)
    BY <1>1, <1>2, FoldOfLog
  <2>3. QED
    BY <1>2, <2>1, <2>2
<1>5. InconsistentProjection => Closed /\ ~IsTerminalState(row.state)
  BY <1>1, CheckerReports, ClosedIsLast
<1>6. QED
  BY <1>3, <1>4, <1>5 DEF ProjectionExact

(* The readers have every event that was not pruned before they came to it. *)
LEMMA InvReaders ==
  ASSUME HistoryInv
  PROVE  ReadersMissNothing
<1>1. StoredInv /\ StreamInv /\ PagerInv
  BY DEF HistoryInv
<1>2. ASSUME NEW q, Timeline(q, log, SnapshotOrInitial.last)
      PROVE  /\ Increasing(q)
             /\ \A n \in 1..LastOf(q, 0) : Holds(q, n) \/ Pruned(n)
  BY <1>2 DEF Timeline, Covered, Pruned
<1>3. \A q \in {stream[s].got : s \in Stream} \cup {pager[p].got : p \in Pager} :
        Timeline(q, log, SnapshotOrInitial.last)
  BY <1>1 DEF StreamInv, PagerInv, StreamOk, PagerOk
<1>4. ASSUME NEW s \in Stream, stream[s].pc = "ended"
      PROVE  Closed /\ \A n \in DOMAIN log : Holds(stream[s].got, n) \/ Pruned(n)
  <2>1. IsClosed(log) /\ Covered(stream[s].got, Len(log), SnapshotOrInitial.last)
    BY <1>1, <1>4 DEF StreamInv, StreamOk
  <2>2. DOMAIN log = 1..Len(log)
    BY <1>1 DEF StoredInv
  <2>3. QED
    BY <1>1, <2>1, <2>2, ClosedIsLast DEF Covered, Pruned
<1>5. QED
  BY <1>2, <1>3, <1>4 DEF ReadersMissNothing

-----------------------------------------------------------------------------
(* The stored events, the snapshot and the row are three views of one log   *)
(* that only its last event may close; what appenders, folders and readers  *)
(* hold between their statements fits that log.                             *)
THEOREM HistoryInvariant == Spec => []HistoryInv
<1>1. HistoryInv /\ [Next]_vars => HistoryInv'
  BY InvNext
<1>2. QED
  BY InvInit, <1>1, PTL DEF Spec

(* Whatever appends, folds and compactions do at once, the events are       *)
(* numbered without a gap, the row and the snapshot are the fold of the     *)
(* whole log up to their number, and the invariant checker reports at most  *)
(* a closing event the row has not been folded with yet (projection-store,  *)
(* history-compactor, inconsistentProjections).                             *)
THEOREM ProjectionsAreTheLog == Spec => []ProjectionExact
<1>1. HistoryInv => ProjectionExact
  BY InvExact
<1>2. QED
  BY HistoryInvariant, <1>1, PTL

(* A client that follows a run, over any number of connections, and one     *)
(* that reads page after page get each event once, in order, and miss none  *)
(* but those that were pruned before they came to them; a stream ends only  *)
(* when its client has the whole history (readHistorySince, getHistory,     *)
(* mergeEntries).                                                           *)
THEOREM NoReaderMissesAnEvent == Spec => []ReadersMissNothing
<1>1. HistoryInv => ReadersMissNothing
  BY InvReaders
<1>2. QED
  BY HistoryInvariant, <1>1, PTL

(* The row of a run never goes back in the history, and a closed run is     *)
(* never opened again by a fold that read before it closed, as long as only *)
(* closed runs are rebuilt (foldInto).                                      *)
THEOREM RowsGoForward ==
  ASSUME ~OpenRebuilds
  PROVE  Spec => RowNeverBack
<1>1. HistoryInv /\ [Next]_vars =>
        [row'.last >= row.last /\ (IsTerminalState(row.state) => row' = row)]_vars
  BY InvNext DEF RowForward
<1>2. QED
  BY HistoryInvariant, <1>1, PTL DEF Spec, RowNeverBack

=============================================================================
