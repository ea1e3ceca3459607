------------------------------- MODULE History -------------------------------
(***************************************************************************)
(* The stored history of one run and everything derived from it: the rows  *)
(* of run_events, the run's row (its projection), the snapshot that stands *)
(* for events the compactor deleted, and the readers that follow the       *)
(* history while all of this changes under them.                           *)
(*                                                                         *)
(* Two kinds of writers append: transactions that hold the run's row lock  *)
(* (the recorder, signals, timers) and optimistic appends through the      *)
(* event store, which hold no lock and rely on the sequence numbers.       *)
(* A statement is one step; a transaction shows its writes at its commit.  *)
(***************************************************************************)
EXTENDS Naturals, FiniteSets, Sequences, SequencesExt

CONSTANTS
  Writer,        \* connections that append
  Folder,        \* callers of refreshProjection and rebuildProjection
  Stream,        \* clients of the event stream
  Pager,         \* clients that read the history page by page
  PageLimit,     \* events of a page
  TailEvents,    \* events the compactor keeps
  OpenRebuilds,  \* whether the projection of an open run may be rebuilt
  MaxLog,        \* bound on events
  MaxFaults      \* bound on lost connections

None == "none"

ASSUME HistoryAssumption ==
  /\ None \notin Writer
  /\ PageLimit \in Nat \ {0}
  /\ TailEvents \in Nat
  /\ OpenRebuilds \in BOOLEAN
  /\ MaxLog \in Nat \ {0}
  /\ MaxFaults \in Nat

VARIABLES
  log,        \* every event ever appended, in order (kept for the properties)
  events,     \* run_events: sequence number -> kind
  snapshot,   \* run_snapshots: a projection, or NoSnapshot
  row,        \* the projection columns of workflow_runs
  lock,       \* the writer that holds the row lock, or None
  writer, folder, stream, pager,
  faults      \* connections lost so far

vars == <<log, events, snapshot, row, lock, writer, folder, stream, pager, faults>>

StateFor == [run_completed |-> "COMPLETED", run_timed_out |-> "TIMED_OUT"]

Kind == {"run_started", "step_completed"} \cup DOMAIN StateFor

-----------------------------------------------------------------------------
(* The projection. *)

InitialProjection == [state |-> "RUNNING", last |-> 0]

Rejected == [state |-> "rejected", last |-> 0]

IsTerminalState(state) == state # "RUNNING"

(* A gap in the sequence or an event behind a closing one rejects the fold. *)
ApplyEventToProjection(p, e) ==
  IF IsTerminalState(p.state) \/ e.seq # p.last + 1 THEN Rejected
  ELSE [state |-> IF e.kind \in DOMAIN StateFor THEN StateFor[e.kind] ELSE p.state,
        last |-> e.seq]

FoldRunEvents(es, p) ==
  LET folded[n \in 0..Len(es)] ==
        IF n = 0 THEN p ELSE ApplyEventToProjection(folded[n - 1], es[n])
  IN folded[Len(es)]

(* A set of numbers in ascending order. *)
Ascending(S) ==
  [i \in 1..Cardinality(S) |-> CHOOSE s \in S : Cardinality({u \in S : u <= s}) = i]

(* The rows after a sequence number, in order. *)
ReadEvents(rows, from) ==
  LET seqs == Ascending({s \in DOMAIN rows : s > from})
  IN [i \in DOMAIN seqs |-> [seq |-> seqs[i], kind |-> rows[seqs[i]]]]

NoSnapshot == [state |-> None, last |-> 0]

SnapshotOrInitial == IF snapshot = NoSnapshot THEN InitialProjection ELSE snapshot

-----------------------------------------------------------------------------
IdleWriter == [pc |-> "idle", expected |-> 0]
IdleFolder == [pc |-> "idle", mode |-> None, observed |-> InitialProjection, seen |-> << >>]
NewStream == [pc |-> "status", status |-> None, lastStatus |-> None, cursor |-> 0,
              got |-> << >>, before |-> << >>]
NewPager == [pc |-> "more", cursor |-> 0, got |-> << >>]

(* startRun has committed the run with its first event. *)
Init ==
  /\ log = <<"run_started">>
  /\ events = [s \in 1..1 |-> "run_started"]
  /\ snapshot = NoSnapshot
  /\ row = [state |-> "RUNNING", last |-> 1]
  /\ lock = None
  /\ writer = [w \in Writer |-> IdleWriter]
  /\ folder = [f \in Folder |-> IdleFolder]
  /\ stream = [s \in Stream |-> NewStream]
  /\ pager = [p \in Pager |-> NewPager]
  /\ faults = 0

-----------------------------------------------------------------------------
(* Appending. *)

(* The last sequence number: pruned events count through the snapshot. *)
CurrentSequence ==
  LET stored == DOMAIN events \cup {SnapshotOrInitial.last}
  IN CHOOSE n \in stored : \A m \in stored : m <= n

(* Mutant: no unique constraint. *)
NotTaken(seq) == FALSE

(* The unique constraint on (run_id, sequence_number). *)
Taken(seq) == seq \in DOMAIN events

Inserted(seq, kind) ==
  [s \in DOMAIN events \cup {seq} |-> IF s = seq THEN kind ELSE events[s]]

(* A transaction of the engine locks the row of an open run and reads its   *)
(* sequence number.                                                         *)
RecordLock(w) ==
  /\ writer[w].pc = "idle" /\ lock = None
  /\ ~IsTerminalState(row.state)
  /\ Len(log) < MaxLog
  /\ lock' = w
  /\ writer' = [writer EXCEPT ![w] = [pc |-> "record", expected |-> CurrentSequence]]
  /\ UNCHANGED <<log, events, snapshot, row, folder, stream, pager, faults>>

Released(w) == lock' = None /\ writer' = [writer EXCEPT ![w] = IdleWriter]

(* It appends, folds what the row lacks onto it (refreshProjectionOnClient) *)
(* and commits; a taken sequence number or a rejected fold undoes it all.   *)
RecordCommit(w, kind) ==
  LET seq  == writer[w].expected + 1
      next == FoldRunEvents(ReadEvents(Inserted(seq, kind), row.last), row)
      ok   == ~Taken(seq) /\ next.state # Rejected.state
  IN /\ writer[w].pc = "record"
     /\ events' = IF ok THEN Inserted(seq, kind) ELSE events
     /\ log' = IF ok THEN Append(log, kind) ELSE log
     /\ row' = IF ok THEN next ELSE row
     /\ Released(w)
     /\ UNCHANGED <<snapshot, folder, stream, pager, faults>>

(* The connection is lost and the transaction rolled back. *)
RecordLost(w) ==
  /\ writer[w].pc = "record"
  /\ faults < MaxFaults /\ faults' = faults + 1
  /\ Released(w)
  /\ UNCHANGED <<log, events, snapshot, row, folder, stream, pager>>

(* enforceWorkflowTimeout: an open run past its deadline is timed out by an *)
(* optimistic append behind the history that was read.                      *)
TimeoutRead(w) ==
  LET seen == FoldRunEvents(ReadEvents(events, 0), InitialProjection)
  IN /\ writer[w].pc = "idle"
     /\ DOMAIN events # {} /\ ~IsTerminalState(seen.state)
     /\ Len(log) < MaxLog
     /\ writer' = [writer EXCEPT ![w] = [pc |-> "check", expected |-> seen.last]]
     /\ UNCHANGED <<log, events, snapshot, row, lock, folder, stream, pager, faults>>

(* append, first statement: the sequence number must be the expected one. *)
AppendCheck(w) ==
  /\ writer[w].pc = "check"
  /\ writer' = [writer EXCEPT ![w] = IF CurrentSequence = writer[w].expected
                                       THEN [writer[w] EXCEPT !.pc = "insert"]
                                       ELSE IdleWriter]
  /\ UNCHANGED <<log, events, snapshot, row, lock, folder, stream, pager, faults>>

(* append, second statement: the unique constraint has the last word. *)
AppendInsert(w) ==
  LET seq == writer[w].expected + 1
  IN /\ writer[w].pc = "insert"
     /\ IF Taken(seq) THEN UNCHANGED <<events, log>>
        ELSE /\ events' = Inserted(seq, "run_timed_out")
             /\ log' = Append(log, "run_timed_out")
     /\ writer' = [writer EXCEPT ![w] = IdleWriter]
     /\ UNCHANGED <<snapshot, row, lock, folder, stream, pager, faults>>

-----------------------------------------------------------------------------
(* refreshProjection and rebuildProjection: foldInto. *)

(* Where the fold starts: from the row, or from the snapshot. *)
StartFrom(mode) == IF mode = "refresh" THEN row ELSE SnapshotOrInitial

FoldObserve(f, mode) ==
  /\ \/ folder[f].pc = "idle" /\ (mode = "rebuild" => OpenRebuilds \/ IsTerminalState(row.state))
     \/ folder[f].pc = "again" /\ folder[f].mode = mode
  /\ folder' = [folder EXCEPT ![f] = [pc |-> "read", mode |-> mode,
                                      observed |-> StartFrom(mode), seen |-> << >>]]
  /\ UNCHANGED <<log, events, snapshot, row, lock, writer, stream, pager, faults>>

FoldRead(f) ==
  /\ folder[f].pc = "read"
  /\ folder' = [folder EXCEPT ![f].pc = "fold",
                              ![f].seen = ReadEvents(events, folder[f].observed.last)]
  /\ UNCHANGED <<log, events, snapshot, row, lock, writer, stream, pager, faults>>

(* Mutant: what was read before the lock is written. *)
FoldCommitObserved(f) ==
  LET next == FoldRunEvents(folder[f].seen, folder[f].observed)
  IN /\ folder[f].pc = "fold" /\ lock = None
     /\ row' = IF next.state = Rejected.state THEN row ELSE next
     /\ folder' = [folder EXCEPT ![f] = IdleFolder]
     /\ UNCHANGED <<log, events, snapshot, lock, writer, stream, pager, faults>>

(* Under the row lock the start is read again; when it has moved, the fold  *)
(* starts over.                                                             *)
FoldCommit(f) ==
  LET start == StartFrom(folder[f].mode)
      next  == FoldRunEvents(folder[f].seen, start)
      moved == start.last # folder[f].observed.last
  IN /\ folder[f].pc = "fold" /\ lock = None
     /\ row' = IF moved \/ next.state = Rejected.state THEN row ELSE next
     /\ folder' = [folder EXCEPT ![f] =
                     IF moved THEN [IdleFolder EXCEPT !.pc = "again", !.mode = folder[f].mode]
                     ELSE IdleFolder]
     /\ UNCHANGED <<log, events, snapshot, lock, writer, stream, pager, faults>>

-----------------------------------------------------------------------------
(* No transaction that was appending when the run closed outlives the       *)
(* retention of closed runs.                                                *)
RetentionPassed == \A w \in Writer : writer[w].pc # "insert"

(* compactRun, under the row lock: fold all but the tail into the snapshot  *)
(* and delete what it replaces.                                             *)
CompactRun ==
  LET found  == ReadEvents(events, SnapshotOrInitial.last)
      cut    == IF Len(found) > TailEvents THEN Len(found) - TailEvents ELSE 0
      folded == FoldRunEvents(SubSeq(found, 1, cut), SnapshotOrInitial)
  IN /\ lock = None /\ IsTerminalState(row.state) /\ RetentionPassed
     /\ folded.state # Rejected.state
     /\ snapshot' = folded
     /\ events' = [s \in {n \in DOMAIN events : n > folded.last} |-> events[s]]
     /\ UNCHANGED <<log, row, lock, writer, folder, stream, pager, faults>>

-----------------------------------------------------------------------------
(* Readers. *)

Seqs(es) == [i \in DOMAIN es |-> es[i].seq]

LastOf(seqs, default) == IF seqs = << >> THEN default ELSE Last(seqs)

(* The client's timeline: what it has, and what is new of a slice, in order. *)
MergeEntries(existing, incoming) ==
  Ascending(Range(existing) \cup Range(incoming))

(* The client takes a slice. *)
TakeSlice(st, status, new) ==
  [st EXCEPT !.pc = "status", !.lastStatus = status, !.cursor = LastOf(new, st.cursor),
             !.before = st.got, !.got = MergeEntries(st.got, new)]

(* readHistorySince reads the status first, *)
StreamStatus(s) ==
  /\ stream[s].pc = "status"
  /\ stream' = [stream EXCEPT ![s].pc = "events", ![s].status = row.state]
  /\ UNCHANGED <<log, events, snapshot, row, lock, writer, folder, pager, faults>>

(* then the events after the cursor.  A slice with news is sent; without    *)
(* news the stream of a closed run ends.                                    *)
StreamSlice(s) ==
  LET st   == stream[s]
      new  == Seqs(ReadEvents(events, st.cursor))
      news == new # << >> \/ st.status # st.lastStatus
  IN /\ st.pc = "events"
     /\ stream' = [stream EXCEPT ![s] =
          CASE news -> TakeSlice(st, st.status, new)
            [] ~news /\ IsTerminalState(st.status) -> [st EXCEPT !.pc = "ended"]
            [] OTHER -> [st EXCEPT !.pc = "status"]]
     /\ UNCHANGED <<log, events, snapshot, row, lock, writer, folder, pager, faults>>

(* The connection ends, at its deadline or by a fault that may take the     *)
(* last slice with it.  The run view comes back for what follows its last   *)
(* entry; a client that only repeats its request asks for all of it again.  *)
Resumed(kept, after) ==
  [NewStream EXCEPT !.cursor = after, !.got = kept, !.before = kept]

StreamReconnect(s, kept, after) ==
  /\ stream[s].pc \notin {"ended", "refused"}
  /\ kept \in {stream[s].got, stream[s].before} /\ after \in {0, LastOf(kept, 0)}
  /\ faults < MaxFaults /\ faults' = faults + 1
  /\ stream' = [stream EXCEPT ![s] = Resumed(kept, after)]
  /\ UNCHANGED <<log, events, snapshot, row, lock, writer, folder, pager>>

(* An answer other than 429 ends the view. *)
StreamRefused(s) ==
  /\ stream[s].pc = "status" /\ stream[s].lastStatus = None
  /\ faults < MaxFaults /\ faults' = faults + 1
  /\ stream' = [stream EXCEPT ![s].pc = "refused"]
  /\ UNCHANGED <<log, events, snapshot, row, lock, writer, folder, pager>>

(* Mutant: the cursor of the event that was read but not shown. *)
NextCursorOfRead(found, shown) == LastOf(found, 0)

(* The cursor of the next page is the last event shown. *)
NextCursor(found, shown) == LastOf(shown, 0)

(* The client of the pages keeps what it is shown and follows the cursor. *)
TakePage(pg, shown, cursor) ==
  [pc |-> IF cursor = 0 THEN "done" ELSE "more", cursor |-> cursor, got |-> pg.got \o shown]

(* getHistory reads one event more than it shows, to know of a next page. *)
GetHistory(p) ==
  LET found == Seqs(ReadEvents(events, pager[p].cursor))
      more  == Len(found) > PageLimit
      shown == IF more THEN SubSeq(found, 1, PageLimit) ELSE found
      next  == IF more THEN NextCursor(SubSeq(found, 1, PageLimit + 1), shown) ELSE 0
  IN /\ pager[p].pc = "more"
     /\ pager' = [pager EXCEPT ![p] = TakePage(pager[p], shown, next)]
     /\ UNCHANGED <<log, events, snapshot, row, lock, writer, folder, stream, faults>>

-----------------------------------------------------------------------------
Next ==
  \/ \E w \in Writer :
       \/ RecordLock(w)
       \/ \E kind \in {"step_completed", "run_completed"} : RecordCommit(w, kind)
       \/ RecordLost(w)
       \/ TimeoutRead(w) \/ AppendCheck(w) \/ AppendInsert(w)
  \/ \E f \in Folder :
       \/ \E mode \in {"refresh", "rebuild"} : FoldObserve(f, mode)
       \/ FoldRead(f) \/ FoldCommit(f)
  \/ CompactRun
  \/ \E s \in Stream :
       \/ StreamStatus(s) \/ StreamSlice(s) \/ StreamRefused(s)
       \/ \E kept \in {stream[s].got, stream[s].before} :
            \E after \in {0, LastOf(kept, 0)} : StreamReconnect(s, kept, after)
  \/ \E p \in Pager : GetHistory(p)

Spec == Init /\ [][Next]_vars

-----------------------------------------------------------------------------
(* describeProjectionDifference: what the row shows of the run against what *)
(* the log says; the sequence number is compared by the caller.             *)
Differs(r, expected) == r.state # expected.state

(* The invariant checker's inconsistentProjections for this run: the row    *)
(* must lie between snapshot and log end and equal the fold up to it, and a *)
(* closed log must have closed the row.                                     *)
InconsistentProjection ==
  LET base    == SnapshotOrInitial
      found   == ReadEvents(events, base.last)
      logEnd  == LastOf(Seqs(found), base.last)
      upToRow == FoldRunEvents(ReadEvents([s \in {n \in DOMAIN events : n <= row.last} |-> events[s]],
                                    base.last), base)
      full    == FoldRunEvents(found, base)
  IN \/ row.last > logEnd
     \/ row.last < base.last
     \/ Differs(row, upToRow)
     \/ full.state = Rejected.state
     \/ IsTerminalState(full.state) /\ ~IsTerminalState(upToRow.state)

(* The full log, numbered, up to a sequence number. *)
LogUpTo(n) == [i \in 1..n |-> [seq |-> i, kind |-> log[i]]]

Closed == \E i \in DOMAIN log : log[i] \in DOMAIN StateFor

(* Whatever appends, folds and compactions do at once, the numbers of the   *)
(* events are those of the log without a gap or a number used twice, the    *)
(* run's row and its snapshot are the fold of the whole log up to their     *)
(* sequence number although the snapshot's events are gone, and the         *)
(* invariant checker has nothing to report but a closing event that the row *)
(* has not been folded with yet.                                            *)
ProjectionExact ==
  /\ DOMAIN events = (SnapshotOrInitial.last + 1)..Len(log)
  /\ \A s \in DOMAIN events : events[s] = log[s]
  /\ \A p \in {row, SnapshotOrInitial} :
       p.last <= Len(log) /\ p = FoldRunEvents(LogUpTo(p.last), InitialProjection)
  /\ InconsistentProjection => Closed /\ ~IsTerminalState(row.state)

Increasing(seqs) == \A i, j \in DOMAIN seqs : i < j => seqs[i] < seqs[j]

Holds(seqs, n) == \E i \in DOMAIN seqs : seqs[i] = n

Pruned(n) == n <= SnapshotOrInitial.last

(* A client that follows a run, over any number of connections, and one     *)
(* that reads page after page, get each event once and in order, and miss   *)
(* only what the compactor deleted before they came to it; a stream ends    *)
(* only when the run is closed and its client has all of the history.       *)
ReadersMissNothing ==
  /\ \A got \in {stream[s].got : s \in Stream} \cup {pager[p].got : p \in Pager} :
       /\ Increasing(got)
       /\ \A n \in 1..LastOf(got, 0) : Holds(got, n) \/ Pruned(n)
  /\ \A s \in Stream : stream[s].pc = "ended" =>
       Closed /\ \A n \in DOMAIN log : Holds(stream[s].got, n) \/ Pruned(n)

(* The row of a run never goes back to an earlier point of the history, and *)
(* a closed run is never opened again by a fold that read the history       *)
(* before it closed.                                                        *)
RowNeverBack ==
  [][row'.last >= row.last /\ (IsTerminalState(row.state) => row' = row)]_vars
=============================================================================
