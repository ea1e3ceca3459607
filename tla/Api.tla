--------------------------------- MODULE Api ---------------------------------
(***************************************************************************)
(* The HTTP API: requests that are throttled, authenticated, held against  *)
(* the limits of their namespace and then start a run, signal, cancel or   *)
(* terminate one, or stream one.  A request is a chain of awaits; between  *)
(* any two of them every other request, the workers and the operator may   *)
(* act.  What one process keeps in memory (failed credentials, rate        *)
(* buckets, open streams) is lost when it restarts.  What a request asks   *)
(* for is chosen when the code first looks at it.                          *)
(***************************************************************************)
EXTENDS Integers, Sequences, FiniteSets, FiniteSetsExt

CONSTANTS
  Request,        \* requests the process handles at once
  Namespace, ApiKey, Address,
  StartInput,     \* [key, body]: idempotency keys (or None) and request bodies
  MaxRuns,        \* maxConcurrentRuns of every namespace
  MaxTasks,       \* maxPendingTasks of every namespace
  MaxQueueDepth, MaxStreams, MaxFailures,
  MaxTracked,     \* MAX_TRACKED_ADDRESSES
  Unit,           \* a token of the rate limit, in the parts a tick refills
  Refill,         \* parts refilled per tick
  Burst,          \* tokens of a full bucket
  ClockStep,      \* how far the system clock may move at once
  MaxRequests,    \* bound on requests
  MaxHappenings   \* bound on what operators, clocks and crashes do

ASSUME ApiAssumption ==
  /\ {MaxRuns, MaxTasks, MaxQueueDepth, MaxStreams, MaxFailures, MaxTracked,
      Unit, Refill, Burst} \subseteq Nat \ {0}
  /\ ClockStep \subseteq Int
  /\ MaxRequests \in Nat /\ MaxHappenings \in Nat
  /\ IsFiniteSet(Request)

VARIABLES
  apiKeys,      \* api_keys: key -> namespace and whether it was revoked
  runs,         \* workflow_runs in the order of their start, with their tasks counted
  request,      \* slot -> the request it handles
  failures,     \* addresses with failed credentials, oldest first
  bucket,       \* namespace -> its rate bucket
  openStreams,  \* namespace -> streams counted open
  now,          \* the system clock, from an arbitrary reading
  granted,      \* namespace -> tokens given, first and highest reading (for a property)
  arrived, happened

vars == <<apiKeys, runs, request, failures, bucket, openStreams, now, granted,
          arrived, happened>>

None == "none"

Idle == [pc |-> "idle", kind |-> None, token |-> None, address |-> None, ns |-> None,
         input |-> [key |-> None, body |-> None], run |-> 0, answer |-> None]

NoBucket == [tokens |-> -1, updatedAt |-> 0]
NoGrant == [count |-> 0, first |-> 0, high |-> 0]

Init ==
  /\ apiKeys = [k \in ApiKey |-> [ns |-> None, revoked |-> FALSE]]
  /\ runs = << >>
  /\ request = [q \in Request |-> Idle]
  /\ failures = << >>
  /\ bucket = [n \in Namespace |-> NoBucket]
  /\ openStreams = [n \in Namespace |-> 0]
  /\ now = 3
  /\ granted = [n \in Namespace |-> NoGrant]
  /\ arrived = 0 /\ happened = 0

-----------------------------------------------------------------------------
(* Failed credentials. *)

WindowOf(address) == SelectSeq(failures, LAMBDA w : w.address = address /\ ~w.over)

RejectIfThrottled(address) ==
  \E i \in DOMAIN failures :
    failures[i].address = address /\ ~failures[i].over /\ failures[i].count >= MaxFailures

(* A full table first forgets the windows that are over, then the oldest. *)
Evicted(fs) ==
  IF Len(fs) < MaxTracked THEN fs
  ELSE LET current == SelectSeq(fs, LAMBDA w : ~w.over)
       IN IF Len(current) < MaxTracked THEN current ELSE Tail(current)

(* An address whose window is over keeps its place in the table (a Map). *)
RecordFailure(address) ==
  LET fresh == [address |-> address, count |-> 1, over |-> FALSE]
      kept  == Evicted(failures)
      old(fs) == {i \in DOMAIN fs : fs[i].address = address}
  IN IF WindowOf(address) # << >>
       THEN [i \in DOMAIN failures |-> IF failures[i].address = address
                                         THEN [failures[i] EXCEPT !.count = @ + 1]
                                         ELSE failures[i]]
     ELSE IF old(kept) # {} THEN [i \in DOMAIN kept |-> IF i \in old(kept) THEN fresh ELSE kept[i]]
     ELSE Append(kept, fresh)

-----------------------------------------------------------------------------
(* A step of a request, and its last one. *)
Goes(q, to) == request' = [request EXCEPT ![q] = to]

(* The status of an answer: what the routes and the guards send, and        *)
(* toErrorResult for what a service throws.                                 *)
StatusOf(answer) ==
  CASE answer \in {"existing", "signalled", "terminated", "requeued", "streamed", "scraped"} -> 200
    [] answer = "created" -> 201
    [] answer = "cancelling" -> 202
    [] answer = "bad_request" -> 400
    [] answer = "unauthorized" -> 401
    [] answer = "not_found" -> 404
    [] answer \in {"run_closed", "conflict"} -> 409
    [] answer \in {"throttled", "rate_limited", "quota_exceeded", "stream_limit"} -> 429
    [] answer = "overloaded" -> 503
    [] OTHER -> 500

(* An answered request keeps what it asked for, not who asked. *)
AnsweredBy(r, answer) ==
  [r EXCEPT !.pc = "answered", !.answer = answer, !.token = None, !.address = None]

Answered(q, answer) == AnsweredBy(request[q], answer)

Comes(q) ==
  /\ request[q].pc \in {"idle", "answered"}
  /\ arrived < MaxRequests /\ arrived' = arrived + 1
  /\ UNCHANGED <<apiKeys, runs, bucket, openStreams, now, granted, happened>>

(* A throttled address is answered without counting; anybody else without   *)
(* credentials is a failure.                                                *)
TurnAway(q, address) ==
  \/ /\ RejectIfThrottled(address)
     /\ Goes(q, AnsweredBy(Idle, "throttled"))
     /\ UNCHANGED failures
  \/ /\ ~RejectIfThrottled(address)
     /\ Goes(q, AnsweredBy(Idle, "unauthorized"))
     /\ failures' = RecordFailure(address)

(* A request for a run comes in; it is turned away, without a query, when   *)
(* its address is throttled or it has no token.                             *)
Arrive(q, token, address) ==
  /\ Comes(q)
  /\ \/ (token = None \/ RejectIfThrottled(address)) /\ TurnAway(q, address)
     \/ /\ token # None /\ ~RejectIfThrottled(address)
        /\ Goes(q, [Idle EXCEPT !.pc = "authenticate", !.token = token, !.address = address])
        /\ UNCHANGED failures

(* The metrics have a token of their own: whoever has it is never throttled. *)
Scrape(q, address, accepted) ==
  /\ Comes(q)
  /\ \/ ~accepted /\ TurnAway(q, address)
     \/ accepted /\ Goes(q, AnsweredBy(Idle, "scraped")) /\ UNCHANGED failures

(* Unknown and revoked keys are refused. *)
Authenticate(q) ==
  LET key == apiKeys[request[q].token]
      ok  == key.ns # None /\ ~key.revoked
  IN /\ request[q].pc = "authenticate"
     /\ Goes(q, IF ok THEN [request[q] EXCEPT !.pc = "rate", !.ns = key.ns]
                ELSE Answered(q, "unauthorized"))
     /\ failures' = IF ok THEN failures ELSE RecordFailure(request[q].address)
     /\ UNCHANGED <<apiKeys, runs, bucket, openStreams, now, granted, arrived, happened>>

-----------------------------------------------------------------------------
(* The quota guard. *)

(* Mutant: the bucket takes any reading of the clock. *)
LatestReading(b) == now

UpdatedAt(b) == IF now > b.updatedAt THEN now ELSE b.updatedAt

(* The bucket when a request takes from it: a clock that went back refills  *)
(* nothing.                                                                 *)
Refilled(n) ==
  LET b     == IF bucket[n] = NoBucket THEN [tokens |-> Burst * Unit, updatedAt |-> now]
               ELSE bucket[n]
      whole == b.tokens + Refill * (IF now > b.updatedAt THEN now - b.updatedAt ELSE 0)
  IN [tokens |-> IF whole > Burst * Unit THEN Burst * Unit ELSE whole,
      updatedAt |-> UpdatedAt(b)]

Grant(n) ==
  LET g == granted[n]
  IN [count |-> g.count + 1,
      first |-> IF bucket[n] = NoBucket THEN now ELSE g.first,
      high |-> IF bucket[n] = NoBucket \/ now > g.high THEN now ELSE g.high]

TakeToken(q, kind) ==
  LET n == request[q].ns
      b == Refilled(n)
      allowed == b.tokens >= Unit
  IN /\ request[q].pc = "rate"
     /\ bucket' = [bucket EXCEPT ![n] = IF allowed THEN [b EXCEPT !.tokens = @ - Unit] ELSE b]
     /\ granted' = IF allowed THEN [granted EXCEPT ![n] = Grant(n)] ELSE granted
     /\ Goes(q, IF ~allowed THEN Answered(q, "rate_limited")
                ELSE [request[q] EXCEPT !.kind = kind, !.pc = IF kind = "stream" THEN "open" ELSE "depth"])
     /\ UNCHANGED <<apiKeys, runs, failures, openStreams, now, arrived, happened>>

OfNamespace(n) == {r \in DOMAIN runs : runs[r].ns = n}

OpenRuns(n) == Cardinality({r \in OfNamespace(n) : runs[r].open})

QueueDepth == MapThenSumSet(LAMBDA r : runs[r].pending, DOMAIN runs)

PendingTasks(n) == MapThenSumSet(LAMBDA r : runs[r].pending + runs[r].leased, OfNamespace(n))

(* Backpressure: a full queue admits no writes of any namespace. *)
CheckDepth(q) ==
  /\ request[q].pc = "depth"
  /\ Goes(q, IF QueueDepth >= MaxQueueDepth THEN Answered(q, "overloaded")
             ELSE [request[q] EXCEPT !.pc = "usage"])
  /\ UNCHANGED <<apiKeys, runs, failures, bucket, openStreams, now, granted,
                 arrived, happened>>

(* Mutant: a task a worker has taken counts no more.                        *)
WaitingFull(n) == MapThenSumSet(LAMBDA r : runs[r].pending, OfNamespace(n)) >= MaxTasks

TasksFull(n) == PendingTasks(n) >= MaxTasks

RunsFull(n) == OpenRuns(n) >= MaxRuns

CheckUsage(q, input) ==
  LET r == request[q]
      full == TasksFull(r.ns) \/ (r.kind = "start" /\ RunsFull(r.ns))
  IN /\ r.pc = "usage"
     /\ Goes(q, CASE full -> Answered(q, "quota_exceeded")
                  [] ~full /\ r.kind = "start" -> [r EXCEPT !.pc = "find", !.input = input]
                  [] OTHER -> [r EXCEPT !.pc = "write", !.run = 1])
     /\ UNCHANGED <<apiKeys, runs, failures, bucket, openStreams, now, granted,
                    arrived, happened>>

(* readBody and the schemas of the routes: too long, no JSON or not what    *)
(* the route takes.                                                         *)
RefuseBody(q) ==
  /\ request[q].pc \in {"find", "write"}
  /\ Goes(q, Answered(q, "bad_request"))
  /\ UNCHANGED <<apiKeys, runs, failures, bucket, openStreams, now, granted,
                 arrived, happened>>

-----------------------------------------------------------------------------
(* startRun. *)

(* The run the namespace started with an idempotency key. *)
WithKey(n, key) == {r \in DOMAIN runs : key # None /\ runs[r].ns = n /\ runs[r].key = key}

Found(q, r) ==
  [Answered(q, IF runs[r].body = request[q].input.body THEN "existing" ELSE "conflict")
     EXCEPT !.run = r]

(* The first look for the key; without a run it goes on to the insert, and  *)
(* the look after a lost race finds the run that won.                       *)
FindByKey(q) ==
  LET r == request[q]
      known == WithKey(r.ns, r.input.key)
  IN /\ r.pc \in {"find", "raced"}
     /\ Goes(q, CASE known # {} -> Found(q, CHOOSE x \in known : TRUE)
                  [] known = {} /\ r.pc = "find" -> [r EXCEPT !.pc = "insert"]
                  [] OTHER -> Answered(q, "internal"))
     /\ UNCHANGED <<apiKeys, runs, failures, bucket, openStreams, now, granted,
                    arrived, happened>>

(* Mutant: no unique index. *)
NoConflict(n, key) == FALSE

(* The unique index on (namespace_id, idempotency_key). *)
Conflict(n, key) == WithKey(n, key) # {}

(* The run, its first event and its first task, in one transaction. *)
InsertRun(q) ==
  LET r == request[q]
      new == [ns |-> r.ns, key |-> r.input.key, body |-> r.input.body, open |-> TRUE,
              asked |-> FALSE, pending |-> 1, leased |-> 0, letter |-> "none"]
  IN /\ r.pc = "insert"
     /\ \/ /\ Conflict(r.ns, r.input.key)
           /\ Goes(q, [r EXCEPT !.pc = "raced"])
           /\ UNCHANGED runs
        \/ /\ ~Conflict(r.ns, r.input.key)
           /\ runs' = Append(runs, new)
           /\ Goes(q, [Answered(q, "created") EXCEPT !.run = Len(runs) + 1])
     /\ UNCHANGED <<apiKeys, failures, bucket, openStreams, now, granted, arrived, happened>>

(* assertOwned: a run of another namespace is a run that does not exist. *)
Owned(n, r) == r \in DOMAIN runs /\ runs[r].ns = n

(* The route of a write: the transaction that changes the row, unless the   *)
(* run is none of the caller's or closed.  row: what becomes of the row.    *)
WriteRun(q, kind, row, answer) ==
  LET r == request[q]
      accepted == Owned(r.ns, r.run) /\ runs[r.run].open
  IN /\ r.pc = "write" /\ r.kind = kind
     /\ runs' = IF accepted THEN [runs EXCEPT ![r.run] = row] ELSE runs
     /\ Goes(q, Answered(q, CASE ~Owned(r.ns, r.run) -> "not_found"
                              [] accepted -> answer
                              [] OTHER -> "run_closed"))
     /\ UNCHANGED <<apiKeys, failures, bucket, openStreams, now, granted, arrived, happened>>

Target(q) == runs[request[q].run]

WithTask(row) == [row EXCEPT !.pending = @ + 1]

SignalRun(q) == WriteRun(q, "signal", WithTask(Target(q)), "signalled")

(* A second request for cancellation adds nothing. *)
AskedRow(row) == IF row.asked THEN row ELSE [WithTask(row) EXCEPT !.asked = TRUE]

CancelRun(q) == WriteRun(q, "cancel", AskedRow(Target(q)), "cancelling")

(* Closing withdraws the tasks that wait. *)
ClosedRow(row) == [row EXCEPT !.open = FALSE, !.pending = 0]

TerminateRun(q) == WriteRun(q, "terminate", ClosedRow(Target(q)), "terminated")

HasLetter(r) == r \in DOMAIN runs /\ runs[r].letter = "open"

(* requeueDeadLetter looks at the letter first, *)
FindLetter(q) ==
  LET r == request[q]
  IN /\ r.pc = "write" /\ r.kind = "requeue"
     /\ Goes(q, IF Owned(r.ns, r.run) /\ HasLetter(r.run) THEN [r EXCEPT !.pc = "requeue"]
                ELSE Answered(q, "not_found"))
     /\ UNCHANGED <<apiKeys, runs, failures, bucket, openStreams, now, granted, arrived, happened>>

(* and takes it in a transaction of its own; the run may be closed by then. *)
RequeueLetter(q) ==
  LET r == request[q]
      found == HasLetter(r.run)
  IN /\ r.pc = "requeue"
     /\ runs' = IF found THEN [runs EXCEPT ![r.run] = [WithTask(@) EXCEPT !.letter = "requeued"]]
                ELSE runs
     /\ Goes(q, Answered(q, IF found THEN "requeued" ELSE "not_found"))
     /\ UNCHANGED <<apiKeys, failures, bucket, openStreams, now, granted, arrived, happened>>

-----------------------------------------------------------------------------
(* streamRun: the stream is counted before its first read and until it      *)
(* ends, whatever ends it.                                                  *)
OpenStream(q) ==
  LET n == request[q].ns
      full == openStreams[n] >= MaxStreams
  IN /\ request[q].pc = "open"
     /\ openStreams' = IF full THEN openStreams ELSE [openStreams EXCEPT ![n] = @ + 1]
     /\ Goes(q, IF full THEN Answered(q, "stream_limit")
                ELSE [request[q] EXCEPT !.pc = "pump", !.run = 1])
     /\ UNCHANGED <<apiKeys, runs, failures, bucket, now, granted, arrived, happened>>

EndStream(q) ==
  /\ request[q].pc = "pump"
  /\ openStreams' = [openStreams EXCEPT ![request[q].ns] = IF @ > 1 THEN @ - 1 ELSE 0]
  /\ Goes(q, Answered(q, IF Owned(request[q].ns, request[q].run) THEN "streamed" ELSE "not_found"))
  /\ UNCHANGED <<apiKeys, runs, failures, bucket, now, granted, arrived, happened>>

-----------------------------------------------------------------------------
(* Around the requests. *)

Happens == happened < MaxHappenings /\ happened' = happened + 1

(* issue and adopt: a key that is known keeps its namespace and its         *)
(* revocation; adopting it again changes nothing or is refused.             *)
AdoptKey(k, n) ==
  /\ apiKeys[k].ns = None
  /\ apiKeys' = [apiKeys EXCEPT ![k].ns = n]
  /\ UNCHANGED <<runs, request, failures, bucket, openStreams, now, granted,
                 arrived, happened>>

RevokeKey(k) ==
  /\ apiKeys[k].ns # None /\ ~apiKeys[k].revoked
  /\ Happens
  /\ apiKeys' = [apiKeys EXCEPT ![k].revoked = TRUE]
  /\ UNCHANGED <<runs, request, failures, bucket, openStreams, now, granted, arrived>>

(* The system clock moves, forwards or back. *)
ClockMoves(by) ==
  /\ now + by >= 0
  /\ Happens
  /\ now' = now + by
  /\ UNCHANGED <<apiKeys, runs, request, failures, bucket, openStreams, granted, arrived>>

(* The window of an address' failures passes. *)
WindowPasses(i) ==
  /\ ~failures[i].over
  /\ Happens
  /\ failures' = [failures EXCEPT ![i].over = TRUE]
  /\ UNCHANGED <<apiKeys, runs, request, bucket, openStreams, now, granted, arrived>>

(* Workers take and finish tasks and close runs. *)
LeaseTask(r) ==
  /\ runs[r].pending > 0
  /\ Happens
  /\ runs' = [runs EXCEPT ![r].pending = @ - 1, ![r].leased = @ + 1]
  /\ UNCHANGED <<apiKeys, request, failures, bucket, openStreams, now, granted, arrived>>

CloseRun(r) ==
  /\ runs[r].open /\ runs[r].leased > 0
  /\ Happens
  /\ runs' = [runs EXCEPT ![r] = [ClosedRow(runs[r]) EXCEPT !.leased = @ - 1]]
  /\ UNCHANGED <<apiKeys, request, failures, bucket, openStreams, now, granted, arrived>>

(* A step task exhausts its attempts: its dead letter waits for an operator. *)
BuryTask(r) ==
  /\ runs[r].leased > 0 /\ runs[r].letter = "none"
  /\ Happens
  /\ runs' = [runs EXCEPT ![r].leased = @ - 1, ![r].letter = "open"]
  /\ UNCHANGED <<apiKeys, request, failures, bucket, openStreams, now, granted, arrived>>

(* The process dies and starts again: every request is cut off, and what it *)
(* kept in memory is gone.                                                  *)
Restart ==
  /\ Happens
  /\ request' = [q \in Request |-> Idle]
  /\ failures' = << >>
  /\ bucket' = [n \in Namespace |-> NoBucket]
  /\ openStreams' = [n \in Namespace |-> 0]
  /\ granted' = [n \in Namespace |-> NoGrant]
  /\ UNCHANGED <<apiKeys, runs, now, arrived>>

-----------------------------------------------------------------------------
Kind == {"start", "signal", "cancel", "terminate", "requeue", "stream"}

Handle(q) ==
  \/ Authenticate(q) \/ CheckDepth(q)
  \/ \E kind \in Kind : TakeToken(q, kind)
  \/ \E input \in StartInput : CheckUsage(q, input)
  \/ RefuseBody(q)
  \/ FindByKey(q) \/ InsertRun(q) \/ SignalRun(q) \/ CancelRun(q) \/ TerminateRun(q)
  \/ FindLetter(q) \/ RequeueLetter(q)
  \/ OpenStream(q) \/ EndStream(q)

Next ==
  \/ \E q \in Request :
       \/ \E token \in ApiKey \cup {None}, address \in Address : Arrive(q, token, address)
       \/ \E address \in Address, accepted \in BOOLEAN : Scrape(q, address, accepted)
       \/ Handle(q)
  \/ \E k \in ApiKey : RevokeKey(k) \/ \E n \in Namespace : AdoptKey(k, n)
  \/ \E by \in ClockStep : ClockMoves(by)
  \/ \E i \in DOMAIN failures : WindowPasses(i)
  \/ \E r \in DOMAIN runs : LeaseTask(r) \/ BuryTask(r) \/ CloseRun(r)
  \/ Restart

Spec == Init /\ [][Next]_vars

-----------------------------------------------------------------------------
(* However starts with one idempotency key interleave, are cut off and are  *)
(* sent again, a namespace has one run for the key; who is answered         *)
(* "created" or "existing" gets a run made by the request it sent, a        *)
(* conflict is answered only to another body, and one run is not "created", *)
(* and its dead letter not requeued, for two requests.  No request succeeds *)
(* on a run of another namespace, and none ends in an internal error: the   *)
(* race never leaves a duplicate that no run explains (run-service.ts,      *)
(* startRun, requeueDeadLetter and assertOwned).                            *)
StartsOnce ==
  /\ \A r, s \in DOMAIN runs :
       r # s /\ runs[r].ns = runs[s].ns => runs[r].key = None \/ runs[r].key # runs[s].key
  /\ \A q \in Request : request[q].pc = "answered" =>
       LET r == request[q]
       IN /\ StatusOf(r.answer) # 500
          /\ StatusOf(r.answer) < 300 \/ r.answer = "conflict" =>
               r.answer = "scraped" \/ Owned(r.ns, r.run)
          /\ r.answer \in {"created", "existing", "conflict"} =>
               /\ runs[r.run].key = r.input.key
               /\ (runs[r.run].body = r.input.body) = (r.answer # "conflict")
          /\ \A p \in Request \ {q} :
               r.answer \in {"created", "requeued"} /\ request[p].answer = r.answer =>
                 r.run # request[p].run

InFlight == Cardinality(Request) - 1

(* What the process counts itself holds exactly, as no await comes between  *)
(* the look and the count, and whatever ends a request: the count of open   *)
(* streams is that of the streams that are open, and within its limit; and  *)
(* however the clock jumps, a namespace is never given more requests than a *)
(* full bucket and what was refilled up to the highest time the clock has   *)
(* shown (streamRun in server.ts, take in token-bucket.ts).                 *)
CountsExact ==
  \A n \in Namespace :
    /\ openStreams[n] = Cardinality({q \in Request : request[q].pc = "pump" /\ request[q].ns = n})
    /\ openStreams[n] <= MaxStreams
    /\ granted[n].count * Unit <= Burst * Unit + Refill * (granted[n].high - granted[n].first)

RunsHeld == \A n \in Namespace : OpenRuns(n) <= MaxRuns + InFlight

(* The limits that are looked up in one query and used up in a later one    *)
(* are exceeded at most by the other requests in flight: open runs, tasks,  *)
(* the queue's depth, and the failures counted for an address (check in     *)
(* quota-guard.ts, recordFailure in server.ts).                             *)
LimitsHeld ==
  /\ RunsHeld
  /\ \A n \in Namespace : PendingTasks(n) <= MaxTasks + InFlight
  /\ QueueDepth <= MaxQueueDepth + InFlight
  /\ \A i \in DOMAIN failures : failures[i].count <= MaxFailures + InFlight
=============================================================================
