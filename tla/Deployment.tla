----------------------------- MODULE Deployment -----------------------------
(***************************************************************************)
(* The processes of a deployment, from their start to their exit, on one   *)
(* database: `wf migrate`, `wf serve`, `wf worker` and `wf dev` of the     *)
(* cli, with the migrator they share, the engine of worker/src/engine      *)
(* and its background loops, and the order in which all of it is stopped.  *)
(*                                                                         *)
(* A query is one step; between two queries of a process the other         *)
(* processes go on, it is killed, or its connection is lost.  A signal     *)
(* that comes before a command waits for it, or a second one, kills.  What *)
(* loops, tasks and requests do is the matter of the other modules.        *)
(***************************************************************************)
EXTENDS Integers, Sequences, SequencesExt, FiniteSets

CONSTANTS
  Proc,
  Jobs,          \* process -> what it may run: cmd, --migrate, migrations it ships
  MaxKnown,      \* migrations the newest build ships
  Production,    \* the processes with NODE_ENV=production
  Limits,        \* process -> the quota fields its flags set
  Revert,        \* how many migrations `wf migrate down` reverts
  Loops,         \* the background loops of an engine
  Immediate,     \* the loops whose first pass does not wait
  MaxFaults,     \* bound on what fails: queries, connections, listens
  MaxKills       \* bound on killed processes

Command == {"up", "down", "serve", "worker", "dev"}

Nobody == "nobody"

ASSUME DeploymentAssumption ==
  /\ Nobody \notin Proc
  /\ MaxKnown \in Nat
  /\ Jobs \in [Proc -> SUBSET [cmd : Command, migrate : BOOLEAN, known : 0..MaxKnown]]
  /\ Production \subseteq Proc
  /\ Revert \in Nat \ {0}
  /\ Immediate \subseteq Loops
  /\ MaxFaults \in Nat
  /\ MaxKills \in Nat

VARIABLES
  dbUp,      \* whether the database answers
  applied,   \* the ids in schema_migrations
  lock,      \* the process whose session holds the migration lock
  keys,      \* the api keys of the namespace, by the process that issued them
  quota,     \* quota field -> the process that set it, Nobody: unlimited
  job,       \* process -> what it runs
  pc,        \* process -> where its command is
  failed,    \* process -> whether its command throws
  session,   \* process -> the client its migrator took from the pool
  todo,      \* process -> the migrations still to apply or revert, in order
  seen,      \* process -> the quota it read
  loop,      \* process -> loop -> "off", "armed" or "pass"
  task,      \* process -> its worker: "off", "idle", "busy" or "dropped"
  server,    \* process -> whether it accepts connections
  pool,      \* process -> its connection pool: "none", "open" or "ended"
  faults, kills

dbVars == <<dbUp, applied, lock, keys, quota>>
partVars == <<loop, task, server>>
vars == <<dbVars, job, pc, failed, session, todo, seen, partVars, pool, faults, kills>>

Field == UNION {Limits[p] : p \in Proc}

Gapless == {1..n : n \in 0..MaxKnown}

Init ==
  /\ dbUp \in BOOLEAN
  /\ applied \in Gapless
  /\ lock = Nobody
  /\ keys \in {{}, {Nobody}}
  /\ quota = [f \in Field |-> Nobody]
  /\ job \in {f \in [Proc -> UNION {Jobs[p] : p \in Proc}] : \A p \in Proc : f[p] \in Jobs[p]}
  /\ pc = [p \in Proc |-> "off"]
  /\ failed = [p \in Proc |-> FALSE]
  /\ session = [p \in Proc |-> "none"]
  /\ todo = [p \in Proc |-> << >>]
  /\ seen = [p \in Proc |-> [f \in Field |-> Nobody]]
  /\ loop = [p \in Proc |-> [l \in Loops |-> "off"]]
  /\ task = [p \in Proc |-> "off"]
  /\ server = [p \in Proc |-> FALSE]
  /\ pool = [p \in Proc |-> "none"]
  /\ faults = 0
  /\ kills = 0

-----------------------------------------------------------------------------
Cmd(p) == job[p].cmd

At(p, label) == pc[p] = label

Goto(p, label) == pc' = [pc EXCEPT ![p] = label]

(* The command throws, and goes on in the finally block at label. *)
Throw(p, label) ==
  /\ failed' = [failed EXCEPT ![p] = TRUE]
  /\ Goto(p, label)

Fault == faults < MaxFaults /\ faults' = faults + 1

RunsEngine(p) == Cmd(p) \in {"worker", "dev"}

(* devCommand migrates always, serve and worker with --migrate. *)
Migrates(p) == Cmd(p) \in {"up", "down", "dev"} \/ job[p].migrate

Launch(p) ==
  /\ At(p, "off")
  /\ Goto(p, "probe")
  /\ UNCHANGED <<dbVars, job, failed, session, todo, seen, partVars, pool, faults, kills>>

(* ensureDatabase, then createPool.  Only outside production is the compose *)
(* service started; it may fail to start or to answer in time.              *)
EnsureDatabase(p) ==
  /\ At(p, "probe")
  /\ \/ /\ dbUp \/ p \notin Production
        /\ dbUp' = TRUE
        /\ pool' = [pool EXCEPT ![p] = "open"]
        /\ Goto(p, IF Migrates(p) THEN "lock" ELSE "check")
        /\ UNCHANGED <<failed, faults>>
     \/ /\ ~dbUp
        /\ \/ p \in Production /\ UNCHANGED faults
           \/ p \notin Production /\ Fault
        /\ Throw(p, "exited")
        /\ UNCHANGED <<dbUp, pool>>
  /\ UNCHANGED <<applied, lock, keys, quota, job, session, todo, seen, partVars, kills>>

-----------------------------------------------------------------------------
(* migrateUp and migrateDown *)

Ascending(S) ==
  CHOOSE s \in [1..Cardinality(S) -> S] : \A i, j \in DOMAIN s : i < j => s[i] < s[j]

(* The last n recorded ids, newest first. *)
LastForwards(S, n) == LET s == Ascending(S) IN
  SubSeq(s, IF Len(s) > n THEN Len(s) - n + 1 ELSE 1, Len(s))

LastReversed(S, n) == Reverse(LastForwards(S, n))

Shipped(p) == 1..job[p].known

MigratorUnchanged ==
  UNCHANGED <<dbUp, keys, quota, job, seen, partVars, pool, kills>>

AcquireLock(p) ==
  /\ At(p, "lock")
  /\ \/ /\ lock = Nobody
        /\ lock' = p
        /\ session' = [session EXCEPT ![p] = "live"]
        /\ Goto(p, "read")
        /\ UNCHANGED <<failed, faults>>
     \/ /\ Fault
        /\ Throw(p, "end")
        /\ UNCHANGED <<lock, session>>
  /\ UNCHANGED <<applied, todo>>
  /\ MigratorUnchanged

(* ensureMigrationsTable and getAppliedIds. *)
ReadApplied(p) ==
  /\ At(p, "read")
  /\ session[p] = "live"
  /\ todo' = [todo EXCEPT ![p] = IF Cmd(p) = "down" THEN LastReversed(applied, Revert)
                                 ELSE Ascending(Shipped(p) \ applied)]
  /\ Goto(p, "migrate")
  /\ UNCHANGED <<applied, lock, failed, session, faults>>
  /\ MigratorUnchanged

(* One transaction: the migration and its row. *)
CommitNext(p) ==
  LET m == Head(todo[p]) IN
  applied' = IF Cmd(p) = "down" THEN applied \ {m} ELSE applied \cup {m}

MissingFile(p) == Cmd(p) = "down" /\ Head(todo[p]) \notin Shipped(p)

MigrateNext(p) ==
  /\ At(p, "migrate")
  /\ session[p] = "live"
  /\ todo[p] # << >>
  /\ \/ /\ ~MissingFile(p)
        /\ CommitNext(p)
        /\ todo' = [todo EXCEPT ![p] = Tail(@)]
        /\ UNCHANGED <<pc, failed>>
     \/ /\ MissingFile(p)
        /\ Throw(p, "unlock")
        /\ UNCHANGED <<applied, todo>>
  /\ UNCHANGED <<lock, session, faults>>
  /\ MigratorUnchanged

(* A statement fails and is rolled back, or the commit's answer is lost     *)
(* with the connection, and the migration is in place all the same.         *)
MigrateFails(p) ==
  /\ At(p, "migrate")
  /\ session[p] = "live"
  /\ todo[p] # << >>
  /\ Fault
  /\ \/ UNCHANGED <<applied, session, lock>>
     \/ /\ ~MissingFile(p)
        /\ CommitNext(p)
        /\ session' = [session EXCEPT ![p] = "dead"]
        /\ lock' = Nobody
  /\ Throw(p, "unlock")
  /\ UNCHANGED todo
  /\ MigratorUnchanged

MigrationDone(p) ==
  /\ At(p, "migrate")
  /\ todo[p] = << >>
  /\ Goto(p, "unlock")
  /\ UNCHANGED <<applied, lock, failed, session, todo, faults>>
  /\ MigratorUnchanged

(* The connection is lost: the server ends the session, and with it the     *)
(* transaction and the advisory lock.                                       *)
ConnectionLost(p) ==
  /\ session[p] = "live"
  /\ Fault
  /\ session' = [session EXCEPT ![p] = "dead"]
  /\ lock' = IF lock = p THEN Nobody ELSE lock
  /\ UNCHANGED <<applied, pc, failed, todo>>
  /\ MigratorUnchanged

(* The next query on a lost connection throws. *)
QueryOnDead(p) ==
  /\ pc[p] \in {"read", "migrate"}
  /\ session[p] = "dead"
  /\ Throw(p, "unlock")
  /\ UNCHANGED <<applied, lock, session, todo, faults>>
  /\ MigratorUnchanged

(* client.release: a broken client is destroyed, and its session ends. *)
ReleasedToPool(p, unlocked) == lock' = IF unlocked /\ lock = p THEN Nobody ELSE lock

Released(p, unlocked) == lock' = IF lock = p THEN Nobody ELSE lock

AfterMigrating(p) ==
  IF failed[p] \/ Cmd(p) \in {"up", "down"} THEN "end"
  ELSE IF Cmd(p) = "dev" THEN "issue" ELSE "check"

(* The finally block: releaseMigrationLock and release.  An unlock that     *)
(* fails does not throw, it makes the client a broken one.                  *)
Unlock(p) ==
  /\ At(p, "unlock")
  /\ \/ session[p] = "live" /\ Released(p, TRUE) /\ UNCHANGED faults
     \/ session[p] = "live" /\ Fault /\ Released(p, FALSE)
     \/ session[p] = "dead" /\ UNCHANGED <<lock, faults>>
  /\ session' = [session EXCEPT ![p] = "none"]
  /\ todo' = [todo EXCEPT ![p] = << >>]
  /\ Goto(p, AfterMigrating(p))
  /\ UNCHANGED <<applied, failed>>
  /\ MigratorUnchanged

-----------------------------------------------------------------------------
(* serveCommand, workerCommand, devCommand and the environments they start *)

StartUnchanged == UNCHANGED <<dbUp, applied, lock, job, session, todo, pool, kills>>

PendingIfEmpty(p) == IF applied = {} THEN Shipped(p) ELSE {}

Pending(p) == Shipped(p) \ applied

CheckPending(p) ==
  /\ At(p, "check")
  /\ \/ /\ Pending(p) = {}
        /\ Goto(p, IF RunsEngine(p) THEN "engine" ELSE "key")
        /\ UNCHANGED <<failed, faults>>
     \/ Pending(p) # {} /\ Throw(p, "end") /\ UNCHANGED faults
     \/ Fault /\ Throw(p, "end")
  /\ UNCHANGED <<keys, quota, seen, partVars>>
  /\ StartUnchanged

(* The operator's key is adopted.  The one row of it belongs to Nobody.     *)
AdoptKey(p) ==
  /\ At(p, "key")
  /\ \/ /\ keys' = keys \cup {Nobody}
        /\ Goto(p, "quota")
        /\ UNCHANGED <<failed, faults>>
     \/ Fault /\ Throw(p, "end") /\ UNCHANGED keys
  /\ UNCHANGED <<quota, seen, partVars>>
  /\ StartUnchanged

(* Without WF_API_KEY: hasActiveKey. *)
FindKey(p) ==
  /\ At(p, "key")
  /\ \/ Goto(p, IF keys = {} THEN "issue" ELSE "quota") /\ UNCHANGED <<failed, faults>>
     \/ Fault /\ Throw(p, "end")
  /\ UNCHANGED <<keys, quota, seen, partVars>>
  /\ StartUnchanged

IssueKey(p) ==
  /\ At(p, "issue")
  /\ \/ /\ keys' = keys \cup {p}
        /\ Goto(p, IF Cmd(p) = "dev" THEN "engine" ELSE "quota")
        /\ UNCHANGED <<failed, faults>>
     \/ Fault /\ Throw(p, "end") /\ UNCHANGED keys
  /\ UNCHANGED <<quota, seen, partVars>>
  /\ StartUnchanged

ReadQuota(p) ==
  /\ At(p, "quota")
  /\ \/ /\ seen' = [seen EXCEPT ![p] = quota]
        /\ Goto(p, IF Limits[p] = {} THEN "listen" ELSE "set")
        /\ UNCHANGED <<failed, faults>>
     \/ Limits[p] # {} /\ Fault /\ Throw(p, "end") /\ UNCHANGED seen
  /\ UNCHANGED <<keys, quota, partVars>>
  /\ StartUnchanged

(* Every field is written: the flags', and what was read for the others. *)
SetQuota(p) ==
  /\ At(p, "set")
  /\ \/ /\ quota' = [f \in Field |-> IF f \in Limits[p] THEN p ELSE seen[p][f]]
        /\ Goto(p, "listen")
        /\ UNCHANGED <<failed, faults>>
     \/ Fault /\ Throw(p, "end") /\ UNCHANGED quota
  /\ seen' = [seen EXCEPT ![p] = [f \in Field |-> Nobody]]
  /\ UNCHANGED <<keys, partVars>>
  /\ StartUnchanged

(* startEngine: synchronous; the first pass of some loops is under way when *)
(* it returns.  A worker without --health-port has nothing to listen on.    *)
StartEngine(p) ==
  /\ At(p, "engine")
  /\ loop' = [loop EXCEPT ![p] = [l \in Loops |-> IF l \in Immediate THEN "pass" ELSE "armed"]]
  /\ task' = [task EXCEPT ![p] = "idle"]
  /\ \/ Goto(p, "listen")
     \/ Cmd(p) = "worker" /\ Goto(p, "running")
  /\ UNCHANGED <<keys, quota, seen, failed, server, faults>>
  /\ StartUnchanged

Listen(p) ==
  /\ At(p, "listen")
  /\ server' = [server EXCEPT ![p] = TRUE]
  /\ Goto(p, "running")
  /\ UNCHANGED <<keys, quota, seen, failed, loop, task, faults>>
  /\ StartUnchanged

(* engine.stop begins with every loop: a waiting one is cancelled, one in   *)
(* its pass is waited for.                                                  *)
CancelLoops(p) ==
  loop' = [loop EXCEPT ![p] = [l \in Loops |-> IF @[l] = "armed" THEN "off" ELSE @[l]]]

AfterListenForgetting(p) == "end"

AfterListenFailed(p) == IF RunsEngine(p) THEN "stopLoops" ELSE "end"

ListenFails(p) ==
  /\ At(p, "listen")
  /\ Fault
  /\ Throw(p, AfterListenFailed(p))
  /\ IF AfterListenFailed(p) = "stopLoops" THEN CancelLoops(p) ELSE UNCHANGED loop
  /\ UNCHANGED <<keys, quota, seen, task, server>>
  /\ StartUnchanged

(* writeDevState fails inside the try that stops the environment. *)
WriteStateFails(p) ==
  /\ At(p, "running")
  /\ Cmd(p) = "dev"
  /\ Fault
  /\ Throw(p, "close")
  /\ UNCHANGED <<keys, quota, seen, partVars>>
  /\ StartUnchanged

-----------------------------------------------------------------------------
(* The loops and the worker while the engine is up *)

RunUnchanged ==
  UNCHANGED <<dbVars, job, pc, failed, session, todo, seen, server, pool, faults, kills>>

Stopping(p) == pc[p] \notin {"listen", "running", "close"}

PassStarts(p, l) ==
  /\ loop[p][l] = "armed"
  /\ loop' = [loop EXCEPT ![p][l] = "pass"]
  /\ UNCHANGED task
  /\ RunUnchanged

(* A failed pass is reported and does not end the loop. *)
PassEnds(p, l) ==
  /\ loop[p][l] = "pass"
  /\ loop' = [loop EXCEPT ![p][l] = IF Stopping(p) THEN "off" ELSE "armed"]
  /\ UNCHANGED task
  /\ RunUnchanged

(* The worker takes tasks until its own stop, after that of the loops. *)
TaskStarts(p) ==
  /\ task[p] = "idle"
  /\ ~At(p, "stopWorker")
  /\ task' = [task EXCEPT ![p] = "busy"]
  /\ UNCHANGED loop
  /\ RunUnchanged

TaskEnds(p) ==
  /\ task[p] \in {"busy", "dropped"}
  /\ task' = [task EXCEPT ![p] = IF @ = "busy" THEN "idle" ELSE "off"]
  /\ UNCHANGED loop
  /\ RunUnchanged

-----------------------------------------------------------------------------
(* The end *)

StopUnchanged ==
  UNCHANGED <<dbVars, job, failed, session, todo, seen, faults, kills>>

(* untilSignal *)
Signal(p) ==
  /\ At(p, "running")
  /\ Goto(p, "close")
  /\ UNCHANGED <<partVars, pool>>
  /\ StopUnchanged

(* The http server closes with all its connections, then the engine stops. *)
CloseServer(p) ==
  /\ At(p, "close")
  /\ server' = [server EXCEPT ![p] = FALSE]
  /\ IF RunsEngine(p) THEN CancelLoops(p) ELSE UNCHANGED loop
  /\ Goto(p, IF RunsEngine(p) THEN "stopLoops" ELSE "end")
  /\ UNCHANGED <<task, pool>>
  /\ StopUnchanged

LoopsStopped(p) ==
  /\ At(p, "stopLoops")
  /\ \A l \in Loops : loop[p][l] = "off"
  /\ Goto(p, "stopWorker")
  /\ UNCHANGED <<partVars, pool>>
  /\ StopUnchanged

(* worker.stop: drained, or aborted and dropped when the time is up.  The   *)
(* release of the sticky claims that follows may fail without effect.       *)
StopWorker(p) ==
  /\ At(p, "stopWorker")
  /\ task' = [task EXCEPT ![p] = IF @ = "busy" THEN "dropped" ELSE "off"]
  /\ Goto(p, "end")
  /\ UNCHANGED <<loop, server, pool>>
  /\ StopUnchanged

EndPool(p) ==
  /\ At(p, "end")
  /\ pool' = [pool EXCEPT ![p] = "ended"]
  /\ Goto(p, "exited")
  /\ UNCHANGED partVars
  /\ StopUnchanged

(* The process is killed: the server ends its sessions. *)
Kill(p) ==
  /\ pc[p] \notin {"off", "exited"}
  /\ kills < MaxKills
  /\ kills' = kills + 1
  /\ lock' = IF lock = p THEN Nobody ELSE lock
  /\ session' = [session EXCEPT ![p] = "none"]
  /\ loop' = [loop EXCEPT ![p] = [l \in Loops |-> "off"]]
  /\ task' = [task EXCEPT ![p] = "off"]
  /\ server' = [server EXCEPT ![p] = FALSE]
  /\ pool' = [pool EXCEPT ![p] = "none"]
  /\ todo' = [todo EXCEPT ![p] = << >>]
  /\ Throw(p, "exited")
  /\ UNCHANGED <<dbUp, applied, keys, quota, job, seen, faults>>

-----------------------------------------------------------------------------
Migrator(p) ==
  \/ AcquireLock(p) \/ ReadApplied(p) \/ MigrateNext(p) \/ MigrationDone(p)
  \/ QueryOnDead(p) \/ Unlock(p)

Startup(p) ==
  \/ EnsureDatabase(p) \/ CheckPending(p) \/ AdoptKey(p) \/ FindKey(p) \/ IssueKey(p)
  \/ ReadQuota(p) \/ SetQuota(p) \/ StartEngine(p) \/ Listen(p)

Shutdown(p) == CloseServer(p) \/ LoopsStopped(p) \/ StopWorker(p) \/ EndPool(p)

Next ==
  \E p \in Proc :
    \/ Launch(p) \/ Startup(p) \/ Migrator(p) \/ Shutdown(p)
    \/ MigrateFails(p) \/ ConnectionLost(p) \/ ListenFails(p) \/ WriteStateFails(p)
    \/ Signal(p) \/ Kill(p) \/ TaskStarts(p) \/ TaskEnds(p)
    \/ \E l \in Loops : PassStarts(p, l) \/ PassEnds(p, l)

Spec == Init /\ [][Next]_vars

(* A live process goes on: its queries are answered, the lock it waits for  *)
(* is given to it, the passes of its loops end.  Nobody has to launch,      *)
(* signal or kill it.                                                       *)
Fairness ==
  \A p \in Proc :
    /\ WF_vars(Startup(p))
    /\ WF_vars(Migrator(p))
    /\ WF_vars(Shutdown(p))
    /\ \A l \in Loops : WF_vars(PassEnds(p, l))

FairSpec == Spec /\ Fairness

-----------------------------------------------------------------------------
(* Properties *)

(* Processes of several builds that migrate together, are killed half way   *)
(* or lose their connection leave a gapless prefix of the migrations, and   *)
(* what a process found still to do is still to do when it gets there       *)
(* (migrator.ts, "run one after the other and the later ones find nothing   *)
(* left to apply").                                                         *)
MigrationsExact ==
  /\ applied \in Gapless
  /\ \A p \in Proc : session[p] = "live" /\ At(p, "migrate") =>
       \A i \in DOMAIN todo[p] : todo[p][i] \in applied <=> Cmd(p) = "down"

(* A process that runs an engine or accepts requests finds every migration  *)
(* of its build in place, unless an operator reverts some, and its          *)
(* namespace has a key (process.ts, "refuses to run on a schema that is     *)
(* behind"; serve-environment.ts).                                          *)
ReadyToRun ==
  \A p \in Proc :
    /\ (task[p] = "idle" \/ server[p]) /\ (\A q \in Proc : Cmd(q) # "down")
         => Shipped(p) \subseteq applied
    /\ server[p] /\ Cmd(p) \in {"serve", "dev"} => keys # {}

(* The pool is ended last: no pass, no unaborted task and no server of the  *)
(* process is left to use it, whichever way the process got there           *)
(* (runtime.ts stop, "Stops the loops, then drains the worker").            *)
PoolEndsLast ==
  \A p \in Proc : pool[p] = "ended" =>
    /\ \A l \in Loops : loop[p][l] = "off"
    /\ task[p] \in {"off", "dropped"}
    /\ ~server[p]
    /\ session[p] = "none"
    /\ lock # p

(* A process that was started gets to run or exits, and one that was told   *)
(* to stop exits, whatever the others do: none waits for a lock for ever.   *)
GetsThere ==
  \A p \in Proc : pc[p] \notin {"off", "running"} ~> pc[p] \in {"running", "exited"}

-----------------------------------------------------------------------------
(* What the documentation says and the code does not do. *)

(* "only a namespace without any key gets a new one" (serve.ts): two        *)
(* processes that start together may both find none.                        *)
OneKeyIssued ==
  Cardinality({p \in Proc : p \in keys /\ Cmd(p) = "serve"}) <= 1

(* "with the limits applied to the namespace" (serve-environment.ts): the   *)
(* fields another process set between the reading and the writing are lost. *)
LimitsApplied ==
  \A p \in Proc : Cmd(p) = "serve" /\ At(p, "running") =>
    \A f \in Limits[p] : quota[f] # Nobody

(* "refuses to run on a schema that is behind" (process.ts), a migration    *)
(* being reverted at the same time included.                                *)
NeverBehind ==
  \A p \in Proc : task[p] = "idle" \/ server[p] => Shipped(p) \subseteq applied
=============================================================================
