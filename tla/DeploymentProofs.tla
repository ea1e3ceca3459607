-------------------------- MODULE DeploymentProofs --------------------------
(***************************************************************************)
(* The processes of a deployment, for any number of them, whatever each    *)
(* runs and however many migrations its build ships: the migrations they   *)
(* leave, the schema and the key a process finds when it begins to serve,  *)
(* and the order in which it stops.                                        *)
(***************************************************************************)
EXTENDS Deployment, OrderLemmas, SequenceTheorems

-----------------------------------------------------------------------------
(* The inductive invariant *)

Label ==
  {"off", "probe", "lock", "read", "migrate", "unlock", "check", "key", "issue", "quota",
   "set", "engine", "listen", "running", "close", "stopLoops", "stopWorker", "end", "exited"}

(* The parts of the state the arguments need.                               *)
DeployType ==
  /\ job \in [Proc -> [cmd : Command, migrate : BOOLEAN, known : 0..MaxKnown]]
  /\ pc \in [Proc -> Label]
  /\ failed \in [Proc -> BOOLEAN]
  /\ session \in [Proc -> {"none", "live", "dead"}]
  /\ todo \in [Proc -> Seq(Nat)]
  /\ loop \in [Proc -> [Loops -> {"off", "armed", "pass"}]]
  /\ task \in [Proc -> {"off", "idle", "busy", "dropped"}]
  /\ server \in [Proc -> BOOLEAN]
  /\ pool \in [Proc -> {"none", "open", "ended"}]
  /\ lock \in Proc \cup {Nobody}
  /\ applied \in Gapless

(* The migration lock is held by the one live session, and a process has a  *)
(* session only while its migrator runs.                                    *)
SessionInv ==
  \A p \in Proc :
    /\ session[p] = "live" <=> lock = p
    /\ session[p] # "none" => pc[p] \in {"read", "migrate", "unlock"}

(* From the start of the engine to the end of its loops, and of its worker. *)
LoopLabel == {"listen", "running", "close", "stopLoops"}
WorkLabel == LoopLabel \cup {"stopWorker"}

(* Loops, worker and server are up at these labels only, and only an        *)
(* engine has the first two; a pool that was ended belongs to an exited     *)
(* process.                                                                 *)
PartsInv ==
  \A p \in Proc :
    /\ pc[p] \notin LoopLabel \/ ~RunsEngine(p) => \A l \in Loops : loop[p][l] = "off"
    /\ pc[p] \notin WorkLabel \/ ~RunsEngine(p) => task[p] \in {"off", "dropped"}
    /\ server[p] => pc[p] \in {"running", "close"}
    /\ pc[p] = "engine" => RunsEngine(p)
    /\ pool[p] = "ended" => pc[p] = "exited"

(* Past the check of the schema. *)
ReadyLabel == {"key", "issue", "quota", "set", "engine"} \cup WorkLabel

NobodyReverts == \A p \in Proc : Cmd(p) # "down"

(* What a process ships is applied or still on its list, and all of it is   *)
(* applied once its list is done without an error.                          *)
SchemaInv ==
  NobodyReverts => \A p \in Proc :
    /\ pc[p] = "migrate" => Shipped(p) \subseteq applied \cup Range(todo[p])
    /\ pc[p] = "unlock" /\ ~failed[p] => Shipped(p) \subseteq applied
    /\ pc[p] \in ReadyLabel => Shipped(p) \subseteq applied

(* A dev process does not come by the check, which would let it pass        *)
(* without a key.                                                           *)
KeyInv ==
  \A p \in Proc :
    /\ pc[p] = "check" => Cmd(p) # "dev"
    /\ pc[p] \in {"quota", "set", "engine", "listen", "running", "close"}
         /\ Cmd(p) \in {"serve", "dev"} => keys # {}
    /\ pc[p] = "engine" => Cmd(p) # "serve"

(* The list of the process that holds the lock goes on exactly where the    *)
(* applied migrations end.                                                  *)
ContinuesFrom(p, a) ==
  IF Cmd(p) = "down"
    THEN Len(todo[p]) <= a /\ \A i \in 1..Len(todo[p]) : todo[p][i] = a + 1 - i
    ELSE a + Len(todo[p]) <= MaxKnown /\ \A i \in 1..Len(todo[p]) : todo[p][i] = a + i

ListInv ==
  \A p \in Proc : session[p] = "live" /\ pc[p] = "migrate" =>
    \E a \in 0..MaxKnown : applied = 1..a /\ ContinuesFrom(p, a)

DeployInv == DeployType /\ SessionInv /\ PartsInv /\ SchemaInv /\ KeyInv /\ ListInv

-----------------------------------------------------------------------------
(* The lists of the migrator *)

(* The ids of an interval in ascending order are that interval.             *)
LEMMA AscendingInterval ==
  ASSUME NEW a \in Nat, NEW n \in Nat
  PROVE  Ascending((a + 1)..(a + n)) = [i \in 1..n |-> a + i]
<1> DEFINE S == (a + 1)..(a + n)
           Sorted(s) == \A i, j \in DOMAIN s : i < j => s[i] < s[j]
           direct == [i \in 1..n |-> a + i]
<1>1. Cardinality(S) = n
  BY FS_Interval
<1>2. direct \in [1..Cardinality(S) -> S] /\ Sorted(direct)
  BY <1>1
<1>3. Ascending(S) \in [1..n -> S] /\ Sorted(Ascending(S))
  <2> HIDE DEF direct
  <2>1. QED
    BY <1>1, <1>2 DEF Ascending
<1> DEFINE asc == Ascending(S)
<1>4. /\ asc \in [1..n -> S]
      /\ \A i, j \in 1..n : i < j => asc[i] < asc[j]
      /\ \A i \in 1..n : asc[i] \in Int /\ a + 1 <= asc[i] /\ asc[i] <= a + n
  BY <1>3
<1> HIDE DEF asc
<1>5. ASSUME NEW i \in 1..n
      PROVE  asc[i] >= a + i
  <2> DEFINE T == {k \in 1..n : asc[k] < a + k}
  <2>1. SUFFICES ASSUME T # {}
                 PROVE  FALSE
    BY <1>4
  <2>2. T \in SUBSET Nat
    OBVIOUS
  <2>3. PICK m \in T : \A y \in T : m <= y
    <3> HIDE DEF T
    <3>1. QED
      BY <2>1, <2>2, NatMin
  <2>4. m \in 1..n /\ asc[m] < a + m
    BY <2>3
  <2>5. m # 1
    BY <2>4, <1>4
  <2>6. m - 1 \in 1..n /\ m - 1 < m
    BY <2>4, <2>5
  <2>7. asc[m - 1] >= a + (m - 1)
    BY <2>3, <2>6, <1>4
  <2>8. QED
    BY <2>4, <2>6, <2>7, <1>4
<1>6. ASSUME NEW i \in 1..n
      PROVE  asc[i] <= a + i
  <2> DEFINE T == {k \in 1..n : asc[k] > a + k}
  <2>1. SUFFICES ASSUME T # {}
                 PROVE  FALSE
    BY <1>4
  <2>2. T \in SUBSET (0..n)
    OBVIOUS
  <2>3. PICK m \in T : \A y \in T : y <= m
    <3> HIDE DEF T
    <3>1. QED
      BY <2>1, <2>2, BoundedMax
  <2>4. m \in 1..n /\ asc[m] > a + m
    BY <2>3
  <2>5. m # n
    BY <2>4, <1>4
  <2>6. m + 1 \in 1..n /\ m < m + 1
    BY <2>4, <2>5
  <2>7. asc[m + 1] <= a + (m + 1)
    BY <2>3, <2>6, <1>4
  <2>8. QED
    BY <2>4, <2>6, <2>7, <1>4
<1>7. ASSUME NEW i \in 1..n
      PROVE  asc[i] = a + i
  <2>1. asc[i] >= a + i /\ asc[i] <= a + i /\ asc[i] \in Int /\ i \in Int
    BY <1>4, <1>5, <1>6
  <2>2. QED
    BY <2>1
<1>8. asc = direct
  BY <1>4, <1>7
<1>9. QED
  BY <1>8 DEF asc

(* What a migrator still has to apply when the first a are applied.         *)
LEMMA ForwardList ==
  ASSUME NEW a \in Nat, NEW k \in Nat
  PROVE  /\ a >= k => Ascending((1..k) \ (1..a)) = << >>
         /\ a < k => Ascending((1..k) \ (1..a)) = [i \in 1..(k - a) |-> a + i]
<1>1. CASE a >= k
  <2> DEFINE S == (1..k) \ (1..a)
             list == [i \in 1..0 |-> 0 + i]
  <2>1. S = (0 + 1)..(0 + 0)
    BY <1>1
  <2>2. Ascending((0 + 1)..(0 + 0)) = list
    BY AscendingInterval
  <2>3. list = << >>
    OBVIOUS
  <2> HIDE DEF S, list
  <2>4. Ascending(S) = << >>
    BY <2>1, <2>2, <2>3
  <2>5. QED
    BY <1>1, <2>4 DEF S
<1>2. CASE a < k
  <2> DEFINE S == (1..k) \ (1..a)
             list == [i \in 1..(k - a) |-> a + i]
  <2>1. k - a \in Nat /\ a + (k - a) = k
    BY <1>2
  <2>2. S = (a + 1)..(a + (k - a))
    BY <1>2
  <2>3. Ascending((a + 1)..(a + (k - a))) = list
    BY <2>1, AscendingInterval
  <2> HIDE DEF S, list
  <2>4. Ascending(S) = list
    BY <2>2, <2>3
  <2>5. QED
    BY <1>2, <2>4 DEF S, list
<1>3. QED
  BY <1>1, <1>2

(* The last n of the first a, newest first.                                 *)
LEMMA BackwardList ==
  ASSUME NEW a \in Nat, NEW n \in Nat \ {0}
  PROVE  /\ LastReversed(1..a, n) \in Seq(Nat)
         /\ Len(LastReversed(1..a, n)) <= a
         /\ \A i \in 1..Len(LastReversed(1..a, n)) : LastReversed(1..a, n)[i] = a + 1 - i
<1> DEFINE s == Ascending(1..a)
           first == IF Len(s) > n THEN Len(s) - n + 1 ELSE 1
           l == a - first + 1
           sub == SubSeq(s, first, a)
<1>1. s = [i \in 1..a |-> i]
  <2>1. Ascending((0 + 1)..(0 + a)) = [i \in 1..a |-> 0 + i]
    BY AscendingInterval
  <2>2. (0 + 1)..(0 + a) = 1..a
    OBVIOUS
  <2>3. [i \in 1..a |-> 0 + i] = [i \in 1..a |-> i]
    OBVIOUS
  <2>4. QED
    BY <2>1, <2>2, <2>3
<1>2. s \in Seq(Nat) /\ Len(s) = a /\ \A i \in 1..a : s[i] = i
  BY <1>1
<1> HIDE DEF s
<1>3. first \in Nat /\ 1 <= first /\ first <= a + 1 /\ l \in Nat /\ l <= a
  BY <1>2
<1>4. LastForwards(1..a, n) = sub
  BY <1>2 DEF LastForwards, s
<1> HIDE DEF first
<1>5. sub \in Seq(Nat) /\ Len(sub) = l /\ \A i \in 1..l : sub[i] = first + i - 1
  <2>1. first \in 1..(Len(s) + 1) /\ a \in (first - 1)..Len(s)
    BY <1>2, <1>3
  <2>2. /\ SubSeq(s, first, a) \in Seq(Nat)
        /\ Len(SubSeq(s, first, a)) = IF first <= a THEN a - first + 1 ELSE 0
        /\ \A i \in 1..(a - first + 1) : SubSeq(s, first, a)[i] = s[first + i - 1]
    BY <2>1, <1>2, SubSeqProperties
  <2>3. \A i \in 1..l : first + i - 1 \in 1..a
    BY <1>3
  <2>4. \A i \in 1..l : s[first + i - 1] = first + i - 1
    BY <2>3, <1>2
  <2>5. (IF first <= a THEN a - first + 1 ELSE 0) = l
    BY <1>3
  <2>6. QED
    BY <2>2, <2>4, <2>5
<1> HIDE DEF sub
<1>6. LastReversed(1..a, n) = [i \in 1..l |-> sub[(l - i) + 1]]
  BY <1>4, <1>5 DEF LastReversed, Reverse
<1>7. \A i \in 1..l : (l - i) + 1 \in 1..l /\ sub[(l - i) + 1] = a + 1 - i /\ a + 1 - i \in Nat
  <2>1. \A i \in 1..l : (l - i) + 1 \in 1..l /\ first + ((l - i) + 1) - 1 = a + 1 - i
                        /\ a + 1 - i \in Nat
    BY <1>3
  <2>2. QED
    BY <2>1, <1>5
<1> HIDE DEF l
<1>8. QED
  BY <1>6, <1>7, <1>3

(* What ReadApplied puts on the list.                                       *)
LEMMA ListRead ==
  ASSUME DeployType, NEW p \in Proc, ReadApplied(p)
  PROVE  /\ todo'[p] \in Seq(Nat)
         /\ \E a \in 0..MaxKnown : applied' = 1..a /\ ContinuesFrom(p, a)'
         /\ Cmd(p) # "down" => Shipped(p) \subseteq applied \cup Range(todo'[p])
<1>1. PICK a \in 0..MaxKnown : applied = 1..a
  BY DEF DeployType, Gapless
<1>2. a \in Nat /\ a <= MaxKnown /\ MaxKnown \in Nat /\ Revert \in Nat \ {0}
  BY DeploymentAssumption
<1>3. /\ job' = job /\ applied' = applied
      /\ todo'[p] = IF Cmd(p) = "down" THEN LastReversed(applied, Revert)
                    ELSE Ascending(Shipped(p) \ applied)
  BY DEF DeployType, ReadApplied, MigratorUnchanged
<1> DEFINE list == todo'[p]
           k == job[p].known
<1>4. k \in Nat /\ k <= MaxKnown /\ Shipped(p) = 1..k
  BY <1>2 DEF DeployType, Shipped
<1>5. CASE Cmd(p) = "down"
  <2>1. list = LastReversed(1..a, Revert)
    BY <1>1, <1>3, <1>5
  <2> HIDE DEF list
  <2>2. list \in Seq(Nat) /\ Len(list) <= a /\ \A i \in 1..Len(list) : list[i] = a + 1 - i
    BY <2>1, <1>2, BackwardList
  <2>3. QED
    BY <1>1, <1>3, <1>5, <2>2 DEF list, ContinuesFrom, Cmd
<1>6. CASE Cmd(p) # "down" /\ a >= k
  <2>1. list = << >>
    <3>1. list = Ascending((1..k) \ (1..a))
      BY <1>1, <1>3, <1>4, <1>6
    <3>2. Ascending((1..k) \ (1..a)) = << >>
      BY <1>2, <1>4, <1>6, ForwardList
    <3> HIDE DEF list
    <3>3. QED
      BY <3>1, <3>2
  <2> HIDE DEF list, k
  <2>2. list \in Seq(Nat) /\ Len(list) = 0 /\ a + Len(list) <= MaxKnown
    BY <2>1, <1>2
  <2>3. Shipped(p) \subseteq applied
    BY <1>1, <1>2, <1>4, <1>6
  <2>4. \A i \in 1..Len(list) : list[i] = a + i
    BY <2>2
  <2>5. QED
    BY <1>1, <1>3, <1>6, <2>2, <2>3, <2>4 DEF list, ContinuesFrom, Cmd
<1>7. CASE Cmd(p) # "down" /\ a < k
  <2> DEFINE n == k - a
  <2>1. n \in Nat /\ a + n = k
    BY <1>2, <1>4, <1>7
  <2>2. list = [i \in 1..n |-> a + i]
    <3>1. list = Ascending((1..k) \ (1..a))
      BY <1>1, <1>3, <1>4, <1>7
    <3>2. Ascending((1..k) \ (1..a)) = [i \in 1..n |-> a + i]
      BY <1>2, <1>4, <1>7, ForwardList
    <3> HIDE DEF list
    <3>3. QED
      BY <3>1, <3>2
  <2> HIDE DEF list, k, n
  <2>3. list \in Seq(Nat) /\ Len(list) = n /\ \A i \in 1..n : list[i] = a + i
    BY <2>1, <2>2, <1>2
  <2>4. ASSUME NEW m \in Shipped(p), m \notin applied
        PROVE  m \in Range(list)
    <3>1. m - a \in 1..n /\ a + (m - a) = m
      BY <1>1, <1>2, <1>4, <2>1, <2>4
    <3>2. list[m - a] = m /\ m - a \in DOMAIN list
      BY <2>2, <2>3, <3>1
    <3>3. QED
      BY <3>2 DEF Range
  <2>5. a + Len(list) <= MaxKnown
    BY <2>1, <2>3, <1>4
  <2>6. QED
    BY <1>1, <1>3, <1>7, <2>3, <2>4, <2>5 DEF list, ContinuesFrom, Cmd
<1>8. a >= k \/ a < k
  BY <1>2, <1>4
<1>9. QED
  BY <1>5, <1>6, <1>7, <1>8

(* The head of the list is the next migration, or the last one.            *)
LEMMA HeadOfList ==
  ASSUME DeployType, ListInv, NEW p \in Proc,
         session[p] = "live", pc[p] = "migrate", todo[p] # << >>
  PROVE  \E a \in 0..MaxKnown :
           /\ applied = 1..a
           /\ ContinuesFrom(p, a)
           /\ Cmd(p) = "down" => /\ a - 1 \in 0..MaxKnown
                                 /\ applied \ {Head(todo[p])} = 1..(a - 1)
           /\ Cmd(p) # "down" => /\ a + 1 \in 0..MaxKnown
                                 /\ applied \cup {Head(todo[p])} = 1..(a + 1)
<1>1. PICK a \in 0..MaxKnown : applied = 1..a /\ ContinuesFrom(p, a)
  BY DEF ListInv
<1>2. a \in Nat /\ MaxKnown \in Nat /\ a <= MaxKnown
  BY DeploymentAssumption
<1>3. todo[p] \in Seq(Nat) /\ Len(todo[p]) \in Nat /\ Len(todo[p]) >= 1
      /\ Head(todo[p]) = todo[p][1] /\ 1 \in 1..Len(todo[p])
  BY DEF DeployType
<1>4. CASE Cmd(p) = "down"
  <2>1. Head(todo[p]) = a /\ a >= 1
    BY <1>1, <1>2, <1>3, <1>4 DEF ContinuesFrom
  <2>2. (1..a) \ {a} = 1..(a - 1)
    BY <1>2
  <2>3. QED
    BY <1>1, <1>2, <1>4, <2>1, <2>2
<1>5. CASE Cmd(p) # "down"
  <2>1. Head(todo[p]) = a + 1 /\ a + 1 <= MaxKnown
    BY <1>1, <1>2, <1>3, <1>5 DEF ContinuesFrom
  <2>2. (1..a) \cup {a + 1} = 1..(a + 1)
    BY <1>2
  <2>3. QED
    BY <1>1, <1>2, <1>5, <2>1, <2>2
<1>6. QED
  BY <1>4, <1>5

(* The migration that is committed leaves no gap.                           *)
LEMMA CommitIsGapless ==
  ASSUME DeployType, ListInv, NEW p \in Proc,
         session[p] = "live", pc[p] = "migrate", todo[p] # << >>, CommitNext(p)
  PROVE  applied' \in Gapless
<1>1. PICK a \in 0..MaxKnown :
        /\ Cmd(p) = "down" => /\ a - 1 \in 0..MaxKnown
                              /\ applied \ {Head(todo[p])} = 1..(a - 1)
        /\ Cmd(p) # "down" => /\ a + 1 \in 0..MaxKnown
                              /\ applied \cup {Head(todo[p])} = 1..(a + 1)
  BY HeadOfList
<1>2. applied' = IF Cmd(p) = "down" THEN applied \ {Head(todo[p])}
                 ELSE applied \cup {Head(todo[p])}
  BY DEF CommitNext
<1>3. \A b \in 0..MaxKnown : 1..b \in Gapless
  BY DEF Gapless
<1>4. QED
  BY <1>1, <1>2, <1>3

(* engine.stop cancels the loops that wait.                                 *)
LEMMA LoopsCancelled ==
  ASSUME DeployType, NEW p \in Proc, CancelLoops(p)
  PROVE  /\ loop' \in [Proc -> [Loops -> {"off", "armed", "pass"}]]
         /\ \A q \in Proc : q # p => loop'[q] = loop[q]
         /\ \A l \in Loops :
              loop'[p][l] = IF loop[p][l] = "armed" THEN "off" ELSE loop[p][l]
<1> DEFINE stopped == [l \in Loops |-> IF loop[p][l] = "armed" THEN "off" ELSE loop[p][l]]
<1>1. loop' = [loop EXCEPT ![p] = stopped] /\ loop \in [Proc -> [Loops -> {"off", "armed", "pass"}]]
  BY DEF CancelLoops, DeployType
<1>2. stopped \in [Loops -> {"off", "armed", "pass"}]
  BY <1>1
<1>3. \A l \in Loops : stopped[l] = IF loop[p][l] = "armed" THEN "off" ELSE loop[p][l]
  OBVIOUS
<1> HIDE DEF stopped
<1>4. QED
  BY <1>1, <1>2, <1>3

(* The parts of the state keep their types.                                 *)
LEMMA TypeStep ==
  ASSUME DeployType, ListInv, [Next]_vars
  PROVE  DeployType'
<1> USE DEF At, Goto, Throw, Fault, dbVars, partVars, Label, Command
<1>1. DeployType /\ ListInv
  OBVIOUS
<1>2. CASE UNCHANGED vars
  BY <1>1, <1>2 DEF vars, DeployType
<1>3. ASSUME NEW p \in Proc, Launch(p)
      PROVE  DeployType'
  BY <1>1, <1>3 DEF Launch, DeployType
<1>4. ASSUME NEW p \in Proc, EnsureDatabase(p)
      PROVE  DeployType'
  BY <1>1, <1>4 DEF EnsureDatabase, DeployType
<1>5. ASSUME NEW p \in Proc, CheckPending(p)
      PROVE  DeployType'
  BY <1>1, <1>5 DEF CheckPending, StartUnchanged, Pending, DeployType
<1>6. ASSUME NEW p \in Proc, AdoptKey(p)
      PROVE  DeployType'
  BY <1>1, <1>6 DEF AdoptKey, StartUnchanged, DeployType
<1>7. ASSUME NEW p \in Proc, FindKey(p)
      PROVE  DeployType'
  BY <1>1, <1>7 DEF FindKey, StartUnchanged, DeployType
<1>8. ASSUME NEW p \in Proc, IssueKey(p)
      PROVE  DeployType'
  BY <1>1, <1>8 DEF IssueKey, StartUnchanged, DeployType
<1>9. ASSUME NEW p \in Proc, ReadQuota(p)
      PROVE  DeployType'
  BY <1>1, <1>9 DEF ReadQuota, StartUnchanged, DeployType
<1>10. ASSUME NEW p \in Proc, SetQuota(p)
      PROVE  DeployType'
  BY <1>1, <1>10 DEF SetQuota, StartUnchanged, DeployType
<1>11. ASSUME NEW p \in Proc, StartEngine(p)
      PROVE  DeployType'
  BY <1>1, <1>11 DEF StartEngine, StartUnchanged, DeployType
<1>12. ASSUME NEW p \in Proc, Listen(p)
      PROVE  DeployType'
  BY <1>1, <1>12 DEF Listen, StartUnchanged, DeployType
<1>13. ASSUME NEW p \in Proc, AcquireLock(p)
      PROVE  DeployType'
  BY <1>1, <1>13 DEF AcquireLock, MigratorUnchanged, DeployType
<1>14. ASSUME NEW p \in Proc, ReadApplied(p)
      PROVE  DeployType'
  <2>1. todo'[p] \in Seq(Nat)
    BY <1>1, <1>14, ListRead
  <2>2. todo' = [todo EXCEPT ![p] = todo'[p]]
    BY <1>1, <1>14 DEF ReadApplied, DeployType
  <2>3. QED
    BY <1>1, <1>14, <2>1, <2>2 DEF ReadApplied, MigratorUnchanged, DeployType
<1>15. ASSUME NEW p \in Proc, MigrateNext(p)
      PROVE  DeployType'
  <2>1. applied' \in Gapless
    BY <1>1, <1>15, CommitIsGapless DEF MigrateNext, DeployType
  <2>2. todo' \in [Proc -> Seq(Nat)]
    <3>1. todo[p] \in Seq(Nat) /\ todo[p] # << >> => Tail(todo[p]) \in Seq(Nat)
      OBVIOUS
    <3>2. QED
      BY <1>1, <1>15, <3>1 DEF MigrateNext, DeployType
  <2>3. pc' \in [Proc -> Label] /\ failed' \in [Proc -> BOOLEAN]
    BY <1>1, <1>15 DEF MigrateNext, DeployType
  <2>4. UNCHANGED <<job, lock, session, loop, task, server, pool>>
    BY <1>15 DEF MigrateNext, MigratorUnchanged
  <2>5. QED
    BY <1>1, <2>1, <2>2, <2>3, <2>4 DEF DeployType
<1>16. ASSUME NEW p \in Proc, MigrationDone(p)
      PROVE  DeployType'
  BY <1>1, <1>16 DEF MigrationDone, MigratorUnchanged, DeployType
<1>17. ASSUME NEW p \in Proc, QueryOnDead(p)
      PROVE  DeployType'
  BY <1>1, <1>17 DEF QueryOnDead, MigratorUnchanged, DeployType
<1>18. ASSUME NEW p \in Proc, Unlock(p)
      PROVE  DeployType'
  BY <1>1, <1>18 DEF Unlock, MigratorUnchanged, AfterMigrating, Released, DeployType
<1>19. ASSUME NEW p \in Proc, CloseServer(p)
      PROVE  DeployType'
  <2>1. loop' \in [Proc -> [Loops -> {"off", "armed", "pass"}]]
    BY <1>1, <1>19, LoopsCancelled DEF CloseServer, StopUnchanged, DeployType
  <2>2. QED
    BY <1>1, <1>19, <2>1 DEF CloseServer, StopUnchanged, DeployType
<1>20. ASSUME NEW p \in Proc, LoopsStopped(p)
      PROVE  DeployType'
  BY <1>1, <1>20 DEF LoopsStopped, StopUnchanged, DeployType
<1>21. ASSUME NEW p \in Proc, StopWorker(p)
      PROVE  DeployType'
  BY <1>1, <1>21 DEF StopWorker, StopUnchanged, DeployType
<1>22. ASSUME NEW p \in Proc, EndPool(p)
      PROVE  DeployType'
  BY <1>1, <1>22 DEF EndPool, StopUnchanged, DeployType
<1>23. ASSUME NEW p \in Proc, MigrateFails(p)
      PROVE  DeployType'
  <2>1. applied' \in Gapless
    BY <1>1, <1>23, CommitIsGapless DEF MigrateFails, DeployType
  <2>2. QED
    BY <1>1, <1>23, <2>1 DEF MigrateFails, MigratorUnchanged, DeployType
<1>24. ASSUME NEW p \in Proc, ConnectionLost(p)
      PROVE  DeployType'
  BY <1>1, <1>24 DEF ConnectionLost, MigratorUnchanged, DeployType
<1>25. ASSUME NEW p \in Proc, ListenFails(p)
      PROVE  DeployType'
  <2>1. loop' \in [Proc -> [Loops -> {"off", "armed", "pass"}]]
    BY <1>1, <1>25, LoopsCancelled DEF ListenFails, StartUnchanged, DeployType
  <2>2. QED
    BY <1>1, <1>25, <2>1 DEF ListenFails, StartUnchanged, AfterListenFailed, DeployType
<1>26. ASSUME NEW p \in Proc, WriteStateFails(p)
      PROVE  DeployType'
  BY <1>1, <1>26 DEF WriteStateFails, StartUnchanged, DeployType
<1>27. ASSUME NEW p \in Proc, Signal(p)
      PROVE  DeployType'
  BY <1>1, <1>27 DEF Signal, StopUnchanged, DeployType
<1>28. ASSUME NEW p \in Proc, Kill(p)
      PROVE  DeployType'
  BY <1>1, <1>28 DEF Kill, DeployType
<1>29. ASSUME NEW p \in Proc, TaskStarts(p)
      PROVE  DeployType'
  BY <1>1, <1>29 DEF TaskStarts, RunUnchanged, DeployType
<1>30. ASSUME NEW p \in Proc, TaskEnds(p)
      PROVE  DeployType'
  BY <1>1, <1>30 DEF TaskEnds, RunUnchanged, DeployType
<1>31. ASSUME NEW p \in Proc, NEW l \in Loops, PassStarts(p, l)
      PROVE  DeployType'
  BY <1>1, <1>31 DEF PassStarts, RunUnchanged, DeployType
<1>32. ASSUME NEW p \in Proc, NEW l \in Loops, PassEnds(p, l)
      PROVE  DeployType'
  BY <1>1, <1>32 DEF PassEnds, RunUnchanged, Stopping, DeployType
<1>33. QED
  BY <1>2, <1>3, <1>4, <1>5, <1>6, <1>7, <1>8, <1>9, <1>10, <1>11, <1>12,
     <1>13, <1>14, <1>15, <1>16, <1>17, <1>18, <1>19, <1>20, <1>21, <1>22,
     <1>23, <1>24, <1>25, <1>26, <1>27, <1>28, <1>29, <1>30, <1>31, <1>32
     DEF Next, Startup, Migrator, Shutdown

(* A process without a session moves on and leaves the lock alone.          *)
LEMMA SessionAtRest ==
  ASSUME DeployType, SessionInv, NEW p \in Proc, UNCHANGED <<session, lock>>,
         pc[p] \notin {"read", "migrate", "unlock"},
         \A q \in Proc : q # p => pc'[q] = pc[q]
  PROVE  SessionInv'
BY DEF SessionInv

(* One session is live, and it has the lock.                                *)
LEMMA SessionStep ==
  ASSUME DeployType, SessionInv, [Next]_vars
  PROVE  SessionInv'
<1> USE DeploymentAssumption DEF DeployType, At, Goto, Throw, Fault, dbVars, partVars, Label,
        Command, Cmd
<1>1. DeployType /\ SessionInv
  OBVIOUS
<1>2. CASE UNCHANGED vars
  BY <1>1, <1>2 DEF vars, SessionInv
<1>3. ASSUME NEW p \in Proc, Launch(p)
      PROVE  SessionInv'
  BY <1>1, <1>3 DEF Launch, SessionInv
<1>4. ASSUME NEW p \in Proc, EnsureDatabase(p)
      PROVE  SessionInv'
  <2>1. /\ pc[p] \notin {"read", "migrate", "unlock"}
        /\ UNCHANGED <<session, lock>>
    BY <1>4 DEF EnsureDatabase
  <2>2. \A q \in Proc : q # p => pc'[q] = pc[q]
    BY <1>1, <1>4 DEF EnsureDatabase
  <2>3. QED
    BY <1>1, <2>1, <2>2, SessionAtRest
<1>5. ASSUME NEW p \in Proc, CheckPending(p)
      PROVE  SessionInv'
  <2>1. /\ pc[p] \notin {"read", "migrate", "unlock"}
        /\ UNCHANGED <<session, lock>>
    BY <1>5 DEF CheckPending, StartUnchanged
  <2>2. \A q \in Proc : q # p => pc'[q] = pc[q]
    BY <1>1, <1>5 DEF CheckPending
  <2>3. QED
    BY <1>1, <2>1, <2>2, SessionAtRest
<1>6. ASSUME NEW p \in Proc, AdoptKey(p)
      PROVE  SessionInv'
  <2>1. /\ pc[p] \notin {"read", "migrate", "unlock"}
        /\ UNCHANGED <<session, lock>>
    BY <1>6 DEF AdoptKey, StartUnchanged
  <2>2. \A q \in Proc : q # p => pc'[q] = pc[q]
    BY <1>1, <1>6 DEF AdoptKey
  <2>3. QED
    BY <1>1, <2>1, <2>2, SessionAtRest
<1>7. ASSUME NEW p \in Proc, FindKey(p)
      PROVE  SessionInv'
  <2>1. /\ pc[p] \notin {"read", "migrate", "unlock"}
        /\ UNCHANGED <<session, lock>>
    BY <1>7 DEF FindKey, StartUnchanged
  <2>2. \A q \in Proc : q # p => pc'[q] = pc[q]
    BY <1>1, <1>7 DEF FindKey
  <2>3. QED
    BY <1>1, <2>1, <2>2, SessionAtRest
<1>8. ASSUME NEW p \in Proc, IssueKey(p)
      PROVE  SessionInv'
  <2>1. /\ pc[p] \notin {"read", "migrate", "unlock"}
        /\ UNCHANGED <<session, lock>>
    BY <1>8 DEF IssueKey, StartUnchanged
  <2>2. \A q \in Proc : q # p => pc'[q] = pc[q]
    BY <1>1, <1>8 DEF IssueKey
  <2>3. QED
    BY <1>1, <2>1, <2>2, SessionAtRest
<1>9. ASSUME NEW p \in Proc, ReadQuota(p)
      PROVE  SessionInv'
  <2>1. /\ pc[p] \notin {"read", "migrate", "unlock"}
        /\ UNCHANGED <<session, lock>>
    BY <1>9 DEF ReadQuota, StartUnchanged
  <2>2. \A q \in Proc : q # p => pc'[q] = pc[q]
    BY <1>1, <1>9 DEF ReadQuota
  <2>3. QED
    BY <1>1, <2>1, <2>2, SessionAtRest
<1>10. ASSUME NEW p \in Proc, SetQuota(p)
      PROVE  SessionInv'
  <2>1. /\ pc[p] \notin {"read", "migrate", "unlock"}
        /\ UNCHANGED <<session, lock>>
    BY <1>10 DEF SetQuota, StartUnchanged
  <2>2. \A q \in Proc : q # p => pc'[q] = pc[q]
    BY <1>1, <1>10 DEF SetQuota
  <2>3. QED
    BY <1>1, <2>1, <2>2, SessionAtRest
<1>11. ASSUME NEW p \in Proc, StartEngine(p)
      PROVE  SessionInv'
  <2>1. /\ pc[p] \notin {"read", "migrate", "unlock"}
        /\ UNCHANGED <<session, lock>>
    BY <1>11 DEF StartEngine, StartUnchanged
  <2>2. \A q \in Proc : q # p => pc'[q] = pc[q]
    BY <1>1, <1>11 DEF StartEngine
  <2>3. QED
    BY <1>1, <2>1, <2>2, SessionAtRest
<1>12. ASSUME NEW p \in Proc, Listen(p)
      PROVE  SessionInv'
  <2>1. /\ pc[p] \notin {"read", "migrate", "unlock"}
        /\ UNCHANGED <<session, lock>>
    BY <1>12 DEF Listen, StartUnchanged
  <2>2. \A q \in Proc : q # p => pc'[q] = pc[q]
    BY <1>1, <1>12 DEF Listen
  <2>3. QED
    BY <1>1, <2>1, <2>2, SessionAtRest
<1>13. ASSUME NEW p \in Proc, AcquireLock(p)
      PROVE  SessionInv'
  <2>1. CASE lock = Nobody /\ lock' = p /\ session' = [session EXCEPT ![p] = "live"]
                /\ pc' = [pc EXCEPT ![p] = "read"]
    BY <1>1, <2>1 DEF SessionInv
  <2>2. CASE UNCHANGED <<lock, session>> /\ pc' = [pc EXCEPT ![p] = "end"]
    BY <1>1, <1>13, <2>2 DEF AcquireLock, SessionInv
  <2>3. QED
    BY <1>13, <2>1, <2>2 DEF AcquireLock
<1>14. ASSUME NEW p \in Proc, ReadApplied(p)
      PROVE  SessionInv'
  BY <1>1, <1>14 DEF ReadApplied, MigratorUnchanged, SessionInv
<1>15. ASSUME NEW p \in Proc, MigrateNext(p)
      PROVE  SessionInv'
  BY <1>1, <1>15 DEF MigrateNext, MigratorUnchanged, MissingFile, CommitNext, SessionInv
<1>16. ASSUME NEW p \in Proc, MigrationDone(p)
      PROVE  SessionInv'
  BY <1>1, <1>16 DEF MigrationDone, MigratorUnchanged, SessionInv
<1>17. ASSUME NEW p \in Proc, QueryOnDead(p)
      PROVE  SessionInv'
  BY <1>1, <1>17 DEF QueryOnDead, MigratorUnchanged, SessionInv
<1>18. ASSUME NEW p \in Proc, Unlock(p)
      PROVE  SessionInv'
  BY <1>1, <1>18 DEF Unlock, MigratorUnchanged, AfterMigrating, Released, SessionInv
<1>19. ASSUME NEW p \in Proc, CloseServer(p)
      PROVE  SessionInv'
  BY <1>1, <1>19 DEF CloseServer, StopUnchanged, CancelLoops, SessionInv
<1>20. ASSUME NEW p \in Proc, LoopsStopped(p)
      PROVE  SessionInv'
  BY <1>1, <1>20 DEF LoopsStopped, StopUnchanged, SessionInv
<1>21. ASSUME NEW p \in Proc, StopWorker(p)
      PROVE  SessionInv'
  BY <1>1, <1>21 DEF StopWorker, StopUnchanged, SessionInv
<1>22. ASSUME NEW p \in Proc, EndPool(p)
      PROVE  SessionInv'
  BY <1>1, <1>22 DEF EndPool, StopUnchanged, SessionInv
<1>23. ASSUME NEW p \in Proc, MigrateFails(p)
      PROVE  SessionInv'
  BY <1>1, <1>23 DEF MigrateFails, MigratorUnchanged, MissingFile, CommitNext,
     SessionInv
<1>24. ASSUME NEW p \in Proc, ConnectionLost(p)
      PROVE  SessionInv'
  BY <1>1, <1>24 DEF ConnectionLost, MigratorUnchanged, SessionInv
<1>25. ASSUME NEW p \in Proc, ListenFails(p)
      PROVE  SessionInv'
  BY <1>1, <1>25 DEF ListenFails, StartUnchanged, CancelLoops, AfterListenFailed,
     SessionInv
<1>26. ASSUME NEW p \in Proc, WriteStateFails(p)
      PROVE  SessionInv'
  BY <1>1, <1>26 DEF WriteStateFails, StartUnchanged, SessionInv
<1>27. ASSUME NEW p \in Proc, Signal(p)
      PROVE  SessionInv'
  BY <1>1, <1>27 DEF Signal, StopUnchanged, SessionInv
<1>28. ASSUME NEW p \in Proc, Kill(p)
      PROVE  SessionInv'
  BY <1>1, <1>28 DEF Kill, SessionInv
<1>29. ASSUME NEW p \in Proc, TaskStarts(p)
      PROVE  SessionInv'
  BY <1>1, <1>29 DEF TaskStarts, RunUnchanged, SessionInv
<1>30. ASSUME NEW p \in Proc, TaskEnds(p)
      PROVE  SessionInv'
  BY <1>1, <1>30 DEF TaskEnds, RunUnchanged, SessionInv
<1>31. ASSUME NEW p \in Proc, NEW l \in Loops, PassStarts(p, l)
      PROVE  SessionInv'
  BY <1>1, <1>31 DEF PassStarts, RunUnchanged, SessionInv
<1>32. ASSUME NEW p \in Proc, NEW l \in Loops, PassEnds(p, l)
      PROVE  SessionInv'
  BY <1>1, <1>32 DEF PassEnds, RunUnchanged, Stopping, SessionInv
<1>33. QED
  BY <1>2, <1>3, <1>4, <1>5, <1>6, <1>7, <1>8, <1>9, <1>10, <1>11, <1>12,
     <1>13, <1>14, <1>15, <1>16, <1>17, <1>18, <1>19, <1>20, <1>21, <1>22,
     <1>23, <1>24, <1>25, <1>26, <1>27, <1>28, <1>29, <1>30, <1>31, <1>32
     DEF Next, Startup, Migrator, Shutdown

(* A process that is at none of the labels of its parts has none of them up. *)
LEMMA PartsAtRest ==
  ASSUME DeployType, PartsInv, NEW p \in Proc, NEW label \in Label,
         pc[p] \notin WorkLabel \cup {"exited"},
         UNCHANGED <<job, partVars>>, pc' = [pc EXCEPT ![p] = label],
         pool' = pool \/ pool' = [pool EXCEPT ![p] = "open"],
         label = "engine" => RunsEngine(p)
  PROVE  PartsInv'
<1>1. \A q \in Proc : pc'[q] = IF q = p THEN label ELSE pc[q]
  BY DEF DeployType
<1>2. \A q \in Proc : RunsEngine(q)' = RunsEngine(q)
  BY DEF RunsEngine, Cmd
<1>3. \A q \in Proc : pool'[q] = "ended" => pool[q] = "ended"
  BY DEF DeployType
<1>4. /\ \A l \in Loops : loop[p][l] = "off"
      /\ task[p] \in {"off", "dropped"}
      /\ ~server[p]
      /\ pool[p] # "ended"
  BY DEF PartsInv, LoopLabel, WorkLabel
<1>5. QED
  BY <1>1, <1>2, <1>3, <1>4 DEF PartsInv, partVars

(* The parts are up only where the labels say so.                           *)
LEMMA PartsStep ==
  ASSUME DeployType, SessionInv, PartsInv, [Next]_vars
  PROVE  PartsInv'
<1> USE DeploymentAssumption DEF DeployType, At, Goto, Throw, Fault, dbVars, partVars, Label,
        Command, Cmd
<1>1. DeployType /\ SessionInv /\ PartsInv
  OBVIOUS
<1>2. CASE UNCHANGED vars
  BY <1>1, <1>2 DEF vars, PartsInv, RunsEngine, LoopLabel, WorkLabel
<1>3. ASSUME NEW p \in Proc, Launch(p)
      PROVE  PartsInv'
  BY <1>1, <1>3 DEF Launch, PartsInv, RunsEngine, LoopLabel, WorkLabel
<1>4. ASSUME NEW p \in Proc, EnsureDatabase(p)
      PROVE  PartsInv'
  <2>1. PICK label \in Label : /\ pc' = [pc EXCEPT ![p] = label]
                               /\ label = "engine" => RunsEngine(p)
    BY <1>1, <1>4 DEF EnsureDatabase
  <2>2. /\ pc[p] \notin WorkLabel \cup {"exited"}
        /\ UNCHANGED <<job, partVars>>
        /\ pool' = pool \/ pool' = [pool EXCEPT ![p] = "open"]
    BY <1>4 DEF EnsureDatabase, LoopLabel, WorkLabel
  <2>3. QED
    BY <1>1, <2>1, <2>2, PartsAtRest
<1>5. ASSUME NEW p \in Proc, CheckPending(p)
      PROVE  PartsInv'
  <2>1. PICK label \in Label : /\ pc' = [pc EXCEPT ![p] = label]
                               /\ label = "engine" => RunsEngine(p)
    BY <1>1, <1>5 DEF CheckPending
  <2>2. /\ pc[p] \notin WorkLabel \cup {"exited"}
        /\ UNCHANGED <<job, partVars>>
        /\ pool' = pool \/ pool' = [pool EXCEPT ![p] = "open"]
    BY <1>5 DEF CheckPending, StartUnchanged, LoopLabel, WorkLabel
  <2>3. QED
    BY <1>1, <2>1, <2>2, PartsAtRest
<1>6. ASSUME NEW p \in Proc, AdoptKey(p)
      PROVE  PartsInv'
  BY <1>1, <1>6 DEF AdoptKey, StartUnchanged, PartsInv, RunsEngine, LoopLabel, WorkLabel
<1>7. ASSUME NEW p \in Proc, FindKey(p)
      PROVE  PartsInv'
  <2>1. PICK label \in Label : /\ pc' = [pc EXCEPT ![p] = label]
                               /\ label = "engine" => RunsEngine(p)
    BY <1>1, <1>7 DEF FindKey
  <2>2. /\ pc[p] \notin WorkLabel \cup {"exited"}
        /\ UNCHANGED <<job, partVars>>
        /\ pool' = pool \/ pool' = [pool EXCEPT ![p] = "open"]
    BY <1>7 DEF FindKey, StartUnchanged, LoopLabel, WorkLabel
  <2>3. QED
    BY <1>1, <2>1, <2>2, PartsAtRest
<1>8. ASSUME NEW p \in Proc, IssueKey(p)
      PROVE  PartsInv'
  <2>1. PICK label \in Label : /\ pc' = [pc EXCEPT ![p] = label]
                               /\ label = "engine" => RunsEngine(p)
    BY <1>1, <1>8 DEF IssueKey, RunsEngine
  <2>2. /\ pc[p] \notin WorkLabel \cup {"exited"}
        /\ UNCHANGED <<job, partVars>>
        /\ pool' = pool \/ pool' = [pool EXCEPT ![p] = "open"]
    BY <1>8 DEF IssueKey, StartUnchanged, LoopLabel, WorkLabel
  <2>3. QED
    BY <1>1, <2>1, <2>2, PartsAtRest
<1>9. ASSUME NEW p \in Proc, ReadQuota(p)
      PROVE  PartsInv'
  BY <1>1, <1>9 DEF ReadQuota, StartUnchanged, PartsInv, RunsEngine, LoopLabel,
     WorkLabel
<1>10. ASSUME NEW p \in Proc, SetQuota(p)
      PROVE  PartsInv'
  BY <1>1, <1>10 DEF SetQuota, StartUnchanged, PartsInv, RunsEngine, LoopLabel,
     WorkLabel
<1>11. ASSUME NEW p \in Proc, StartEngine(p)
      PROVE  PartsInv'
  BY <1>1, <1>11 DEF StartEngine, StartUnchanged, PartsInv, RunsEngine, LoopLabel,
     WorkLabel
<1>12. ASSUME NEW p \in Proc, Listen(p)
      PROVE  PartsInv'
  BY <1>1, <1>12 DEF Listen, StartUnchanged, PartsInv, RunsEngine, LoopLabel, WorkLabel
<1>13. ASSUME NEW p \in Proc, AcquireLock(p)
      PROVE  PartsInv'
  <2>1. PICK label \in Label : /\ pc' = [pc EXCEPT ![p] = label]
                               /\ label = "engine" => RunsEngine(p)
    BY <1>1, <1>13 DEF AcquireLock
  <2>2. /\ pc[p] \notin WorkLabel \cup {"exited"}
        /\ UNCHANGED <<job, partVars>>
        /\ pool' = pool \/ pool' = [pool EXCEPT ![p] = "open"]
    BY <1>13 DEF AcquireLock, MigratorUnchanged, LoopLabel, WorkLabel
  <2>3. QED
    BY <1>1, <2>1, <2>2, PartsAtRest
<1>14. ASSUME NEW p \in Proc, ReadApplied(p)
      PROVE  PartsInv'
  BY <1>1, <1>14 DEF ReadApplied, MigratorUnchanged, PartsInv, RunsEngine, LoopLabel,
     WorkLabel
<1>15. ASSUME NEW p \in Proc, MigrateNext(p)
      PROVE  PartsInv'
  BY <1>1, <1>15 DEF MigrateNext, MigratorUnchanged, MissingFile, CommitNext, PartsInv,
     RunsEngine, LoopLabel, WorkLabel
<1>16. ASSUME NEW p \in Proc, MigrationDone(p)
      PROVE  PartsInv'
  BY <1>1, <1>16 DEF MigrationDone, MigratorUnchanged, PartsInv, RunsEngine, LoopLabel,
     WorkLabel
<1>17. ASSUME NEW p \in Proc, QueryOnDead(p)
      PROVE  PartsInv'
  BY <1>1, <1>17 DEF QueryOnDead, MigratorUnchanged, PartsInv, RunsEngine, LoopLabel,
     WorkLabel
<1>18. ASSUME NEW p \in Proc, Unlock(p)
      PROVE  PartsInv'
  BY <1>1, <1>18 DEF Unlock, MigratorUnchanged, AfterMigrating, Released, PartsInv,
     RunsEngine, LoopLabel, WorkLabel
<1>19. ASSUME NEW p \in Proc, CloseServer(p)
      PROVE  PartsInv'
  <2>1. CASE CancelLoops(p)
    <3>1. \A q \in Proc : q # p => loop'[q] = loop[q]
      BY <1>1, <2>1, LoopsCancelled
    <3>2. \A l \in Loops : loop[p][l] = "off" => loop'[p][l] = "off"
      BY <1>1, <2>1, LoopsCancelled
    <3>3. \A q \in Proc : \A l \in Loops : loop[q][l] = "off" => loop'[q][l] = "off"
      BY <3>1, <3>2
    <3>4. QED
      BY <1>1, <1>19, <3>3 DEF CloseServer, StopUnchanged, PartsInv, RunsEngine,
         LoopLabel, WorkLabel
  <2>2. CASE loop' = loop
    BY <1>1, <1>19, <2>2 DEF CloseServer, StopUnchanged, PartsInv, RunsEngine,
       LoopLabel, WorkLabel
  <2>3. QED
    BY <1>19, <2>1, <2>2 DEF CloseServer
<1>20. ASSUME NEW p \in Proc, LoopsStopped(p)
      PROVE  PartsInv'
  BY <1>1, <1>20 DEF LoopsStopped, StopUnchanged, PartsInv, RunsEngine, LoopLabel,
     WorkLabel
<1>21. ASSUME NEW p \in Proc, StopWorker(p)
      PROVE  PartsInv'
  BY <1>1, <1>21 DEF StopWorker, StopUnchanged, PartsInv, RunsEngine, LoopLabel,
     WorkLabel
<1>22. ASSUME NEW p \in Proc, EndPool(p)
      PROVE  PartsInv'
  BY <1>1, <1>22 DEF EndPool, StopUnchanged, PartsInv, RunsEngine, LoopLabel, WorkLabel
<1>23. ASSUME NEW p \in Proc, MigrateFails(p)
      PROVE  PartsInv'
  BY <1>1, <1>23 DEF MigrateFails, MigratorUnchanged, MissingFile, CommitNext, PartsInv,
     RunsEngine, LoopLabel, WorkLabel
<1>24. ASSUME NEW p \in Proc, ConnectionLost(p)
      PROVE  PartsInv'
  BY <1>1, <1>24 DEF ConnectionLost, MigratorUnchanged, PartsInv, RunsEngine, LoopLabel,
     WorkLabel
<1>25. ASSUME NEW p \in Proc, ListenFails(p)
      PROVE  PartsInv'
  <2>1. CASE CancelLoops(p)
    <3>1. \A q \in Proc : q # p => loop'[q] = loop[q]
      BY <1>1, <2>1, LoopsCancelled
    <3>2. \A l \in Loops : loop[p][l] = "off" => loop'[p][l] = "off"
      BY <1>1, <2>1, LoopsCancelled
    <3>3. \A q \in Proc : \A l \in Loops : loop[q][l] = "off" => loop'[q][l] = "off"
      BY <3>1, <3>2
    <3>4. QED
      BY <1>1, <1>25, <3>3 DEF ListenFails, StartUnchanged, AfterListenFailed, PartsInv,
         RunsEngine, LoopLabel, WorkLabel
  <2>2. CASE loop' = loop
    BY <1>1, <1>25, <2>2 DEF ListenFails, StartUnchanged, AfterListenFailed, PartsInv,
       RunsEngine, LoopLabel, WorkLabel
  <2>3. QED
    BY <1>25, <2>1, <2>2 DEF ListenFails
<1>26. ASSUME NEW p \in Proc, WriteStateFails(p)
      PROVE  PartsInv'
  BY <1>1, <1>26 DEF WriteStateFails, StartUnchanged, PartsInv, RunsEngine, LoopLabel,
     WorkLabel
<1>27. ASSUME NEW p \in Proc, Signal(p)
      PROVE  PartsInv'
  BY <1>1, <1>27 DEF Signal, StopUnchanged, PartsInv, RunsEngine, LoopLabel, WorkLabel
<1>28. ASSUME NEW p \in Proc, Kill(p)
      PROVE  PartsInv'
  BY <1>1, <1>28 DEF Kill, PartsInv, RunsEngine, LoopLabel, WorkLabel
<1>29. ASSUME NEW p \in Proc, TaskStarts(p)
      PROVE  PartsInv'
  BY <1>1, <1>29 DEF TaskStarts, RunUnchanged, PartsInv, RunsEngine, LoopLabel,
     WorkLabel
<1>30. ASSUME NEW p \in Proc, TaskEnds(p)
      PROVE  PartsInv'
  BY <1>1, <1>30 DEF TaskEnds, RunUnchanged, PartsInv, RunsEngine, LoopLabel, WorkLabel
<1>31. ASSUME NEW p \in Proc, NEW l \in Loops, PassStarts(p, l)
      PROVE  PartsInv'
  BY <1>1, <1>31 DEF PassStarts, RunUnchanged, PartsInv, RunsEngine, LoopLabel,
     WorkLabel
<1>32. ASSUME NEW p \in Proc, NEW l \in Loops, PassEnds(p, l)
      PROVE  PartsInv'
  BY <1>1, <1>32 DEF PassEnds, RunUnchanged, Stopping, PartsInv, RunsEngine, LoopLabel,
     WorkLabel
<1>33. QED
  BY <1>2, <1>3, <1>4, <1>5, <1>6, <1>7, <1>8, <1>9, <1>10, <1>11, <1>12,
     <1>13, <1>14, <1>15, <1>16, <1>17, <1>18, <1>19, <1>20, <1>21, <1>22,
     <1>23, <1>24, <1>25, <1>26, <1>27, <1>28, <1>29, <1>30, <1>31, <1>32
     DEF Next, Startup, Migrator, Shutdown

(* A process that moves on without touching the migrations. *)
LEMMA SchemaFrame ==
  ASSUME DeployType, SchemaInv, NEW p \in Proc, NEW label \in Label \ {"migrate", "unlock"},
         UNCHANGED <<job, applied, todo>>, pc' = [pc EXCEPT ![p] = label],
         failed' = failed \/ failed' = [failed EXCEPT ![p] = TRUE],
         label \in ReadyLabel => pc[p] \in ReadyLabel \/ Shipped(p) \subseteq applied
  PROVE  SchemaInv'
<1>1. SUFFICES ASSUME NobodyReverts', NEW q \in Proc
               PROVE  /\ pc'[q] = "migrate" => Shipped(q)' \subseteq applied' \cup Range(todo[q])'
                      /\ pc'[q] = "unlock" /\ ~failed'[q] => Shipped(q)' \subseteq applied'
                      /\ pc'[q] \in ReadyLabel => Shipped(q)' \subseteq applied'
  BY DEF SchemaInv
<1>2. /\ Shipped(q)' = Shipped(q) /\ applied' = applied /\ todo'[q] = todo[q]
      /\ NobodyReverts
  BY <1>1 DEF Shipped, NobodyReverts, Cmd
<1>3. pc'[q] = IF q = p THEN label ELSE pc[q]
  BY DEF DeployType
<1>4. q # p => failed'[q] = failed[q]
  BY DEF DeployType
<1>5. /\ pc[q] = "migrate" => Shipped(q) \subseteq applied \cup Range(todo[q])
      /\ pc[q] = "unlock" /\ ~failed[q] => Shipped(q) \subseteq applied
      /\ pc[q] \in ReadyLabel => Shipped(q) \subseteq applied
  BY <1>2 DEF SchemaInv
<1>6. CASE q = p
  BY <1>2, <1>3, <1>5, <1>6 DEF Label
<1>7. CASE q # p
  BY <1>2, <1>3, <1>4, <1>5, <1>7
<1>8. QED
  BY <1>6, <1>7

(* Who gets past the check, or through his list, has his migrations.        *)
LEMMA SchemaStep ==
  ASSUME DeployType, SchemaInv, [Next]_vars
  PROVE  SchemaInv'
<1> USE DeploymentAssumption DEF DeployType, At, Goto, Throw, Fault, dbVars, partVars, Label,
        Command, Cmd
<1>1. DeployType /\ SchemaInv
  OBVIOUS
<1>2. CASE UNCHANGED vars
  BY <1>1, <1>2 DEF vars, SchemaInv, NobodyReverts, Shipped, ReadyLabel, WorkLabel,
     LoopLabel
<1>3. ASSUME NEW p \in Proc, Launch(p)
      PROVE  SchemaInv'
  BY <1>1, <1>3 DEF Launch, SchemaInv, NobodyReverts, Shipped, ReadyLabel, WorkLabel,
     LoopLabel
<1>4. ASSUME NEW p \in Proc, EnsureDatabase(p)
      PROVE  SchemaInv'
  <2>1. PICK label \in Label \ {"migrate", "unlock"} :
               /\ pc' = [pc EXCEPT ![p] = label]
               /\ label \in ReadyLabel => pc[p] \in ReadyLabel \/ Shipped(p) \subseteq applied
    <3>1. \/ pc' = [pc EXCEPT ![p] = "lock"]
          \/ pc' = [pc EXCEPT ![p] = "check"]
          \/ pc' = [pc EXCEPT ![p] = "exited"]
      BY <1>4 DEF EnsureDatabase
    <3>2. pc' = [pc EXCEPT ![p] = pc'[p]] /\ pc'[p] \in {"lock", "check", "exited"}
      BY <1>1, <3>1
    <3>3. QED
      BY <3>2 DEF ReadyLabel, WorkLabel, LoopLabel
  <2>2. /\ UNCHANGED <<job, applied, todo>>
        /\ failed' = failed \/ failed' = [failed EXCEPT ![p] = TRUE]
    BY <1>4 DEF EnsureDatabase
  <2>3. QED
    BY <1>1, <2>1, <2>2, SchemaFrame
<1>5. ASSUME NEW p \in Proc, CheckPending(p)
      PROVE  SchemaInv'
  <2>1. PICK label \in Label \ {"migrate", "unlock"} :
               /\ pc' = [pc EXCEPT ![p] = label]
               /\ label \in ReadyLabel => pc[p] \in ReadyLabel \/ Shipped(p) \subseteq applied
    <3>1. \/ pc' = [pc EXCEPT ![p] = "engine"] /\ Pending(p) = {}
          \/ pc' = [pc EXCEPT ![p] = "key"] /\ Pending(p) = {}
          \/ pc' = [pc EXCEPT ![p] = "end"]
      BY <1>5 DEF CheckPending
    <3>2. pc' = [pc EXCEPT ![p] = pc'[p]] /\ pc'[p] \in {"engine", "key", "end"}
      BY <1>1, <3>1
    <3>3. pc'[p] # "end" => Shipped(p) \subseteq applied
      BY <1>1, <3>1 DEF Pending
    <3>4. QED
      BY <3>2, <3>3 DEF ReadyLabel, WorkLabel, LoopLabel
  <2>2. /\ UNCHANGED <<job, applied, todo>>
        /\ failed' = failed \/ failed' = [failed EXCEPT ![p] = TRUE]
    BY <1>5 DEF CheckPending, StartUnchanged
  <2>3. QED
    BY <1>1, <2>1, <2>2, SchemaFrame
<1>6. ASSUME NEW p \in Proc, AdoptKey(p)
      PROVE  SchemaInv'
  BY <1>1, <1>6 DEF AdoptKey, StartUnchanged, SchemaInv, NobodyReverts, Shipped,
     ReadyLabel, WorkLabel, LoopLabel
<1>7. ASSUME NEW p \in Proc, FindKey(p)
      PROVE  SchemaInv'
  <2>1. PICK label \in Label \ {"migrate", "unlock"} :
               /\ pc' = [pc EXCEPT ![p] = label]
               /\ label \in ReadyLabel => pc[p] \in ReadyLabel \/ Shipped(p) \subseteq applied
    BY <1>1, <1>7 DEF FindKey, ReadyLabel, WorkLabel, LoopLabel
  <2>2. /\ UNCHANGED <<job, applied, todo>>
        /\ failed' = failed \/ failed' = [failed EXCEPT ![p] = TRUE]
    BY <1>7 DEF FindKey, StartUnchanged
  <2>3. QED
    BY <1>1, <2>1, <2>2, SchemaFrame
<1>8. ASSUME NEW p \in Proc, IssueKey(p)
      PROVE  SchemaInv'
  <2>1. PICK label \in Label \ {"migrate", "unlock"} :
               /\ pc' = [pc EXCEPT ![p] = label]
               /\ label \in ReadyLabel => pc[p] \in ReadyLabel \/ Shipped(p) \subseteq applied
    BY <1>1, <1>8 DEF IssueKey, ReadyLabel, WorkLabel, LoopLabel
  <2>2. /\ UNCHANGED <<job, applied, todo>>
        /\ failed' = failed \/ failed' = [failed EXCEPT ![p] = TRUE]
    BY <1>8 DEF IssueKey, StartUnchanged
  <2>3. QED
    BY <1>1, <2>1, <2>2, SchemaFrame
<1>9. ASSUME NEW p \in Proc, ReadQuota(p)
      PROVE  SchemaInv'
  <2>1. PICK label \in Label \ {"migrate", "unlock"} :
               /\ pc' = [pc EXCEPT ![p] = label]
               /\ label \in ReadyLabel => pc[p] \in ReadyLabel \/ Shipped(p) \subseteq applied
    BY <1>1, <1>9 DEF ReadQuota, ReadyLabel, WorkLabel, LoopLabel
  <2>2. /\ UNCHANGED <<job, applied, todo>>
        /\ failed' = failed \/ failed' = [failed EXCEPT ![p] = TRUE]
    BY <1>9 DEF ReadQuota, StartUnchanged
  <2>3. QED
    BY <1>1, <2>1, <2>2, SchemaFrame
<1>10. ASSUME NEW p \in Proc, SetQuota(p)
      PROVE  SchemaInv'
  <2>1. PICK label \in Label \ {"migrate", "unlock"} :
               /\ pc' = [pc EXCEPT ![p] = label]
               /\ label \in ReadyLabel => pc[p] \in ReadyLabel \/ Shipped(p) \subseteq applied
    BY <1>1, <1>10 DEF SetQuota, ReadyLabel, WorkLabel, LoopLabel
  <2>2. /\ UNCHANGED <<job, applied, todo>>
        /\ failed' = failed \/ failed' = [failed EXCEPT ![p] = TRUE]
    BY <1>10 DEF SetQuota, StartUnchanged
  <2>3. QED
    BY <1>1, <2>1, <2>2, SchemaFrame
<1>11. ASSUME NEW p \in Proc, StartEngine(p)
      PROVE  SchemaInv'
  <2>1. PICK label \in Label \ {"migrate", "unlock"} :
               /\ pc' = [pc EXCEPT ![p] = label]
               /\ label \in ReadyLabel => pc[p] \in ReadyLabel \/ Shipped(p) \subseteq applied
    BY <1>1, <1>11 DEF StartEngine, ReadyLabel, WorkLabel, LoopLabel
  <2>2. /\ UNCHANGED <<job, applied, todo>>
        /\ failed' = failed \/ failed' = [failed EXCEPT ![p] = TRUE]
    BY <1>11 DEF StartEngine, StartUnchanged
  <2>3. QED
    BY <1>1, <2>1, <2>2, SchemaFrame
<1>12. ASSUME NEW p \in Proc, Listen(p)
      PROVE  SchemaInv'
  BY <1>1, <1>12 DEF Listen, StartUnchanged, SchemaInv, NobodyReverts, Shipped,
     ReadyLabel, WorkLabel, LoopLabel
<1>13. ASSUME NEW p \in Proc, AcquireLock(p)
      PROVE  SchemaInv'
  <2>1. PICK label \in Label \ {"migrate", "unlock"} :
               /\ pc' = [pc EXCEPT ![p] = label]
               /\ label \in ReadyLabel => pc[p] \in ReadyLabel \/ Shipped(p) \subseteq applied
    <3>1. \/ pc' = [pc EXCEPT ![p] = "read"]
          \/ pc' = [pc EXCEPT ![p] = "end"]
      BY <1>13 DEF AcquireLock
    <3>2. pc' = [pc EXCEPT ![p] = pc'[p]] /\ pc'[p] \in {"read", "end"}
      BY <1>1, <3>1
    <3>3. QED
      BY <3>2 DEF ReadyLabel, WorkLabel, LoopLabel
  <2>2. /\ UNCHANGED <<job, applied, todo>>
        /\ failed' = failed \/ failed' = [failed EXCEPT ![p] = TRUE]
    BY <1>13 DEF AcquireLock, MigratorUnchanged
  <2>3. QED
    BY <1>1, <2>1, <2>2, SchemaFrame
<1>14. ASSUME NEW p \in Proc, ReadApplied(p)
      PROVE  SchemaInv'
  <2>1. Cmd(p) # "down" => Shipped(p) \subseteq applied \cup Range(todo'[p])
    BY <1>1, <1>14, ListRead
  <2>2. /\ UNCHANGED <<job, applied, failed>>
        /\ pc' = [pc EXCEPT ![p] = "migrate"]
        /\ \A q \in Proc : q # p => todo'[q] = todo[q]
    BY <1>1, <1>14 DEF ReadApplied, MigratorUnchanged
  <2>3. QED
    BY <1>1, <2>1, <2>2 DEF SchemaInv, NobodyReverts, Shipped, ReadyLabel, WorkLabel,
       LoopLabel
<1>15. ASSUME NEW p \in Proc, MigrateNext(p)
      PROVE  SchemaInv'
  <2>1. SUFFICES ASSUME NobodyReverts'
                 PROVE  SchemaInv'
    BY DEF SchemaInv
  <2>2. NobodyReverts /\ job' = job
    BY <1>15, <2>1 DEF MigrateNext, MigratorUnchanged, NobodyReverts
  <2>3. Cmd(p) # "down"
    BY <2>2 DEF NobodyReverts
  <2>4. /\ applied' = applied \cup {Head(todo[p])}
        /\ todo' = [todo EXCEPT ![p] = Tail(@)]
        /\ UNCHANGED <<pc, failed>>
        /\ todo[p] # << >>
    BY <1>15, <2>3 DEF MigrateNext, MissingFile, CommitNext
  <2>5. Range(todo[p]) \subseteq {Head(todo[p])} \cup Range(Tail(todo[p]))
    <3> DEFINE s == todo[p]
    <3>1. s \in Seq(Nat) /\ s # << >>
      BY <1>1, <2>4
    <3> HIDE DEF s
    <3>2. \A i \in 1..Len(s) : i = 1 \/ (i - 1 \in 1..Len(Tail(s)) /\ Tail(s)[i - 1] = s[i])
      BY <3>1
    <3>3. DOMAIN s = 1..Len(s) /\ DOMAIN Tail(s) = 1..Len(Tail(s)) /\ s[1] = Head(s)
      BY <3>1
    <3>4. ASSUME NEW x \in Range(s)
          PROVE  x \in {Head(s)} \cup Range(Tail(s))
      <4>1. PICK i \in 1..Len(s) : x = s[i]
        BY <3>3 DEF Range
      <4>2. i = 1 => x = Head(s)
        BY <4>1, <3>3
      <4>3. ASSUME i # 1
            PROVE  x \in Range(Tail(s))
        <5>1. i - 1 \in DOMAIN Tail(s) /\ Tail(s)[i - 1] = x
          BY <4>1, <4>3, <3>2, <3>3
        <5> HIDE DEF s
        <5>2. QED
          BY <5>1 DEF Range
      <4>4. QED
        BY <4>2, <4>3
    <3>5. QED
      BY <3>4 DEF s
  <2>6. todo'[p] = Tail(todo[p]) /\ \A q \in Proc : q # p => todo'[q] = todo[q]
    BY <1>1, <2>4
  <2>7. QED
    BY <1>1, <2>2, <2>4, <2>5, <2>6 DEF SchemaInv, NobodyReverts, Shipped
<1>16. ASSUME NEW p \in Proc, MigrationDone(p)
      PROVE  SchemaInv'
  <2>1. Range(todo[p]) = {}
    BY <1>16 DEF MigrationDone, Range
  <2>2. /\ UNCHANGED <<job, applied, failed, todo>>
        /\ pc' = [pc EXCEPT ![p] = "unlock"] /\ pc[p] = "migrate"
    BY <1>16 DEF MigrationDone, MigratorUnchanged
  <2>3. QED
    BY <1>1, <2>1, <2>2 DEF SchemaInv, NobodyReverts, Shipped, ReadyLabel, WorkLabel,
       LoopLabel
<1>17. ASSUME NEW p \in Proc, QueryOnDead(p)
      PROVE  SchemaInv'
  BY <1>1, <1>17 DEF QueryOnDead, MigratorUnchanged, SchemaInv, NobodyReverts, Shipped,
     ReadyLabel, WorkLabel, LoopLabel
<1>18. ASSUME NEW p \in Proc, Unlock(p)
      PROVE  SchemaInv'
  BY <1>1, <1>18 DEF Unlock, MigratorUnchanged, AfterMigrating, Released, SchemaInv,
     NobodyReverts, Shipped, ReadyLabel, WorkLabel, LoopLabel
<1>19. ASSUME NEW p \in Proc, CloseServer(p)
      PROVE  SchemaInv'
  BY <1>1, <1>19 DEF CloseServer, StopUnchanged, CancelLoops, SchemaInv, NobodyReverts,
     Shipped, ReadyLabel, WorkLabel, LoopLabel
<1>20. ASSUME NEW p \in Proc, LoopsStopped(p)
      PROVE  SchemaInv'
  BY <1>1, <1>20 DEF LoopsStopped, StopUnchanged, SchemaInv, NobodyReverts, Shipped,
     ReadyLabel, WorkLabel, LoopLabel
<1>21. ASSUME NEW p \in Proc, StopWorker(p)
      PROVE  SchemaInv'
  BY <1>1, <1>21 DEF StopWorker, StopUnchanged, SchemaInv, NobodyReverts, Shipped,
     ReadyLabel, WorkLabel, LoopLabel
<1>22. ASSUME NEW p \in Proc, EndPool(p)
      PROVE  SchemaInv'
  BY <1>1, <1>22 DEF EndPool, StopUnchanged, SchemaInv, NobodyReverts, Shipped,
     ReadyLabel, WorkLabel, LoopLabel
<1>23. ASSUME NEW p \in Proc, MigrateFails(p)
      PROVE  SchemaInv'
  <2>1. SUFFICES ASSUME NobodyReverts'
                 PROVE  SchemaInv'
    BY DEF SchemaInv
  <2>2. NobodyReverts /\ job' = job /\ todo' = todo
    BY <1>23, <2>1 DEF MigrateFails, MigratorUnchanged, NobodyReverts
  <2>3. applied \subseteq applied'
    BY <1>23, <2>2 DEF MigrateFails, CommitNext, NobodyReverts
  <2>4. /\ pc' = [pc EXCEPT ![p] = "unlock"]
        /\ failed' = [failed EXCEPT ![p] = TRUE]
    BY <1>23 DEF MigrateFails
  <2>5. QED
    BY <1>1, <2>2, <2>3, <2>4 DEF SchemaInv, NobodyReverts, Shipped, ReadyLabel,
       WorkLabel, LoopLabel
<1>24. ASSUME NEW p \in Proc, ConnectionLost(p)
      PROVE  SchemaInv'
  BY <1>1, <1>24 DEF ConnectionLost, MigratorUnchanged, SchemaInv, NobodyReverts,
     Shipped, ReadyLabel, WorkLabel, LoopLabel
<1>25. ASSUME NEW p \in Proc, ListenFails(p)
      PROVE  SchemaInv'
  BY <1>1, <1>25 DEF ListenFails, StartUnchanged, CancelLoops, AfterListenFailed,
     SchemaInv, NobodyReverts, Shipped, ReadyLabel, WorkLabel, LoopLabel
<1>26. ASSUME NEW p \in Proc, WriteStateFails(p)
      PROVE  SchemaInv'
  BY <1>1, <1>26 DEF WriteStateFails, StartUnchanged, SchemaInv, NobodyReverts, Shipped,
     ReadyLabel, WorkLabel, LoopLabel
<1>27. ASSUME NEW p \in Proc, Signal(p)
      PROVE  SchemaInv'
  BY <1>1, <1>27 DEF Signal, StopUnchanged, SchemaInv, NobodyReverts, Shipped,
     ReadyLabel, WorkLabel, LoopLabel
<1>28. ASSUME NEW p \in Proc, Kill(p)
      PROVE  SchemaInv'
  BY <1>1, <1>28 DEF Kill, SchemaInv, NobodyReverts, Shipped, ReadyLabel, WorkLabel,
     LoopLabel
<1>29. ASSUME NEW p \in Proc, TaskStarts(p)
      PROVE  SchemaInv'
  BY <1>1, <1>29 DEF TaskStarts, RunUnchanged, SchemaInv, NobodyReverts, Shipped,
     ReadyLabel, WorkLabel, LoopLabel
<1>30. ASSUME NEW p \in Proc, TaskEnds(p)
      PROVE  SchemaInv'
  BY <1>1, <1>30 DEF TaskEnds, RunUnchanged, SchemaInv, NobodyReverts, Shipped,
     ReadyLabel, WorkLabel, LoopLabel
<1>31. ASSUME NEW p \in Proc, NEW l \in Loops, PassStarts(p, l)
      PROVE  SchemaInv'
  BY <1>1, <1>31 DEF PassStarts, RunUnchanged, SchemaInv, NobodyReverts, Shipped,
     ReadyLabel, WorkLabel, LoopLabel
<1>32. ASSUME NEW p \in Proc, NEW l \in Loops, PassEnds(p, l)
      PROVE  SchemaInv'
  BY <1>1, <1>32 DEF PassEnds, RunUnchanged, Stopping, SchemaInv, NobodyReverts,
     Shipped, ReadyLabel, WorkLabel, LoopLabel
<1>33. QED
  BY <1>2, <1>3, <1>4, <1>5, <1>6, <1>7, <1>8, <1>9, <1>10, <1>11, <1>12,
     <1>13, <1>14, <1>15, <1>16, <1>17, <1>18, <1>19, <1>20, <1>21, <1>22,
     <1>23, <1>24, <1>25, <1>26, <1>27, <1>28, <1>29, <1>30, <1>31, <1>32
     DEF Next, Startup, Migrator, Shutdown

(* Who serves with keys has one.                                            *)
LEMMA KeyStep ==
  ASSUME DeployType, PartsInv, KeyInv, [Next]_vars
  PROVE  KeyInv'
<1> USE DeploymentAssumption DEF DeployType, At, Goto, Throw, Fault, dbVars, partVars, Label,
        Command, Cmd
<1>1. DeployType /\ PartsInv /\ KeyInv
  OBVIOUS
<1>2. CASE UNCHANGED vars
  BY <1>1, <1>2 DEF vars, KeyInv, RunsEngine, Migrates
<1>3. ASSUME NEW p \in Proc, Launch(p)
      PROVE  KeyInv'
  BY <1>1, <1>3 DEF Launch, KeyInv, RunsEngine, Migrates
<1>4. ASSUME NEW p \in Proc, EnsureDatabase(p)
      PROVE  KeyInv'
  BY <1>1, <1>4 DEF EnsureDatabase, KeyInv, RunsEngine, Migrates
<1>5. ASSUME NEW p \in Proc, CheckPending(p)
      PROVE  KeyInv'
  BY <1>1, <1>5 DEF CheckPending, StartUnchanged, Pending, KeyInv, RunsEngine, Migrates
<1>6. ASSUME NEW p \in Proc, AdoptKey(p)
      PROVE  KeyInv'
  <2>1. (pc'[p] = "quota" /\ keys' # {}) \/ pc'[p] = "end"
    BY <1>1, <1>6 DEF AdoptKey
  <2>2. /\ job' = job /\ keys \subseteq keys'
        /\ \A q \in Proc : q # p => pc'[q] = pc[q]
    BY <1>1, <1>6 DEF AdoptKey, StartUnchanged
  <2>3. QED
    BY <1>1, <2>1, <2>2 DEF KeyInv
<1>7. ASSUME NEW p \in Proc, FindKey(p)
      PROVE  KeyInv'
  <2>1. pc'[p] \in {"issue", "end"} \/ (pc'[p] = "quota" /\ keys # {})
    BY <1>1, <1>7 DEF FindKey
  <2>2. /\ job' = job /\ keys \subseteq keys'
        /\ \A q \in Proc : q # p => pc'[q] = pc[q]
    BY <1>1, <1>7 DEF FindKey, StartUnchanged
  <2>3. QED
    BY <1>1, <2>1, <2>2 DEF KeyInv
<1>8. ASSUME NEW p \in Proc, IssueKey(p)
      PROVE  KeyInv'
  <2>1. pc'[p] = "end" \/ (pc'[p] = "engine" /\ Cmd(p) = "dev" /\ keys' # {})
        \/ (pc'[p] = "quota" /\ keys' # {})
    BY <1>1, <1>8 DEF IssueKey
  <2>2. /\ job' = job /\ keys \subseteq keys'
        /\ \A q \in Proc : q # p => pc'[q] = pc[q]
    BY <1>1, <1>8 DEF IssueKey, StartUnchanged
  <2>3. QED
    BY <1>1, <2>1, <2>2 DEF KeyInv
<1>9. ASSUME NEW p \in Proc, ReadQuota(p)
      PROVE  KeyInv'
  BY <1>1, <1>9 DEF ReadQuota, StartUnchanged, KeyInv, RunsEngine, Migrates
<1>10. ASSUME NEW p \in Proc, SetQuota(p)
      PROVE  KeyInv'
  BY <1>1, <1>10 DEF SetQuota, StartUnchanged, KeyInv, RunsEngine, Migrates
<1>11. ASSUME NEW p \in Proc, StartEngine(p)
      PROVE  KeyInv'
  BY <1>1, <1>11 DEF StartEngine, StartUnchanged, KeyInv, RunsEngine, Migrates
<1>12. ASSUME NEW p \in Proc, Listen(p)
      PROVE  KeyInv'
  BY <1>1, <1>12 DEF Listen, StartUnchanged, KeyInv, RunsEngine, Migrates
<1>13. ASSUME NEW p \in Proc, AcquireLock(p)
      PROVE  KeyInv'
  BY <1>1, <1>13 DEF AcquireLock, MigratorUnchanged, KeyInv, RunsEngine, Migrates
<1>14. ASSUME NEW p \in Proc, ReadApplied(p)
      PROVE  KeyInv'
  BY <1>1, <1>14 DEF ReadApplied, MigratorUnchanged, KeyInv, RunsEngine, Migrates
<1>15. ASSUME NEW p \in Proc, MigrateNext(p)
      PROVE  KeyInv'
  BY <1>1, <1>15 DEF MigrateNext, MigratorUnchanged, MissingFile, CommitNext, KeyInv,
     RunsEngine, Migrates
<1>16. ASSUME NEW p \in Proc, MigrationDone(p)
      PROVE  KeyInv'
  BY <1>1, <1>16 DEF MigrationDone, MigratorUnchanged, KeyInv, RunsEngine, Migrates
<1>17. ASSUME NEW p \in Proc, QueryOnDead(p)
      PROVE  KeyInv'
  BY <1>1, <1>17 DEF QueryOnDead, MigratorUnchanged, KeyInv, RunsEngine, Migrates
<1>18. ASSUME NEW p \in Proc, Unlock(p)
      PROVE  KeyInv'
  BY <1>1, <1>18 DEF Unlock, MigratorUnchanged, AfterMigrating, Released, KeyInv,
     RunsEngine, Migrates
<1>19. ASSUME NEW p \in Proc, CloseServer(p)
      PROVE  KeyInv'
  BY <1>1, <1>19 DEF CloseServer, StopUnchanged, CancelLoops, KeyInv, RunsEngine,
     Migrates
<1>20. ASSUME NEW p \in Proc, LoopsStopped(p)
      PROVE  KeyInv'
  BY <1>1, <1>20 DEF LoopsStopped, StopUnchanged, KeyInv, RunsEngine, Migrates
<1>21. ASSUME NEW p \in Proc, StopWorker(p)
      PROVE  KeyInv'
  BY <1>1, <1>21 DEF StopWorker, StopUnchanged, KeyInv, RunsEngine, Migrates
<1>22. ASSUME NEW p \in Proc, EndPool(p)
      PROVE  KeyInv'
  BY <1>1, <1>22 DEF EndPool, StopUnchanged, KeyInv, RunsEngine, Migrates
<1>23. ASSUME NEW p \in Proc, MigrateFails(p)
      PROVE  KeyInv'
  BY <1>1, <1>23 DEF MigrateFails, MigratorUnchanged, MissingFile, CommitNext, KeyInv,
     RunsEngine, Migrates
<1>24. ASSUME NEW p \in Proc, ConnectionLost(p)
      PROVE  KeyInv'
  BY <1>1, <1>24 DEF ConnectionLost, MigratorUnchanged, KeyInv, RunsEngine, Migrates
<1>25. ASSUME NEW p \in Proc, ListenFails(p)
      PROVE  KeyInv'
  BY <1>1, <1>25 DEF ListenFails, StartUnchanged, CancelLoops, AfterListenFailed,
     KeyInv, RunsEngine, Migrates
<1>26. ASSUME NEW p \in Proc, WriteStateFails(p)
      PROVE  KeyInv'
  BY <1>1, <1>26 DEF WriteStateFails, StartUnchanged, KeyInv, RunsEngine, Migrates
<1>27. ASSUME NEW p \in Proc, Signal(p)
      PROVE  KeyInv'
  BY <1>1, <1>27 DEF Signal, StopUnchanged, KeyInv, RunsEngine, Migrates
<1>28. ASSUME NEW p \in Proc, Kill(p)
      PROVE  KeyInv'
  BY <1>1, <1>28 DEF Kill, KeyInv, RunsEngine, Migrates
<1>29. ASSUME NEW p \in Proc, TaskStarts(p)
      PROVE  KeyInv'
  BY <1>1, <1>29 DEF TaskStarts, RunUnchanged, KeyInv, RunsEngine, Migrates
<1>30. ASSUME NEW p \in Proc, TaskEnds(p)
      PROVE  KeyInv'
  BY <1>1, <1>30 DEF TaskEnds, RunUnchanged, KeyInv, RunsEngine, Migrates
<1>31. ASSUME NEW p \in Proc, NEW l \in Loops, PassStarts(p, l)
      PROVE  KeyInv'
  BY <1>1, <1>31 DEF PassStarts, RunUnchanged, KeyInv, RunsEngine, Migrates
<1>32. ASSUME NEW p \in Proc, NEW l \in Loops, PassEnds(p, l)
      PROVE  KeyInv'
  BY <1>1, <1>32 DEF PassEnds, RunUnchanged, Stopping, KeyInv, RunsEngine, Migrates
<1>33. QED
  BY <1>2, <1>3, <1>4, <1>5, <1>6, <1>7, <1>8, <1>9, <1>10, <1>11, <1>12,
     <1>13, <1>14, <1>15, <1>16, <1>17, <1>18, <1>19, <1>20, <1>21, <1>22,
     <1>23, <1>24, <1>25, <1>26, <1>27, <1>28, <1>29, <1>30, <1>31, <1>32
     DEF Next, Startup, Migrator, Shutdown

(* The lists of the processes that go on with them are as they were.        *)
LEMMA ListFrame ==
  ASSUME ListInv, UNCHANGED <<job, applied>>,
         \A q \in Proc : session'[q] = "live" /\ pc'[q] = "migrate" =>
           session[q] = "live" /\ pc[q] = "migrate" /\ todo'[q] = todo[q]
  PROVE  ListInv'
<1>1. SUFFICES ASSUME NEW q \in Proc, session'[q] = "live", pc'[q] = "migrate"
               PROVE  \E a \in 0..MaxKnown : applied' = 1..a /\ ContinuesFrom(q, a)'
  BY DEF ListInv
<1>2. session[q] = "live" /\ pc[q] = "migrate" /\ todo'[q] = todo[q]
  BY <1>1
<1>3. PICK a \in 0..MaxKnown : applied = 1..a /\ ContinuesFrom(q, a)
  BY <1>2 DEF ListInv
<1>4. ContinuesFrom(q, a)'
  BY <1>2, <1>3 DEF ContinuesFrom, Cmd
<1>5. QED
  BY <1>3, <1>4

(* The list goes on where the applied migrations end.                       *)
LEMMA ListStep ==
  ASSUME DeployType, SessionInv, ListInv, [Next]_vars
  PROVE  ListInv'
<1> USE DeploymentAssumption DEF DeployType, At, Goto, Throw, Fault, dbVars, partVars, Label,
        Command, Cmd
<1>1. DeployType /\ SessionInv /\ ListInv
  OBVIOUS
<1>2. CASE UNCHANGED vars
  BY <1>1, <1>2, ListFrame DEF vars
<1>3. ASSUME NEW p \in Proc, Launch(p)
      PROVE  ListInv'
  <2>1. /\ UNCHANGED <<job, applied>>
        /\ \A q \in Proc : session'[q] = "live" /\ pc'[q] = "migrate" =>
             session[q] = "live" /\ pc[q] = "migrate" /\ todo'[q] = todo[q]
    BY <1>1, <1>3 DEF Launch
  <2>2. QED
    BY <1>1, <2>1, ListFrame
<1>4. ASSUME NEW p \in Proc, EnsureDatabase(p)
      PROVE  ListInv'
  <2>1. /\ UNCHANGED <<job, applied>>
        /\ \A q \in Proc : session'[q] = "live" /\ pc'[q] = "migrate" =>
             session[q] = "live" /\ pc[q] = "migrate" /\ todo'[q] = todo[q]
    BY <1>1, <1>4 DEF EnsureDatabase
  <2>2. QED
    BY <1>1, <2>1, ListFrame
<1>5. ASSUME NEW p \in Proc, CheckPending(p)
      PROVE  ListInv'
  <2>1. /\ UNCHANGED <<job, applied>>
        /\ \A q \in Proc : session'[q] = "live" /\ pc'[q] = "migrate" =>
             session[q] = "live" /\ pc[q] = "migrate" /\ todo'[q] = todo[q]
    BY <1>1, <1>5 DEF CheckPending, StartUnchanged, Pending
  <2>2. QED
    BY <1>1, <2>1, ListFrame
<1>6. ASSUME NEW p \in Proc, AdoptKey(p)
      PROVE  ListInv'
  <2>1. /\ UNCHANGED <<job, applied>>
        /\ \A q \in Proc : session'[q] = "live" /\ pc'[q] = "migrate" =>
             session[q] = "live" /\ pc[q] = "migrate" /\ todo'[q] = todo[q]
    BY <1>1, <1>6 DEF AdoptKey, StartUnchanged
  <2>2. QED
    BY <1>1, <2>1, ListFrame
<1>7. ASSUME NEW p \in Proc, FindKey(p)
      PROVE  ListInv'
  <2>1. /\ UNCHANGED <<job, applied>>
        /\ \A q \in Proc : session'[q] = "live" /\ pc'[q] = "migrate" =>
             session[q] = "live" /\ pc[q] = "migrate" /\ todo'[q] = todo[q]
    BY <1>1, <1>7 DEF FindKey, StartUnchanged
  <2>2. QED
    BY <1>1, <2>1, ListFrame
<1>8. ASSUME NEW p \in Proc, IssueKey(p)
      PROVE  ListInv'
  <2>1. /\ UNCHANGED <<job, applied>>
        /\ \A q \in Proc : session'[q] = "live" /\ pc'[q] = "migrate" =>
             session[q] = "live" /\ pc[q] = "migrate" /\ todo'[q] = todo[q]
    BY <1>1, <1>8 DEF IssueKey, StartUnchanged
  <2>2. QED
    BY <1>1, <2>1, ListFrame
<1>9. ASSUME NEW p \in Proc, ReadQuota(p)
      PROVE  ListInv'
  <2>1. /\ UNCHANGED <<job, applied>>
        /\ \A q \in Proc : session'[q] = "live" /\ pc'[q] = "migrate" =>
             session[q] = "live" /\ pc[q] = "migrate" /\ todo'[q] = todo[q]
    BY <1>1, <1>9 DEF ReadQuota, StartUnchanged
  <2>2. QED
    BY <1>1, <2>1, ListFrame
<1>10. ASSUME NEW p \in Proc, SetQuota(p)
      PROVE  ListInv'
  <2>1. /\ UNCHANGED <<job, applied>>
        /\ \A q \in Proc : session'[q] = "live" /\ pc'[q] = "migrate" =>
             session[q] = "live" /\ pc[q] = "migrate" /\ todo'[q] = todo[q]
    BY <1>1, <1>10 DEF SetQuota, StartUnchanged
  <2>2. QED
    BY <1>1, <2>1, ListFrame
<1>11. ASSUME NEW p \in Proc, StartEngine(p)
      PROVE  ListInv'
  <2>1. /\ UNCHANGED <<job, applied>>
        /\ \A q \in Proc : session'[q] = "live" /\ pc'[q] = "migrate" =>
             session[q] = "live" /\ pc[q] = "migrate" /\ todo'[q] = todo[q]
    BY <1>1, <1>11 DEF StartEngine, StartUnchanged
  <2>2. QED
    BY <1>1, <2>1, ListFrame
<1>12. ASSUME NEW p \in Proc, Listen(p)
      PROVE  ListInv'
  <2>1. /\ UNCHANGED <<job, applied>>
        /\ \A q \in Proc : session'[q] = "live" /\ pc'[q] = "migrate" =>
             session[q] = "live" /\ pc[q] = "migrate" /\ todo'[q] = todo[q]
    BY <1>1, <1>12 DEF Listen, StartUnchanged
  <2>2. QED
    BY <1>1, <2>1, ListFrame
<1>13. ASSUME NEW p \in Proc, AcquireLock(p)
      PROVE  ListInv'
  <2>1. /\ UNCHANGED <<job, applied>>
        /\ \A q \in Proc : session'[q] = "live" /\ pc'[q] = "migrate" =>
             session[q] = "live" /\ pc[q] = "migrate" /\ todo'[q] = todo[q]
    BY <1>1, <1>13 DEF AcquireLock, MigratorUnchanged
  <2>2. QED
    BY <1>1, <2>1, ListFrame
<1>14. ASSUME NEW p \in Proc, ReadApplied(p)
      PROVE  ListInv'
  <2>1. \A q \in Proc : session[q] = "live" <=> q = p
    BY <1>1, <1>14 DEF SessionInv, ReadApplied
  <2>2. session' = session
    BY <1>14 DEF ReadApplied
  <2>3. \E a \in 0..MaxKnown : applied' = 1..a /\ ContinuesFrom(p, a)'
    BY <1>1, <1>14, ListRead
  <2>4. QED
    BY <2>1, <2>2, <2>3 DEF ListInv
<1>15. ASSUME NEW p \in Proc, MigrateNext(p)
      PROVE  ListInv'
  <2>1. \A q \in Proc : session[q] = "live" <=> q = p
    BY <1>1, <1>15 DEF SessionInv, MigrateNext
  <2>2. session' = session /\ job' = job
    BY <1>15 DEF MigrateNext, MigratorUnchanged
  <2>3. SUFFICES ASSUME pc'[p] = "migrate"
                 PROVE  \E b \in 0..MaxKnown : applied' = 1..b /\ ContinuesFrom(p, b)'
    BY <2>1, <2>2 DEF ListInv
  <2>4. /\ session[p] = "live" /\ pc[p] = "migrate" /\ todo[p] # << >>
        /\ todo'[p] = Tail(todo[p])
        /\ CommitNext(p)
    BY <1>1, <1>15, <2>3 DEF MigrateNext
  <2>5. PICK a \in 0..MaxKnown :
          /\ applied = 1..a
          /\ ContinuesFrom(p, a)
          /\ Cmd(p) = "down" => /\ a - 1 \in 0..MaxKnown
                                /\ applied \ {Head(todo[p])} = 1..(a - 1)
          /\ Cmd(p) # "down" => /\ a + 1 \in 0..MaxKnown
                                /\ applied \cup {Head(todo[p])} = 1..(a + 1)
    BY <1>1, <2>4, HeadOfList
  <2> DEFINE s == todo[p]
             r == Tail(todo[p])
  <2>6. /\ Len(s) \in Nat /\ Len(r) = Len(s) - 1
        /\ \A i \in 1..Len(r) : i + 1 \in 1..Len(s) /\ r[i] = s[i + 1]
    <3> HIDE DEF s, r
    <3>1. s \in Seq(Nat) /\ s # << >> /\ r = Tail(s)
      BY <1>1, <2>4 DEF s, r
    <3>2. QED
      BY <3>1
  <2>7. a \in Int
    OBVIOUS
  <2> HIDE DEF s, r
  <2>8. CASE job[p].cmd = "down"
    <3>1. Len(s) <= a /\ \A i \in 1..Len(s) : s[i] = a + 1 - i
      BY <2>5, <2>8 DEF ContinuesFrom, s
    <3>2. Len(r) <= a - 1 /\ \A i \in 1..Len(r) : r[i] = (a - 1) + 1 - i
      BY <3>1, <2>6, <2>7
    <3>3. ContinuesFrom(p, a - 1)'
      BY <2>2, <2>4, <2>8, <3>2 DEF ContinuesFrom, r
    <3>4. applied' = 1..(a - 1) /\ a - 1 \in 0..MaxKnown
      BY <2>4, <2>5, <2>8 DEF CommitNext
    <3>5. QED
      BY <3>3, <3>4
  <2>9. CASE job[p].cmd # "down"
    <3>1. a + Len(s) <= MaxKnown /\ \A i \in 1..Len(s) : s[i] = a + i
      BY <2>5, <2>9 DEF ContinuesFrom, s
    <3>2. (a + 1) + Len(r) <= MaxKnown /\ \A i \in 1..Len(r) : r[i] = (a + 1) + i
      BY <3>1, <2>6, <2>7
    <3>3. ContinuesFrom(p, a + 1)'
      BY <2>2, <2>4, <2>9, <3>2 DEF ContinuesFrom, r
    <3>4. applied' = 1..(a + 1) /\ a + 1 \in 0..MaxKnown
      BY <2>4, <2>5, <2>9 DEF CommitNext
    <3>5. QED
      BY <3>3, <3>4
  <2>10. QED
    BY <2>8, <2>9
<1>16. ASSUME NEW p \in Proc, MigrationDone(p)
      PROVE  ListInv'
  <2>1. /\ UNCHANGED <<job, applied>>
        /\ \A q \in Proc : session'[q] = "live" /\ pc'[q] = "migrate" =>
             session[q] = "live" /\ pc[q] = "migrate" /\ todo'[q] = todo[q]
    BY <1>1, <1>16 DEF MigrationDone, MigratorUnchanged
  <2>2. QED
    BY <1>1, <2>1, ListFrame
<1>17. ASSUME NEW p \in Proc, QueryOnDead(p)
      PROVE  ListInv'
  <2>1. /\ UNCHANGED <<job, applied>>
        /\ \A q \in Proc : session'[q] = "live" /\ pc'[q] = "migrate" =>
             session[q] = "live" /\ pc[q] = "migrate" /\ todo'[q] = todo[q]
    BY <1>1, <1>17 DEF QueryOnDead, MigratorUnchanged
  <2>2. QED
    BY <1>1, <2>1, ListFrame
<1>18. ASSUME NEW p \in Proc, Unlock(p)
      PROVE  ListInv'
  <2>1. /\ UNCHANGED <<job, applied>>
        /\ \A q \in Proc : session'[q] = "live" /\ pc'[q] = "migrate" =>
             session[q] = "live" /\ pc[q] = "migrate" /\ todo'[q] = todo[q]
    BY <1>1, <1>18 DEF Unlock, MigratorUnchanged, AfterMigrating, Released
  <2>2. QED
    BY <1>1, <2>1, ListFrame
<1>19. ASSUME NEW p \in Proc, CloseServer(p)
      PROVE  ListInv'
  <2>1. /\ UNCHANGED <<job, applied>>
        /\ \A q \in Proc : session'[q] = "live" /\ pc'[q] = "migrate" =>
             session[q] = "live" /\ pc[q] = "migrate" /\ todo'[q] = todo[q]
    BY <1>1, <1>19 DEF CloseServer, StopUnchanged, CancelLoops
  <2>2. QED
    BY <1>1, <2>1, ListFrame
<1>20. ASSUME NEW p \in Proc, LoopsStopped(p)
      PROVE  ListInv'
  <2>1. /\ UNCHANGED <<job, applied>>
        /\ \A q \in Proc : session'[q] = "live" /\ pc'[q] = "migrate" =>
             session[q] = "live" /\ pc[q] = "migrate" /\ todo'[q] = todo[q]
    BY <1>1, <1>20 DEF LoopsStopped, StopUnchanged
  <2>2. QED
    BY <1>1, <2>1, ListFrame
<1>21. ASSUME NEW p \in Proc, StopWorker(p)
      PROVE  ListInv'
  <2>1. /\ UNCHANGED <<job, applied>>
        /\ \A q \in Proc : session'[q] = "live" /\ pc'[q] = "migrate" =>
             session[q] = "live" /\ pc[q] = "migrate" /\ todo'[q] = todo[q]
    BY <1>1, <1>21 DEF StopWorker, StopUnchanged
  <2>2. QED
    BY <1>1, <2>1, ListFrame
<1>22. ASSUME NEW p \in Proc, EndPool(p)
      PROVE  ListInv'
  <2>1. /\ UNCHANGED <<job, applied>>
        /\ \A q \in Proc : session'[q] = "live" /\ pc'[q] = "migrate" =>
             session[q] = "live" /\ pc[q] = "migrate" /\ todo'[q] = todo[q]
    BY <1>1, <1>22 DEF EndPool, StopUnchanged
  <2>2. QED
    BY <1>1, <2>1, ListFrame
<1>23. ASSUME NEW p \in Proc, MigrateFails(p)
      PROVE  ListInv'
  <2>1. \A q \in Proc : session[q] = "live" <=> q = p
    BY <1>1, <1>23 DEF SessionInv, MigrateFails
  <2>2. pc'[p] = "unlock" /\ (session' = session \/ session' = [session EXCEPT ![p] = "dead"])
    BY <1>1, <1>23 DEF MigrateFails
  <2>3. \A q \in Proc : ~(session'[q] = "live" /\ pc'[q] = "migrate")
    BY <1>1, <2>1, <2>2
  <2>4. QED
    BY <2>3 DEF ListInv
<1>24. ASSUME NEW p \in Proc, ConnectionLost(p)
      PROVE  ListInv'
  <2>1. /\ UNCHANGED <<job, applied>>
        /\ \A q \in Proc : session'[q] = "live" /\ pc'[q] = "migrate" =>
             session[q] = "live" /\ pc[q] = "migrate" /\ todo'[q] = todo[q]
    BY <1>1, <1>24 DEF ConnectionLost, MigratorUnchanged
  <2>2. QED
    BY <1>1, <2>1, ListFrame
<1>25. ASSUME NEW p \in Proc, ListenFails(p)
      PROVE  ListInv'
  <2>1. /\ UNCHANGED <<job, applied>>
        /\ \A q \in Proc : session'[q] = "live" /\ pc'[q] = "migrate" =>
             session[q] = "live" /\ pc[q] = "migrate" /\ todo'[q] = todo[q]
    BY <1>1, <1>25 DEF ListenFails, StartUnchanged, CancelLoops, AfterListenFailed
  <2>2. QED
    BY <1>1, <2>1, ListFrame
<1>26. ASSUME NEW p \in Proc, WriteStateFails(p)
      PROVE  ListInv'
  <2>1. /\ UNCHANGED <<job, applied>>
        /\ \A q \in Proc : session'[q] = "live" /\ pc'[q] = "migrate" =>
             session[q] = "live" /\ pc[q] = "migrate" /\ todo'[q] = todo[q]
    BY <1>1, <1>26 DEF WriteStateFails, StartUnchanged
  <2>2. QED
    BY <1>1, <2>1, ListFrame
<1>27. ASSUME NEW p \in Proc, Signal(p)
      PROVE  ListInv'
  <2>1. /\ UNCHANGED <<job, applied>>
        /\ \A q \in Proc : session'[q] = "live" /\ pc'[q] = "migrate" =>
             session[q] = "live" /\ pc[q] = "migrate" /\ todo'[q] = todo[q]
    BY <1>1, <1>27 DEF Signal, StopUnchanged
  <2>2. QED
    BY <1>1, <2>1, ListFrame
<1>28. ASSUME NEW p \in Proc, Kill(p)
      PROVE  ListInv'
  <2>1. /\ UNCHANGED <<job, applied>>
        /\ \A q \in Proc : session'[q] = "live" /\ pc'[q] = "migrate" =>
             session[q] = "live" /\ pc[q] = "migrate" /\ todo'[q] = todo[q]
    BY <1>1, <1>28 DEF Kill
  <2>2. QED
    BY <1>1, <2>1, ListFrame
<1>29. ASSUME NEW p \in Proc, TaskStarts(p)
      PROVE  ListInv'
  <2>1. /\ UNCHANGED <<job, applied>>
        /\ \A q \in Proc : session'[q] = "live" /\ pc'[q] = "migrate" =>
             session[q] = "live" /\ pc[q] = "migrate" /\ todo'[q] = todo[q]
    BY <1>1, <1>29 DEF TaskStarts, RunUnchanged
  <2>2. QED
    BY <1>1, <2>1, ListFrame
<1>30. ASSUME NEW p \in Proc, TaskEnds(p)
      PROVE  ListInv'
  <2>1. /\ UNCHANGED <<job, applied>>
        /\ \A q \in Proc : session'[q] = "live" /\ pc'[q] = "migrate" =>
             session[q] = "live" /\ pc[q] = "migrate" /\ todo'[q] = todo[q]
    BY <1>1, <1>30 DEF TaskEnds, RunUnchanged
  <2>2. QED
    BY <1>1, <2>1, ListFrame
<1>31. ASSUME NEW p \in Proc, NEW l \in Loops, PassStarts(p, l)
      PROVE  ListInv'
  <2>1. /\ UNCHANGED <<job, applied>>
        /\ \A q \in Proc : session'[q] = "live" /\ pc'[q] = "migrate" =>
             session[q] = "live" /\ pc[q] = "migrate" /\ todo'[q] = todo[q]
    BY <1>1, <1>31 DEF PassStarts, RunUnchanged
  <2>2. QED
    BY <1>1, <2>1, ListFrame
<1>32. ASSUME NEW p \in Proc, NEW l \in Loops, PassEnds(p, l)
      PROVE  ListInv'
  <2>1. /\ UNCHANGED <<job, applied>>
        /\ \A q \in Proc : session'[q] = "live" /\ pc'[q] = "migrate" =>
             session[q] = "live" /\ pc[q] = "migrate" /\ todo'[q] = todo[q]
    BY <1>1, <1>32 DEF PassEnds, RunUnchanged, Stopping
  <2>2. QED
    BY <1>1, <2>1, ListFrame
<1>33. QED
  BY <1>2, <1>3, <1>4, <1>5, <1>6, <1>7, <1>8, <1>9, <1>10, <1>11, <1>12,
     <1>13, <1>14, <1>15, <1>16, <1>17, <1>18, <1>19, <1>20, <1>21, <1>22,
     <1>23, <1>24, <1>25, <1>26, <1>27, <1>28, <1>29, <1>30, <1>31, <1>32
     DEF Next, Startup, Migrator, Shutdown

-----------------------------------------------------------------------------
(* The invariant and what follows from it *)

(* It holds before any process starts.                                      *)
LEMMA DeployInit == Init => DeployInv
<1>1. SUFFICES ASSUME Init
               PROVE  DeployInv
  OBVIOUS
<1>2. job \in [Proc -> [cmd : Command, migrate : BOOLEAN, known : 0..MaxKnown]]
  <2>1. \A p \in Proc : job[p] \in Jobs[p]
        /\ Jobs[p] \subseteq [cmd : Command, migrate : BOOLEAN, known : 0..MaxKnown]
    BY <1>1, DeploymentAssumption DEF Init
  <2>2. job \in [Proc -> UNION {Jobs[p] : p \in Proc}]
    BY <1>1 DEF Init
  <2>3. QED
    BY <2>1, <2>2
<1>3. todo \in [Proc -> Seq(Nat)]
  BY <1>1 DEF Init
<1>4. DeployType
  BY <1>1, <1>2, <1>3 DEF Init, DeployType, Label
<1>5. SessionInv
  BY <1>1, DeploymentAssumption DEF Init, SessionInv
<1>6. PartsInv
  BY <1>1 DEF Init, PartsInv, LoopLabel, WorkLabel
<1>7. SchemaInv /\ KeyInv /\ ListInv
  BY <1>1 DEF Init, SchemaInv, KeyInv, ListInv, ReadyLabel, WorkLabel, LoopLabel
<1>8. QED
  BY <1>4, <1>5, <1>6, <1>7 DEF DeployInv

(* The processes stay in the states the arguments below speak of.           *)
THEOREM DeploymentInvariant == Spec => []DeployInv
<1>1. DeployInv /\ [Next]_vars => DeployInv'
  BY TypeStep, SessionStep, PartsStep, SchemaStep, KeyStep, ListStep DEF DeployInv
<1>2. QED
  BY DeployInit, <1>1, PTL DEF Spec

(* Whatever processes of whatever builds migrate and revert at the same     *)
(* time, fail in the middle, lose their connection or are killed: the       *)
(* applied migrations have no gap, and the holder of the lock has on its    *)
(* list what it still has to do and nothing else.                           *)
THEOREM MigratorIsExact == Spec => []MigrationsExact
<1>1. DeployInv => MigrationsExact
  <2>1. SUFFICES ASSUME DeployInv, NEW p \in Proc, session[p] = "live", pc[p] = "migrate",
                        NEW i \in DOMAIN todo[p]
                 PROVE  todo[p][i] \in applied <=> Cmd(p) = "down"
    BY DEF MigrationsExact, DeployInv, DeployType, At
  <2>2. PICK a \in 0..MaxKnown : applied = 1..a /\ ContinuesFrom(p, a)
    BY <2>1 DEF DeployInv, ListInv
  <2>3. i \in 1..Len(todo[p]) /\ i \in Int /\ i >= 1 /\ a \in Int
        /\ Len(todo[p]) \in Nat /\ i <= Len(todo[p])
    BY <2>1 DEF DeployInv, DeployType
  <2>4. QED
    BY <2>2, <2>3 DEF ContinuesFrom
<1>2. QED
  BY DeploymentInvariant, <1>1, PTL

(* A process that runs an engine or accepts requests has all its migrations *)
(* in place as long as nobody reverts any, and a key if it answers the API. *)
THEOREM RunsOnItsSchema == Spec => []ReadyToRun
<1>1. DeployInv => ReadyToRun
  <2>1. SUFFICES ASSUME DeployInv, NEW p \in Proc
                 PROVE  /\ (task[p] = "idle" \/ server[p]) /\ NobodyReverts
                             => Shipped(p) \subseteq applied
                        /\ server[p] /\ Cmd(p) \in {"serve", "dev"} => keys # {}
    BY DEF ReadyToRun, NobodyReverts
  <2>2. server[p] => pc[p] \in {"running", "close"}
    BY <2>1 DEF DeployInv, PartsInv
  <2>3. task[p] = "idle" => pc[p] \in WorkLabel
    BY <2>1 DEF DeployInv, PartsInv
  <2>4. NobodyReverts /\ pc[p] \in ReadyLabel => Shipped(p) \subseteq applied
    BY <2>1 DEF DeployInv, SchemaInv
  <2>5. QED
    BY <2>1, <2>2, <2>3, <2>4 DEF DeployInv, KeyInv, ReadyLabel, WorkLabel, LoopLabel
<1>2. QED
  BY DeploymentInvariant, <1>1, PTL

(* Whichever way a process got to the end of its pool, nothing of it is     *)
(* left to use it.                                                          *)
THEOREM PoolIsEndedLast == Spec => []PoolEndsLast
<1>1. DeployInv => PoolEndsLast
  BY DEF DeployInv, DeployType, PartsInv, SessionInv, PoolEndsLast, LoopLabel, WorkLabel
<1>2. QED
  BY DeploymentInvariant, <1>1, PTL

=============================================================================
