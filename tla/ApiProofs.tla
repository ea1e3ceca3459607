------------------------------ MODULE ApiProofs ------------------------------
(***************************************************************************)
(* The requests of the API, for any number of them at once, namespaces,    *)
(* keys, runs and limits, and whatever clocks, workers, operators and      *)
(* restarts do meanwhile.  First what answers say of runs: what was true   *)
(* of a run when its request was answered stays true of it.  Then what is  *)
(* counted: streams, tokens, and the runs that are open or may still come. *)
(***************************************************************************)
EXTENDS Api, SequenceTheorems, FiniteSetTheorems, TLAPS

-----------------------------------------------------------------------------
(* The inductive invariant *)

Input == StartInput \cup {[key |-> None, body |-> None]}

(* The answers that report success, and those that report a fault of the    *)
(* request; the service itself has none.                                    *)
Success ==
  {"existing", "signalled", "terminated", "requeued", "streamed", "scraped", "created",
   "cancelling"}

Refusal ==
  {"bad_request", "unauthorized", "not_found", "run_closed", "conflict", "throttled",
   "rate_limited", "quota_exceeded", "stream_limit", "overloaded"}

ReqLabel ==
  {"idle", "authenticate", "rate", "depth", "usage", "find", "insert", "raced", "write",
   "requeue", "open", "pump", "answered"}

Req ==
  [pc : ReqLabel, kind : Kind \cup {None}, token : ApiKey \cup {None},
   address : Address \cup {None}, ns : Namespace \cup {None}, input : Input, run : Nat,
   answer : Success \cup Refusal \cup {None}]

Row ==
  [ns : Namespace \cup {None}, key : {i.key : i \in Input}, body : {i.body : i \in Input},
   open : BOOLEAN, asked : BOOLEAN, pending : Int, leased : Int,
   letter : {"none", "open", "requeued"}]

ApiType ==
  /\ request \in [Request -> Req]
  /\ runs \in Seq(Row)
  /\ apiKeys \in [ApiKey -> [ns : Namespace \cup {None}, revoked : BOOLEAN]]

(* A namespace has one run for a key.                                       *)
KeysUnique(rs) ==
  \A i, j \in 1..Len(rs) :
    i # j /\ rs[i].ns = rs[j].ns => rs[i].key = None \/ rs[i].key # rs[j].key

IsOwned(r, rs) == r.run \in 1..Len(rs) /\ rs[r.run].ns = r.ns

(* What a request may rely on, or has told its client.                      *)
Claim(r, rs) ==
  /\ r.pc = "authenticate" => r.token \in ApiKey
  /\ r.pc = "raced" =>
       \E i \in 1..Len(rs) : r.input.key # None /\ rs[i].ns = r.ns /\ rs[i].key = r.input.key
  /\ r.pc = "requeue" => IsOwned(r, rs)
  /\ r.answer # None <=> r.pc = "answered"
  /\ r.answer \in (Success \ {"scraped"}) \cup {"conflict"} => IsOwned(r, rs)
  /\ r.answer \in {"created", "existing", "conflict"} =>
       /\ rs[r.run].key = r.input.key
       /\ (rs[r.run].body = r.input.body) = (r.answer # "conflict")
  /\ r.answer = "requeued" => rs[r.run].letter = "requeued"

(* No two answers claim the same start or the same dead letter.             *)
AnswersApart ==
  \A p, q \in Request :
    p # q /\ request[p].answer \in {"created", "requeued"}
          /\ request[p].answer = request[q].answer => request[p].run # request[q].run

ClaimInv == \A q \in Request : Claim(request[q], runs)

ApiInv == ApiType /\ KeysUnique(runs) /\ ClaimInv /\ AnswersApart

-----------------------------------------------------------------------------
(* What becomes of the rows *)

(* Rows are added and changed, but never lose what identifies them, and a   *)
(* dead letter is requeued once.                                            *)
RowsKeep(rs, rt) ==
  /\ Len(rs) <= Len(rt)
  /\ \A i \in 1..Len(rs) :
       /\ rt[i].ns = rs[i].ns /\ rt[i].key = rs[i].key /\ rt[i].body = rs[i].body
       /\ rs[i].letter = "requeued" => rt[i].letter = "requeued"

(* So what was claimed stays true.                                          *)
LEMMA ClaimKept ==
  ASSUME NEW rs \in Seq(Row), NEW rt \in Seq(Row), RowsKeep(rs, rt),
         NEW r \in Req, Claim(r, rs)
  PROVE  Claim(r, rt)
<1>1. Len(rs) \in Nat /\ Len(rt) \in Nat /\ Len(rs) <= Len(rt)
  BY DEF RowsKeep
<1>2. \A i \in 1..Len(rs) :
        /\ i \in 1..Len(rt)
        /\ rt[i].ns = rs[i].ns /\ rt[i].key = rs[i].key /\ rt[i].body = rs[i].body
        /\ rs[i].letter = "requeued" => rt[i].letter = "requeued"
  BY <1>1 DEF RowsKeep
<1>3. IsOwned(r, rs) => IsOwned(r, rt)
  BY <1>2 DEF IsOwned
<1>4. IsOwned(r, rs) =>
        /\ rt[r.run].key = rs[r.run].key /\ rt[r.run].body = rs[r.run].body
        /\ rs[r.run].letter = "requeued" => rt[r.run].letter = "requeued"
  BY <1>2 DEF IsOwned
<1>5. r.answer \in {"created", "existing", "conflict", "requeued"} => IsOwned(r, rs)
  BY DEF Claim, Success
<1>6. r.pc = "raced" =>
        \E i \in 1..Len(rt) : r.input.key # None /\ rt[i].ns = r.ns /\ rt[i].key = r.input.key
  BY <1>2 DEF Claim
<1>7. QED
  BY <1>3, <1>4, <1>5, <1>6 DEF Claim

(* Changing a row of a run that is there keeps the rest.                    *)
LEMMA RowChanged ==
  ASSUME ApiType, KeysUnique(runs), NEW i \in 1..Len(runs), NEW row \in Row,
         row.ns = runs[i].ns, row.key = runs[i].key, row.body = runs[i].body,
         runs[i].letter = "requeued" => row.letter = "requeued",
         NEW rt, rt = [runs EXCEPT ![i] = row]
  PROVE  rt \in Seq(Row) /\ RowsKeep(runs, rt) /\ KeysUnique(rt) /\ rt[i] = row
<1>1. runs \in Seq(Row) /\ Len(runs) \in Nat /\ DOMAIN runs = 1..Len(runs)
  BY DEF ApiType
<1>2. rt \in Seq(Row) /\ Len(rt) = Len(runs)
  BY <1>1
<1>3. \A j \in 1..Len(runs) : rt[j] = IF j = i THEN row ELSE runs[j]
  BY <1>1
<1>4. QED
  BY <1>1, <1>2, <1>3 DEF RowsKeep, KeysUnique

(* No row changes.                                                          *)
LEMMA RowsSame ==
  ASSUME ApiType
  PROVE  RowsKeep(runs, runs)
BY DEF ApiType, RowsKeep

(* A run whose key the namespace has not used comes behind the others.      *)
LEMMA RowAdded ==
  ASSUME ApiType, KeysUnique(runs), NEW row \in Row,
         \A i \in 1..Len(runs) : row.key # None /\ runs[i].ns = row.ns => runs[i].key # row.key,
         NEW rt, rt = Append(runs, row)
  PROVE  /\ rt \in Seq(Row) /\ RowsKeep(runs, rt) /\ KeysUnique(rt)
         /\ Len(rt) = Len(runs) + 1 /\ rt[Len(runs) + 1] = row
<1>1. runs \in Seq(Row) /\ Len(runs) \in Nat
  BY DEF ApiType
<1>2. rt \in Seq(Row) /\ Len(rt) = Len(runs) + 1 /\ rt[Len(runs) + 1] = row
      /\ \A i \in 1..Len(runs) : rt[i] = runs[i]
  BY <1>1
<1>3. \A i \in 1..Len(rt) : i \in 1..Len(runs) \/ i = Len(runs) + 1
  BY <1>1, <1>2
<1>4. QED
  BY <1>1, <1>2, <1>3 DEF RowsKeep, KeysUnique

-----------------------------------------------------------------------------
(* A step of one request *)

(* A request that moves to where its claim holds.                           *)
LEMMA RequestMoves ==
  ASSUME ApiInv, NEW q \in Request, NEW to \in Req, Goes(q, to),
         runs' \in Seq(Row), RowsKeep(runs, runs'), KeysUnique(runs'),
         apiKeys' = apiKeys, Claim(to, runs'),
         to.answer \in {"created", "requeued"} =>
           \A p \in Request \ {q} :
             request[p].answer = to.answer => request[p].run # to.run
  PROVE  ApiInv'
<1>1. ApiType /\ ClaimInv /\ AnswersApart
  BY DEF ApiInv
<1>2. request' \in [Request -> Req] /\ request'[q] = to
      /\ \A p \in Request : p # q => request'[p] = request[p]
  BY <1>1 DEF Goes, ApiType
<1>3. ApiType'
  BY <1>1, <1>2 DEF ApiType
<1>4. ASSUME NEW p \in Request, p # q
      PROVE  Claim(request'[p], runs')
  <2>1. request[p] \in Req /\ Claim(request[p], runs) /\ runs \in Seq(Row)
    BY <1>1 DEF ApiType, ClaimInv
  <2>2. Claim(request[p], runs')
    BY <2>1, ClaimKept
  <2>3. QED
    BY <1>2, <1>4, <2>2
<1>5. ClaimInv'
  BY <1>2, <1>4 DEF ClaimInv
<1>6. AnswersApart'
  BY <1>1, <1>2 DEF AnswersApart
<1>7. KeysUnique(runs)'
  BY DEF KeysUnique
<1>8. QED
  BY <1>3, <1>5, <1>6, <1>7 DEF ApiInv

(* Nobody's request moves.                                                  *)
LEMMA RowsMove ==
  ASSUME ApiInv, UNCHANGED request,
         runs' \in Seq(Row), RowsKeep(runs, runs'), KeysUnique(runs'),
         apiKeys' \in [ApiKey -> [ns : Namespace \cup {None}, revoked : BOOLEAN]]
  PROVE  ApiInv'
<1>1. ApiType /\ ClaimInv /\ AnswersApart
  BY DEF ApiInv
<1>2. ApiType'
  BY <1>1 DEF ApiType
<1>3. ASSUME NEW p \in Request
      PROVE  Claim(request'[p], runs')
  <2>1. request[p] \in Req /\ Claim(request[p], runs) /\ runs \in Seq(Row)
    BY <1>1 DEF ApiType, ClaimInv
  <2>2. QED
    BY <2>1, ClaimKept
<1>4. ClaimInv'
  BY <1>3 DEF ClaimInv
<1>5. AnswersApart' /\ KeysUnique(runs)'
  BY <1>1 DEF AnswersApart, KeysUnique
<1>6. QED
  BY <1>2, <1>4, <1>5 DEF ApiInv

(* A request that changes no row and claims nothing of one.                 *)
LEMMA RequestGoesOn ==
  ASSUME ApiInv, NEW q \in Request, NEW to \in Req, Goes(q, to), UNCHANGED <<runs, apiKeys>>,
         Claim(to, runs), to.answer \notin {"created", "requeued"}
  PROVE  ApiInv'
<1>1. RowsKeep(runs, runs') /\ KeysUnique(runs') /\ runs' \in Seq(Row)
  BY RowsSame DEF ApiInv, ApiType
<1>2. QED
  BY <1>1, RequestMoves

-----------------------------------------------------------------------------
(* The shapes of a request *)

(* A request that has not come in claims nothing.                           *)
LEMMA IdleShape == Idle \in Req /\ \A rs : Claim(Idle, rs)
BY DEF Idle, Req, Input, ReqLabel, Claim, Success, None

(* An answer keeps what the request asked for.                              *)
LEMMA AnsweredShape ==
  ASSUME NEW r \in Req, NEW a \in Success \cup Refusal
  PROVE  /\ AnsweredBy(r, a) \in Req
         /\ AnsweredBy(r, a).pc = "answered" /\ AnsweredBy(r, a).answer = a
         /\ AnsweredBy(r, a).ns = r.ns /\ AnsweredBy(r, a).run = r.run
         /\ AnsweredBy(r, a).input = r.input
BY DEF AnsweredBy, Req, ReqLabel

(* A refusal, but for a conflict, says nothing of a run.                    *)
LEMMA RefusalClaims ==
  ASSUME NEW to, NEW rs, to.pc = "answered",
         to.answer \in (Refusal \ {"conflict"}) \cup {"scraped"}
  PROVE  Claim(to, rs) /\ to.answer \notin {"created", "requeued"}
BY DEF Claim, Refusal, Success, None

(* Nor does a request that is not answered.                                 *)
LEMMA OpenClaims ==
  ASSUME NEW to, NEW rs, to.answer = None,
         to.pc \notin {"answered", "authenticate", "raced", "requeue"}
  PROVE  Claim(to, rs) /\ to.answer \notin {"created", "requeued"}
BY DEF Claim, Success, None

(* A refusal.                                                               *)
LEMMA Refuses ==
  ASSUME ApiInv, NEW q \in Request, NEW r \in Req,
         NEW a \in (Refusal \ {"conflict"}) \cup {"scraped"},
         Goes(q, AnsweredBy(r, a)), UNCHANGED <<runs, apiKeys>>
  PROVE  ApiInv'
<1> DEFINE to == AnsweredBy(r, a)
<1>1. a \in Success \cup Refusal
  BY DEF Success
<1>2. to \in Req /\ to.pc = "answered" /\ to.answer = a /\ Goes(q, to)
  BY <1>1, AnsweredShape
<1> HIDE DEF to
<1>3. Claim(to, runs) /\ to.answer \notin {"created", "requeued"}
  BY <1>2, RefusalClaims
<1>4. QED
  BY <1>2, <1>3, RequestGoesOn

(* A request that is still under way.                                       *)
LEMMA GoesOpen ==
  ASSUME ApiInv, NEW q \in Request, NEW to \in Req, Goes(q, to), UNCHANGED <<runs, apiKeys>>,
         to.answer = None, to.pc \notin {"answered", "authenticate", "raced", "requeue"}
  PROVE  ApiInv'
BY OpenClaims, RequestGoesOn

(* What is known of the request that a step is about.                       *)
LEMMA RequestShape ==
  ASSUME ApiInv, NEW q \in Request
  PROVE  request[q] \in Req /\ Claim(request[q], runs) /\ runs \in Seq(Row)
         /\ Len(runs) \in Nat /\ DOMAIN runs = 1..Len(runs)
         /\ (request[q].pc # "answered" => request[q].answer = None)
BY DEF ApiInv, ApiType, ClaimInv, Claim

-----------------------------------------------------------------------------
(* The steps *)

(* Whom the throttle or the missing token turns away is told nothing of a run. *)
LEMMA TurnedAway ==
  ASSUME ApiInv, NEW q \in Request, NEW address, TurnAway(q, address),
         UNCHANGED <<runs, apiKeys>>
  PROVE  ApiInv'
BY IdleShape, Refuses DEF TurnAway, Refusal

(* A request comes in.                                                      *)
LEMMA ArriveStep ==
  ASSUME ApiInv, NEW q \in Request, NEW token \in ApiKey \cup {None},
         NEW address \in Address, Arrive(q, token, address)
  PROVE  ApiInv'
<1>1. UNCHANGED <<runs, apiKeys>>
  BY DEF Arrive, Comes
<1>2. CASE TurnAway(q, address)
  BY <1>1, <1>2, TurnedAway
<1>3. CASE token # None
           /\ Goes(q, [Idle EXCEPT !.pc = "authenticate", !.token = token, !.address = address])
  <2> DEFINE to == [Idle EXCEPT !.pc = "authenticate", !.token = token, !.address = address]
  <2>1. to \in Req /\ to.pc = "authenticate" /\ to.token = token /\ to.answer = None
    BY IdleShape DEF Req, ReqLabel, Idle
  <2>2. Goes(q, to)
    BY <1>3
  <2> HIDE DEF to
  <2>3. Claim(to, runs) /\ to.answer \notin {"created", "requeued"}
    BY <1>3, <2>1 DEF Claim, Success, None
  <2>4. QED
    BY <1>1, <2>1, <2>2, <2>3, RequestGoesOn
<1>4. QED
  BY <1>2, <1>3 DEF Arrive

(* The metrics are asked for.                                               *)
LEMMA ScrapeStep ==
  ASSUME ApiInv, NEW q \in Request, NEW address, NEW accepted, Scrape(q, address, accepted)
  PROVE  ApiInv'
<1>1. UNCHANGED <<runs, apiKeys>>
  BY DEF Scrape, Comes
<1>2. CASE TurnAway(q, address)
  BY <1>1, <1>2, TurnedAway
<1>3. CASE Goes(q, AnsweredBy(Idle, "scraped"))
  BY <1>1, <1>3, IdleShape, Refuses
<1>4. QED
  BY <1>2, <1>3 DEF Scrape

(* The guards before the operation refuse a request or let it pass.         *)
LEMMA GuardsStep ==
  ASSUME ApiInv, NEW q \in Request,
         \/ Authenticate(q) \/ CheckDepth(q) \/ RefuseBody(q)
         \/ \E kind \in Kind : TakeToken(q, kind)
         \/ \E input \in StartInput : CheckUsage(q, input)
  PROVE  ApiInv'
<1> DEFINE r == request[q]
<1>1. r \in Req /\ Claim(r, runs) /\ (r.pc # "answered" => r.answer = None)
  BY RequestShape
<1>2. UNCHANGED <<runs, apiKeys>>
  BY DEF Authenticate, TakeToken, CheckDepth, CheckUsage, RefuseBody
<1>3. ASSUME NEW a \in {"unauthorized", "rate_limited", "overloaded", "quota_exceeded",
                         "bad_request"}, Goes(q, Answered(q, a))
      PROVE  ApiInv'
  <2>1. Goes(q, AnsweredBy(r, a)) /\ a \in (Refusal \ {"conflict"}) \cup {"scraped"}
    BY <1>3 DEF Answered, Refusal
  <2>2. QED
    BY <1>1, <1>2, <2>1, Refuses
<1>4. CASE Authenticate(q)
  <2> DEFINE key == apiKeys[r.token]
             to == [r EXCEPT !.pc = "rate", !.ns = key.ns]
  <2>1. r.pc = "authenticate" /\ r.answer = None /\ r.token \in ApiKey
    BY <1>1, <1>4 DEF Authenticate, Claim
  <2>2. key.ns \in Namespace \cup {None}
    BY <2>1 DEF ApiInv, ApiType
  <2>3. to \in Req /\ to.pc = "rate" /\ to.answer = None
    BY <1>1, <2>1, <2>2 DEF Req, ReqLabel
  <2>4. Goes(q, to) \/ Goes(q, Answered(q, "unauthorized"))
    BY <1>4 DEF Authenticate
  <2> HIDE DEF to
  <2>5. QED
    BY <1>2, <1>3, <2>3, <2>4, GoesOpen
<1>5. ASSUME NEW kind \in Kind, TakeToken(q, kind)
      PROVE  ApiInv'
  <2> DEFINE to == [r EXCEPT !.kind = kind,
                             !.pc = IF kind = "stream" THEN "open" ELSE "depth"]
  <2>1. r.pc = "rate" /\ r.answer = None
    BY <1>1, <1>5 DEF TakeToken
  <2>2. to \in Req /\ to.pc \in {"open", "depth"} /\ to.answer = None
    BY <1>1, <2>1, ZenonT(60) DEF Req, ReqLabel
  <2>3. Goes(q, to) \/ Goes(q, Answered(q, "rate_limited"))
    BY <1>5 DEF TakeToken
  <2> HIDE DEF to
  <2>4. QED
    BY <1>2, <1>3, <2>2, <2>3, GoesOpen
<1>6. CASE CheckDepth(q)
  <2> DEFINE to == [r EXCEPT !.pc = "usage"]
  <2>1. r.pc = "depth" /\ r.answer = None
    BY <1>1, <1>6 DEF CheckDepth
  <2>2. to \in Req /\ to.pc = "usage" /\ to.answer = None
    BY <1>1, <2>1 DEF Req, ReqLabel
  <2>3. Goes(q, to) \/ Goes(q, Answered(q, "overloaded"))
    BY <1>6 DEF CheckDepth
  <2> HIDE DEF to
  <2>4. QED
    BY <1>2, <1>3, <2>2, <2>3, GoesOpen
<1>7. ASSUME NEW input \in StartInput, CheckUsage(q, input)
      PROVE  ApiInv'
  <2> DEFINE start == [r EXCEPT !.pc = "find", !.input = input]
             write == [r EXCEPT !.pc = "write", !.run = 1]
  <2>1. r.pc = "usage" /\ r.answer = None
    BY <1>1, <1>7 DEF CheckUsage
  <2>2. start \in Req /\ start.pc = "find" /\ start.answer = None
    BY <1>1, <2>1, ZenonT(60) DEF Req, ReqLabel, Input
  <2>3. write \in Req /\ write.pc = "write" /\ write.answer = None
    BY <1>1, <2>1 DEF Req, ReqLabel
  <2>4. Goes(q, start) \/ Goes(q, write) \/ Goes(q, Answered(q, "quota_exceeded"))
    BY <1>7 DEF CheckUsage
  <2> HIDE DEF start, write
  <2>5. QED
    BY <1>2, <1>3, <2>2, <2>3, <2>4, GoesOpen
<1>8. CASE RefuseBody(q)
  BY <1>3, <1>8 DEF RefuseBody
<1>9. QED
  BY <1>4, <1>5, <1>6, <1>7, <1>8

(* A start that looks for the run of its key.                               *)
LEMMA FindByKeyStep ==
  ASSUME ApiInv, NEW q \in Request, FindByKey(q)
  PROVE  ApiInv'
<1> DEFINE r == request[q]
           known == WithKey(r.ns, r.input.key)
<1>1. /\ r \in Req /\ Claim(r, runs) /\ r.pc \in {"find", "raced"} /\ r.answer = None
      /\ DOMAIN runs = 1..Len(runs) /\ Len(runs) \in Nat
  BY RequestShape DEF FindByKey
<1>2. UNCHANGED <<runs, apiKeys>>
  BY DEF FindByKey
<1>3. CASE known # {}
  <2> DEFINE x == CHOOSE y \in known : TRUE
             a == IF runs[x].body = r.input.body THEN "existing" ELSE "conflict"
             to == [AnsweredBy(r, a) EXCEPT !.run = x]
  <2>1. x \in known
    BY <1>3
  <2>2. x \in 1..Len(runs) /\ runs[x].ns = r.ns /\ runs[x].key = r.input.key /\ x \in Nat
    <3> HIDE DEF x
    <3>1. x \in DOMAIN runs /\ runs[x].ns = r.ns /\ runs[x].key = r.input.key
      BY <2>1 DEF WithKey
    <3>2. QED
      BY <1>1, <3>1
  <2>3. a \in Success \cup Refusal /\ a \in {"existing", "conflict"}
    BY DEF Success, Refusal
  <2>4. (runs[x].body = r.input.body) = (a # "conflict")
    OBVIOUS
  <2>5. Goes(q, to)
    BY <1>3 DEF FindByKey, Found, Answered
  <2> HIDE DEF a
  <2>6. AnsweredBy(r, a) \in Req /\ AnsweredBy(r, a).pc = "answered"
        /\ AnsweredBy(r, a).answer = a /\ AnsweredBy(r, a).ns = r.ns
        /\ AnsweredBy(r, a).input = r.input
    BY <1>1, <2>3, AnsweredShape
  <2> HIDE DEF x
  <2>7. to \in Req /\ to.pc = "answered" /\ to.answer = a /\ to.ns = r.ns
        /\ to.input = r.input /\ to.run = x
    BY <2>2, <2>6 DEF Req
  <2> HIDE DEF to
  <2>8. Claim(to, runs) /\ to.answer \notin {"created", "requeued"}
    BY <2>2, <2>3, <2>4, <2>7 DEF Claim, IsOwned, None
  <2>9. QED
    BY <1>2, <2>5, <2>7, <2>8, RequestGoesOn
<1>4. CASE known = {} /\ r.pc = "find"
  <2> DEFINE to == [r EXCEPT !.pc = "insert"]
  <2>1. Goes(q, to)
    BY <1>4 DEF FindByKey
  <2>2. to \in Req /\ to.pc = "insert" /\ to.answer = None
    BY <1>1 DEF Req, ReqLabel
  <2> HIDE DEF to
  <2>3. QED
    BY <1>2, <2>1, <2>2, GoesOpen
<1>5. CASE known = {} /\ r.pc = "raced"
  <2>1. PICK i \in 1..Len(runs) :
          r.input.key # None /\ runs[i].ns = r.ns /\ runs[i].key = r.input.key
    BY <1>1, <1>5 DEF Claim
  <2>2. i \in known
    BY <1>1, <2>1 DEF WithKey
  <2>3. QED
    BY <1>5, <2>2
<1>6. QED
  BY <1>1, <1>3, <1>4, <1>5

(* The unique index decides which start of a key makes the run.             *)
LEMMA InsertRunStep ==
  ASSUME ApiInv, NEW q \in Request, InsertRun(q)
  PROVE  ApiInv'
<1> DEFINE r == request[q]
           new == [ns |-> r.ns, key |-> r.input.key, body |-> r.input.body, open |-> TRUE,
                   asked |-> FALSE, pending |-> 1, leased |-> 0, letter |-> "none"]
<1>1. /\ r \in Req /\ r.pc = "insert" /\ r.answer = None /\ apiKeys' = apiKeys
      /\ DOMAIN runs = 1..Len(runs) /\ Len(runs) \in Nat
  BY RequestShape DEF InsertRun
<1>2. CASE Conflict(r.ns, r.input.key) /\ Goes(q, [r EXCEPT !.pc = "raced"]) /\ UNCHANGED runs
  <2> DEFINE to == [r EXCEPT !.pc = "raced"]
  <2>1. to \in Req /\ to.pc = "raced" /\ to.answer = None /\ to.ns = r.ns /\ to.input = r.input
    BY <1>1 DEF Req, ReqLabel
  <2>2. Goes(q, to)
    BY <1>2
  <2> HIDE DEF to
  <2>3. PICK i \in 1..Len(runs) :
          r.input.key # None /\ runs[i].ns = r.ns /\ runs[i].key = r.input.key
    BY <1>1, <1>2 DEF Conflict, WithKey
  <2>4. Claim(to, runs) /\ to.answer \notin {"created", "requeued"}
    BY <2>1, <2>3 DEF Claim, Success, None
  <2>5. QED
    BY <1>1, <1>2, <2>1, <2>2, <2>4, RequestGoesOn
<1>3. CASE /\ ~Conflict(r.ns, r.input.key) /\ runs' = Append(runs, new)
           /\ Goes(q, [Answered(q, "created") EXCEPT !.run = Len(runs) + 1])
  <2> DEFINE to == [AnsweredBy(r, "created") EXCEPT !.run = Len(runs) + 1]
  <2>1. Goes(q, to)
    BY <1>3 DEF Answered
  <2>2. AnsweredBy(r, "created") \in Req /\ AnsweredBy(r, "created").pc = "answered"
        /\ AnsweredBy(r, "created").answer = "created" /\ AnsweredBy(r, "created").ns = r.ns
        /\ AnsweredBy(r, "created").input = r.input
    BY <1>1, AnsweredShape DEF Success
  <2>3. to \in Req /\ to.pc = "answered" /\ to.answer = "created" /\ to.ns = r.ns
        /\ to.input = r.input /\ to.run = Len(runs) + 1
    BY <1>1, <2>2 DEF Req
  <2>4. r.input.key \in {i.key : i \in Input} /\ r.input.body \in {i.body : i \in Input}
        /\ r.ns \in Namespace \cup {None}
    BY <1>1 DEF Req
  <2>5. new \in Row
    BY <2>4 DEF Row
  <2>6. \A i \in 1..Len(runs) : new.key # None /\ runs[i].ns = new.ns => runs[i].key # new.key
    BY <1>1, <1>3 DEF Conflict, WithKey
  <2>7. new.ns = r.ns /\ new.key = r.input.key /\ new.body = r.input.body
    OBVIOUS
  <2> HIDE DEF new, to
  <2>8. /\ runs' \in Seq(Row) /\ RowsKeep(runs, runs') /\ KeysUnique(runs')
        /\ Len(runs') = Len(runs) + 1 /\ runs'[Len(runs) + 1] = new
    BY <1>3, <2>5, <2>6, RowAdded DEF ApiInv
  <2>9. Claim(to, runs')
    BY <1>1, <2>3, <2>7, <2>8 DEF Claim, IsOwned, None, Success
  <2>10. \A p \in Request \ {q} : request[p].answer = "created" => request[p].run # to.run
    <3>1. SUFFICES ASSUME NEW p \in Request \ {q}, request[p].answer = "created"
                   PROVE  request[p].run # to.run
      OBVIOUS
    <3>2. IsOwned(request[p], runs)
      BY <3>1 DEF ApiInv, ClaimInv, Claim, Success
    <3>3. QED
      BY <1>1, <2>3, <3>2 DEF IsOwned
  <2>11. QED
    BY <1>1, <2>1, <2>3, <2>8, <2>9, <2>10, RequestMoves
<1>4. QED
  BY <1>1, <1>2, <1>3 DEF InsertRun

-----------------------------------------------------------------------------
(* What writes make of a row                                                *)

(* They keep what identifies the run.                                       *)
LEMMA RowShapes ==
  ASSUME NEW row \in Row
  PROVE  /\ \A new \in {WithTask(row), AskedRow(row), ClosedRow(row)} :
              /\ new \in Row /\ new.ns = row.ns /\ new.key = row.key /\ new.body = row.body
              /\ new.letter = row.letter
         /\ [WithTask(row) EXCEPT !.letter = "requeued"] \in Row
         /\ [WithTask(row) EXCEPT !.letter = "requeued"].ns = row.ns
         /\ [WithTask(row) EXCEPT !.letter = "requeued"].key = row.key
         /\ [WithTask(row) EXCEPT !.letter = "requeued"].body = row.body
         /\ [WithTask(row) EXCEPT !.letter = "requeued"].letter = "requeued"
<1>1. WithTask(row) \in Row /\ WithTask(row).ns = row.ns /\ WithTask(row).key = row.key
      /\ WithTask(row).body = row.body /\ WithTask(row).letter = row.letter
  BY DEF WithTask, Row
<1>2. ClosedRow(row) \in Row /\ ClosedRow(row).ns = row.ns /\ ClosedRow(row).key = row.key
      /\ ClosedRow(row).body = row.body /\ ClosedRow(row).letter = row.letter
  <2> DEFINE shut == [row EXCEPT !.open = FALSE]
  <2>1. shut \in Row /\ shut.ns = row.ns /\ shut.key = row.key /\ shut.body = row.body
        /\ shut.letter = row.letter
    BY DEF Row
  <2>2. ClosedRow(row) = [shut EXCEPT !.pending = 0]
    BY DEF ClosedRow, Row
  <2> HIDE DEF shut
  <2>3. QED
    BY <2>1, <2>2 DEF Row
<1>3. AskedRow(row) \in Row /\ AskedRow(row).ns = row.ns /\ AskedRow(row).key = row.key
      /\ AskedRow(row).body = row.body /\ AskedRow(row).letter = row.letter
  <2>1. CASE row.asked
    BY <2>1 DEF AskedRow
  <2>2. CASE ~row.asked
    <3>1. AskedRow(row) = [WithTask(row) EXCEPT !.asked = TRUE]
      BY <2>2 DEF AskedRow
    <3>2. QED
      BY <1>1, <3>1 DEF Row
  <2>3. QED
    BY <2>1, <2>2
<1>4. /\ [WithTask(row) EXCEPT !.letter = "requeued"] \in Row
      /\ [WithTask(row) EXCEPT !.letter = "requeued"].ns = row.ns
      /\ [WithTask(row) EXCEPT !.letter = "requeued"].key = row.key
      /\ [WithTask(row) EXCEPT !.letter = "requeued"].body = row.body
      /\ [WithTask(row) EXCEPT !.letter = "requeued"].letter = "requeued"
  BY <1>1 DEF Row
<1>5. QED
  BY <1>1, <1>2, <1>3, <1>4

(* So does a change of the counts of its tasks.                             *)
LEMMA CountsShape ==
  ASSUME NEW row \in Row, NEW p \in Int, NEW l \in Int
  PROVE  LET new == [row EXCEPT !.pending = p, !.leased = l]
         IN /\ new \in Row /\ new.ns = row.ns /\ new.key = row.key /\ new.body = row.body
            /\ new.letter = row.letter
BY DEF Row

(* A signal, a cancellation or a termination.                               *)
LEMMA WriteStep ==
  ASSUME ApiInv, NEW q \in Request, SignalRun(q) \/ CancelRun(q) \/ TerminateRun(q)
  PROVE  ApiInv'
<1> DEFINE r == request[q]
           old == runs[r.run]
<1>1. PICK kind \in {"signal", "cancel", "terminate"},
           row \in {WithTask(old), AskedRow(old), ClosedRow(old)},
           answer \in {"signalled", "cancelling", "terminated"} :
        WriteRun(q, kind, row, answer)
  BY DEF SignalRun, CancelRun, TerminateRun, Target
<1>2. /\ r \in Req /\ r.pc = "write" /\ r.answer = None /\ apiKeys' = apiKeys
      /\ DOMAIN runs = 1..Len(runs) /\ Len(runs) \in Nat /\ runs \in Seq(Row)
  BY <1>1, RequestShape DEF WriteRun
<1> DEFINE accepted == Owned(r.ns, r.run) /\ old.open
<1>3. CASE accepted
  <2> DEFINE to == AnsweredBy(r, answer)
  <2>1. Goes(q, to) /\ runs' = [runs EXCEPT ![r.run] = row]
    BY <1>1, <1>3 DEF WriteRun, Answered
  <2>2. to \in Req /\ to.pc = "answered" /\ to.answer = answer /\ to.ns = r.ns /\ to.run = r.run
    <3>1. answer \in Success \cup Refusal
      BY DEF Success
    <3>2. QED
      BY <1>2, <3>1, AnsweredShape
  <2>3. r.run \in 1..Len(runs) /\ old \in Row /\ old.ns = r.ns
    BY <1>2, <1>3 DEF Owned
  <2>4. row \in Row /\ row.ns = old.ns /\ row.key = old.key /\ row.body = old.body
        /\ row.letter = old.letter
    BY <2>3, RowShapes
  <2> HIDE DEF to
  <2>5. runs' \in Seq(Row) /\ RowsKeep(runs, runs') /\ KeysUnique(runs') /\ runs'[r.run] = row
    BY <2>1, <2>3, <2>4, RowChanged DEF ApiInv
  <2>6. Len(runs) <= Len(runs') /\ Len(runs') \in Nat
    BY <2>5 DEF RowsKeep
  <2>7. Claim(to, runs') /\ to.answer \notin {"created", "requeued"}
    BY <1>2, <2>2, <2>3, <2>4, <2>5, <2>6 DEF Claim, IsOwned, None
  <2>8. QED
    BY <1>2, <2>1, <2>2, <2>5, <2>7, RequestMoves
<1>4. CASE ~accepted
  <2>1. PICK a \in {"not_found", "run_closed"} : Goes(q, AnsweredBy(r, a)) /\ UNCHANGED runs
    BY <1>1, <1>4 DEF WriteRun, Answered
  <2>2. a \in (Refusal \ {"conflict"}) \cup {"scraped"}
    BY DEF Refusal
  <2>3. QED
    BY <1>2, <2>1, <2>2, Refuses
<1>5. QED
  BY <1>3, <1>4

(* The look at a dead letter.                                               *)
LEMMA FindLetterStep ==
  ASSUME ApiInv, NEW q \in Request, FindLetter(q)
  PROVE  ApiInv'
<1> DEFINE r == request[q]
<1>1. /\ r \in Req /\ r.pc = "write" /\ r.answer = None /\ UNCHANGED <<runs, apiKeys>>
      /\ DOMAIN runs = 1..Len(runs)
  BY RequestShape DEF FindLetter
<1>2. CASE Owned(r.ns, r.run) /\ HasLetter(r.run)
  <2> DEFINE to == [r EXCEPT !.pc = "requeue"]
  <2>1. Goes(q, to)
    BY <1>2 DEF FindLetter
  <2>2. to \in Req /\ to.pc = "requeue" /\ to.answer = None /\ to.ns = r.ns /\ to.run = r.run
    BY <1>1 DEF Req, ReqLabel
  <2> HIDE DEF to
  <2>3. IsOwned(to, runs)
    BY <1>1, <1>2, <2>2 DEF Owned, IsOwned
  <2>4. Claim(to, runs) /\ to.answer \notin {"created", "requeued"}
    BY <2>2, <2>3 DEF Claim, Success, None
  <2>5. QED
    BY <1>1, <2>1, <2>2, <2>4, RequestGoesOn
<1>3. CASE ~(Owned(r.ns, r.run) /\ HasLetter(r.run))
  <2>1. Goes(q, AnsweredBy(r, "not_found"))
    BY <1>3 DEF FindLetter, Answered
  <2>2. QED
    BY <1>1, <2>1, Refuses DEF Refusal
<1>4. QED
  BY <1>2, <1>3

(* An open letter has not been requeued for anybody, and only one request   *)
(* finds it open.                                                           *)
LEMMA RequeueLetterStep ==
  ASSUME ApiInv, NEW q \in Request, RequeueLetter(q)
  PROVE  ApiInv'
<1> DEFINE r == request[q]
           old == runs[r.run]
           row == [WithTask(old) EXCEPT !.letter = "requeued"]
<1>1. /\ r \in Req /\ r.pc = "requeue" /\ r.answer = None /\ apiKeys' = apiKeys
      /\ DOMAIN runs = 1..Len(runs) /\ Len(runs) \in Nat /\ runs \in Seq(Row)
      /\ Claim(r, runs)
  BY RequestShape DEF RequeueLetter
<1>2. r.run \in 1..Len(runs) /\ old \in Row /\ old.ns = r.ns
  BY <1>1 DEF Claim, IsOwned
<1>3. CASE HasLetter(r.run)
  <2> DEFINE to == AnsweredBy(r, "requeued")
  <2>1. Goes(q, to) /\ runs' = [runs EXCEPT ![r.run] = row]
    BY <1>2, <1>3 DEF RequeueLetter, Answered
  <2>2. to \in Req /\ to.pc = "answered" /\ to.answer = "requeued" /\ to.ns = r.ns
        /\ to.run = r.run
    BY <1>1, AnsweredShape DEF Success
  <2>3. old.letter = "open"
    BY <1>3 DEF HasLetter
  <2>4. row \in Row /\ row.ns = old.ns /\ row.key = old.key /\ row.body = old.body
        /\ row.letter = "requeued"
    BY <1>2, RowShapes
  <2> HIDE DEF to, row
  <2>5. runs' \in Seq(Row) /\ RowsKeep(runs, runs') /\ KeysUnique(runs') /\ runs'[r.run] = row
    BY <1>2, <2>1, <2>4, RowChanged DEF ApiInv
  <2>6. Len(runs) <= Len(runs') /\ Len(runs') \in Nat
    BY <2>5 DEF RowsKeep
  <2>7. Claim(to, runs')
    BY <1>1, <1>2, <2>2, <2>4, <2>5, <2>6 DEF Claim, IsOwned, None, Success
  <2>8. \A p \in Request \ {q} : request[p].answer = "requeued" => request[p].run # to.run
    <3>1. SUFFICES ASSUME NEW p \in Request \ {q}, request[p].answer = "requeued"
                   PROVE  request[p].run # to.run
      OBVIOUS
    <3>2. runs[request[p].run].letter = "requeued"
      BY <3>1 DEF ApiInv, ClaimInv, Claim
    <3>3. QED
      BY <2>2, <2>3, <3>2
  <2>9. QED
    BY <1>1, <2>1, <2>2, <2>5, <2>7, <2>8, RequestMoves
<1>4. CASE ~HasLetter(r.run)
  <2>1. Goes(q, AnsweredBy(r, "not_found")) /\ UNCHANGED runs
    BY <1>4 DEF RequeueLetter, Answered
  <2>2. QED
    BY <1>1, <2>1, Refuses DEF Refusal
<1>5. QED
  BY <1>3, <1>4

(* A stream begins and ends.                                                *)
LEMMA StreamStep ==
  ASSUME ApiInv, NEW q \in Request, OpenStream(q) \/ EndStream(q)
  PROVE  ApiInv'
<1> DEFINE r == request[q]
<1>1. /\ r \in Req /\ r.answer = None /\ UNCHANGED <<runs, apiKeys>> /\ DOMAIN runs = 1..Len(runs)
  BY RequestShape DEF OpenStream, EndStream
<1>2. ASSUME NEW a \in {"stream_limit", "not_found"}, Goes(q, Answered(q, a))
      PROVE  ApiInv'
  <2>1. Goes(q, AnsweredBy(r, a)) /\ a \in (Refusal \ {"conflict"}) \cup {"scraped"}
    BY <1>2 DEF Answered, Refusal
  <2>2. QED
    BY <1>1, <2>1, Refuses
<1>3. CASE OpenStream(q)
  <2> DEFINE to == [r EXCEPT !.pc = "pump", !.run = 1]
  <2>1. Goes(q, to) \/ Goes(q, Answered(q, "stream_limit"))
    BY <1>3 DEF OpenStream
  <2>2. to \in Req /\ to.pc = "pump" /\ to.answer = None
    BY <1>1 DEF Req, ReqLabel
  <2> HIDE DEF to
  <2>3. QED
    BY <1>1, <1>2, <2>1, <2>2, GoesOpen
<1>4. CASE EndStream(q)
  <2>1. CASE Owned(r.ns, r.run)
    <3> DEFINE to == AnsweredBy(r, "streamed")
    <3>1. Goes(q, to)
      BY <1>4, <2>1 DEF EndStream, Answered
    <3>2. to \in Req /\ to.pc = "answered" /\ to.answer = "streamed" /\ to.ns = r.ns
          /\ to.run = r.run
      BY <1>1, AnsweredShape DEF Success
    <3> HIDE DEF to
    <3>3. IsOwned(to, runs)
      BY <1>1, <2>1, <3>2 DEF Owned, IsOwned
    <3>4. Claim(to, runs) /\ to.answer \notin {"created", "requeued"}
      BY <3>2, <3>3 DEF Claim, None
    <3>5. QED
      BY <1>1, <3>1, <3>2, <3>4, RequestGoesOn
  <2>2. CASE ~Owned(r.ns, r.run)
    BY <1>2, <1>4, <2>2 DEF EndStream
  <2>3. QED
    BY <2>1, <2>2
<1>5. QED
  BY <1>3, <1>4

-----------------------------------------------------------------------------
(* Around the requests *)

(* A key is adopted or revoked.                                             *)
LEMMA KeysStep ==
  ASSUME ApiInv, NEW k \in ApiKey, RevokeKey(k) \/ \E n \in Namespace : AdoptKey(k, n)
  PROVE  ApiInv'
<1>1. UNCHANGED <<request, runs>>
  BY DEF RevokeKey, AdoptKey
<1>2. RowsKeep(runs, runs') /\ KeysUnique(runs') /\ runs' \in Seq(Row)
  BY <1>1, RowsSame DEF ApiInv, ApiType
<1>3. apiKeys' \in [ApiKey -> [ns : Namespace \cup {None}, revoked : BOOLEAN]]
  <2>1. CASE RevokeKey(k)
    BY <2>1 DEF RevokeKey, ApiInv, ApiType
  <2>2. ASSUME NEW n \in Namespace, AdoptKey(k, n)
        PROVE  apiKeys' \in [ApiKey -> [ns : Namespace \cup {None}, revoked : BOOLEAN]]
    BY <2>2 DEF AdoptKey, ApiInv, ApiType
  <2>3. QED
    BY <2>1, <2>2
<1>4. QED
  BY <1>1, <1>2, <1>3, RowsMove

(* A task is taken, buried, or ends its run.                                *)
LEMMA WorkersStep ==
  ASSUME ApiInv, NEW i \in DOMAIN runs, LeaseTask(i) \/ BuryTask(i) \/ CloseRun(i)
  PROVE  ApiInv'
<1> DEFINE old == runs[i]
<1>1. /\ UNCHANGED request /\ apiKeys' = apiKeys
      /\ apiKeys \in [ApiKey -> [ns : Namespace \cup {None}, revoked : BOOLEAN]]
  BY DEF LeaseTask, BuryTask, CloseRun, ApiInv, ApiType
<1>2. i \in 1..Len(runs) /\ old \in Row /\ runs \in Seq(Row) /\ DOMAIN runs = 1..Len(runs)
  BY DEF ApiInv, ApiType
<1>3. PICK row \in Row :
        /\ row.ns = old.ns /\ row.key = old.key /\ row.body = old.body
        /\ old.letter = "requeued" => row.letter = "requeued"
        /\ runs' = [runs EXCEPT ![i] = row]
  <2>1. CASE LeaseTask(i)
    <3> DEFINE row == [old EXCEPT !.pending = old.pending - 1, !.leased = old.leased + 1]
    <3>1. row \in Row /\ row.ns = old.ns /\ row.key = old.key /\ row.body = old.body
          /\ row.letter = old.letter
      <4>1. old.pending - 1 \in Int /\ old.leased + 1 \in Int
        BY <1>2 DEF Row
      <4> HIDE DEF old
      <4>2. QED
        BY <1>2, <4>1, CountsShape
    <3>2. runs' = [runs EXCEPT ![i] = row]
      BY <1>2, <2>1 DEF LeaseTask, Row
    <3>3. QED
      BY <3>1, <3>2
  <2>2. CASE BuryTask(i)
    <3> DEFINE row == [old EXCEPT !.leased = @ - 1, !.letter = "open"]
    <3>1. row \in Row /\ row.ns = old.ns /\ row.key = old.key /\ row.body = old.body
          /\ old.letter = "none"
      BY <1>2, <2>2 DEF Row, BuryTask
    <3>2. runs' = [runs EXCEPT ![i] = row]
      BY <1>2, <2>2 DEF BuryTask, Row
    <3>3. QED
      BY <3>1, <3>2
  <2>3. CASE CloseRun(i)
    <3> DEFINE row == [ClosedRow(old) EXCEPT !.leased = @ - 1]
    <3>1. ClosedRow(old) \in Row /\ ClosedRow(old).ns = old.ns /\ ClosedRow(old).key = old.key
          /\ ClosedRow(old).body = old.body /\ ClosedRow(old).letter = old.letter
      BY <1>2, RowShapes
    <3>2. row \in Row /\ row.ns = old.ns /\ row.key = old.key /\ row.body = old.body
          /\ row.letter = old.letter
      BY <3>1 DEF Row
    <3>3. runs' = [runs EXCEPT ![i] = row]
      BY <2>3 DEF CloseRun
    <3>4. QED
      BY <3>2, <3>3
  <2>4. QED
    BY <2>1, <2>2, <2>3
<1>4. runs' \in Seq(Row) /\ RowsKeep(runs, runs') /\ KeysUnique(runs')
  BY <1>2, <1>3, RowChanged DEF ApiInv
<1>5. QED
  BY <1>1, <1>4, RowsMove

(* After a restart no request claims anything.                              *)
LEMMA RestartStep ==
  ASSUME ApiInv, Restart
  PROVE  ApiInv'
<1>1. request' = [q \in Request |-> Idle] /\ UNCHANGED <<apiKeys, runs>>
  BY DEF Restart
<1>2. ApiType'
  BY <1>1, IdleShape DEF ApiInv, ApiType
<1>3. ClaimInv'
  BY <1>1, IdleShape DEF ClaimInv
<1>4. AnswersApart'
  BY <1>1 DEF AnswersApart, Idle, None
<1>5. KeysUnique(runs)'
  BY <1>1 DEF ApiInv, KeysUnique
<1>6. QED
  BY <1>2, <1>3, <1>4, <1>5 DEF ApiInv

(* What touches neither keys nor runs nor requests.                         *)
LEMMA NothingMoves ==
  ASSUME ApiInv, UNCHANGED <<request, runs, apiKeys>>
  PROVE  ApiInv'
<1>1. RowsKeep(runs, runs') /\ KeysUnique(runs') /\ runs' \in Seq(Row)
  BY RowsSame DEF ApiInv, ApiType
<1>2. apiKeys' \in [ApiKey -> [ns : Namespace \cup {None}, revoked : BOOLEAN]]
  BY DEF ApiInv, ApiType
<1>3. QED
  BY <1>1, <1>2, RowsMove

-----------------------------------------------------------------------------
(* The theorems *)

(* In the first state nothing is claimed.                                   *)
LEMMA ApiInit ==
  ASSUME Init
  PROVE  ApiInv
<1>1. ApiType
  BY IdleShape DEF Init, ApiType
<1>2. ClaimInv
  BY IdleShape DEF Init, ClaimInv
<1>3. AnswersApart
  BY DEF Init, AnswersApart, Idle, None
<1>4. KeysUnique(runs)
  BY DEF Init, KeysUnique
<1>5. QED
  BY <1>1, <1>2, <1>3, <1>4 DEF ApiInv

(* Every step of a request.                                                 *)
LEMMA HandleStep ==
  ASSUME ApiInv, NEW q \in Request, Handle(q)
  PROVE  ApiInv'
<1>1. CASE Authenticate(q) \/ CheckDepth(q) \/ RefuseBody(q)
  BY <1>1, GuardsStep
<1>2. CASE \E kind \in Kind : TakeToken(q, kind)
  BY <1>2, GuardsStep
<1>3. CASE \E input \in StartInput : CheckUsage(q, input)
  BY <1>3, GuardsStep
<1>4. CASE FindByKey(q) \/ InsertRun(q)
  BY <1>4, FindByKeyStep, InsertRunStep
<1>5. CASE SignalRun(q) \/ CancelRun(q) \/ TerminateRun(q)
  BY <1>5, WriteStep
<1>6. CASE FindLetter(q) \/ RequeueLetter(q)
  BY <1>6, FindLetterStep, RequeueLetterStep
<1>7. CASE OpenStream(q) \/ EndStream(q)
  BY <1>7, StreamStep
<1>8. QED
  BY <1>1, <1>2, <1>3, <1>4, <1>5, <1>6, <1>7 DEF Handle

(* Every step.                                                              *)
LEMMA ApiStep ==
  ASSUME ApiInv, [Next]_vars
  PROVE  ApiInv'
<1>1. ASSUME NEW q \in Request,
             \/ \E token \in ApiKey \cup {None}, address \in Address : Arrive(q, token, address)
             \/ \E address \in Address, accepted \in BOOLEAN : Scrape(q, address, accepted)
             \/ Handle(q)
      PROVE  ApiInv'
  BY <1>1, ArriveStep, ScrapeStep, HandleStep
<1>2. ASSUME NEW k \in ApiKey, RevokeKey(k) \/ \E n \in Namespace : AdoptKey(k, n)
      PROVE  ApiInv'
  BY <1>2, KeysStep
<1>3. ASSUME NEW i \in DOMAIN runs, LeaseTask(i) \/ BuryTask(i) \/ CloseRun(i)
      PROVE  ApiInv'
  BY <1>3, WorkersStep
<1>4. CASE \E by \in ClockStep : ClockMoves(by)
  BY <1>4, NothingMoves DEF ClockMoves
<1>5. CASE \E i \in DOMAIN failures : WindowPasses(i)
  BY <1>5, NothingMoves DEF WindowPasses
<1>6. CASE Restart
  BY <1>6, RestartStep
<1>7. CASE UNCHANGED vars
  BY <1>7, NothingMoves DEF vars
<1>8. QED
  BY <1>1, <1>2, <1>3, <1>4, <1>5, <1>6, <1>7 DEF Next

(* The inductive invariant holds in every state.                            *)
THEOREM ApiInvariant == Spec => []ApiInv
<1>1. Init => ApiInv
  BY ApiInit
<1>2. ApiInv /\ [Next]_vars => ApiInv'
  BY ApiStep
<1>3. QED
  BY <1>1, <1>2, PTL DEF Spec

(* The table of statuses: no answer of the API is an internal error, and    *)
(* only a success is answered below 300.                                    *)
LEMMA Statuses ==
  /\ \A a \in Success \cup Refusal : StatusOf(a) # 500
  /\ \A a \in Refusal : ~(StatusOf(a) < 300)
<1>1. \A a \in Success : StatusOf(a) \in {200, 201, 202}
  BY DEF StatusOf, Success
<1>2. \A a \in Refusal : StatusOf(a) \in {400, 401, 404, 409, 429, 503}
  BY DEF StatusOf, Refusal
<1>3. QED
  BY <1>1, <1>2

(* What the clients are told is so.                                         *)
LEMMA AnswersHold ==
  ASSUME ApiInv
  PROVE  StartsOnce
<1>1. DOMAIN runs = 1..Len(runs)
  BY DEF ApiInv, ApiType
<1>2. \A r, s \in DOMAIN runs :
        r # s /\ runs[r].ns = runs[s].ns => runs[r].key = None \/ runs[r].key # runs[s].key
  BY <1>1 DEF ApiInv, KeysUnique
<1>3. ASSUME NEW q \in Request, request[q].pc = "answered"
      PROVE  LET r == request[q]
             IN /\ StatusOf(r.answer) # 500
                /\ StatusOf(r.answer) < 300 \/ r.answer = "conflict" =>
                     r.answer = "scraped" \/ Owned(r.ns, r.run)
                /\ r.answer \in {"created", "existing", "conflict"} =>
                     /\ runs[r.run].key = r.input.key
                     /\ (runs[r.run].body = r.input.body) = (r.answer # "conflict")
                /\ \A p \in Request \ {q} :
                     r.answer \in {"created", "requeued"} /\ request[p].answer = r.answer =>
                       r.run # request[p].run
  <2> DEFINE r == request[q]
  <2>1. r \in Req /\ Claim(r, runs)
    BY DEF ApiInv, ApiType, ClaimInv
  <2>2. r.answer \in Success \cup Refusal
    BY <1>3, <2>1 DEF Req, Claim
  <2>3. StatusOf(r.answer) # 500 /\ (StatusOf(r.answer) < 300 => r.answer \in Success)
    BY <2>2, Statuses
  <2>4. StatusOf(r.answer) < 300 \/ r.answer = "conflict" =>
          r.answer = "scraped" \/ Owned(r.ns, r.run)
    BY <1>1, <2>1, <2>3 DEF Claim, IsOwned, Owned
  <2>5. r.answer \in {"created", "existing", "conflict"} =>
          /\ runs[r.run].key = r.input.key
          /\ (runs[r.run].body = r.input.body) = (r.answer # "conflict")
    BY <2>1 DEF Claim
  <2>6. \A p \in Request \ {q} :
          r.answer \in {"created", "requeued"} /\ request[p].answer = r.answer =>
            r.run # request[p].run
    BY DEF ApiInv, AnswersApart
  <2>7. QED
    BY <2>3, <2>4, <2>5, <2>6
<1>4. QED
  BY <1>2, <1>3 DEF StartsOnce

(* Whatever requests, workers, operators, clocks and restarts do: one run   *)
(* per key of a namespace, and every answer is true of the run it is about  *)
(* (startRun, requeueDeadLetter, assertOwned of run-service.ts).            *)
THEOREM StartsAreOnce == Spec => []StartsOnce
BY ApiInvariant, AnswersHold, PTL


-----------------------------------------------------------------------------
(* What is counted                                                          *)

Pumping(n) == {q \in Request : request[q].pc = "pump" /\ request[q].ns = n}

(* Past the look at the quota and not yet at the insert.                    *)
StartLabel == {"find", "insert", "raced"}

Admitted(n) == {q \in Request : request[q].pc \in StartLabel /\ request[q].ns = n}

Opened(n) == {r \in OfNamespace(n) : runs[r].open}

Full == Burst * Unit

(* What a bucket b and the tokens given from it, g, have to do with each    *)
(* other: every token comes from the first filling or from the time that    *)
(* went by since the first one was given; and where the clock has been read *)
(* since the last one was given, that request found no whole token.         *)
RateOK(b, g) ==
  \/ b = NoBucket /\ g = NoGrant
  \/ /\ b.tokens \in Nat /\ b.tokens <= Full /\ b.updatedAt \in Nat
     /\ g.count \in Nat /\ g.first \in Nat /\ g.high \in Nat
     /\ g.first <= g.high /\ g.high <= b.updatedAt
     /\ g.high = b.updatedAt \/ b.tokens < Unit
     /\ g.count * Unit + b.tokens <= Full + Refill * (b.updatedAt - g.first)
     /\ g.count * Unit <= Full + Refill * (g.high - g.first)

StreamInv ==
  /\ openStreams \in [Namespace -> Nat]
  /\ \A n \in Namespace :
       openStreams[n] = Cardinality(Pumping(n)) /\ openStreams[n] <= MaxStreams

RateInv ==
  /\ bucket \in [Namespace -> [tokens : Int, updatedAt : Int]]
  /\ granted \in [Namespace -> [count : Int, first : Int, high : Int]]
  /\ now \in Nat
  /\ \A n \in Namespace : RateOK(bucket[n], granted[n])

(* The open runs and those a request may still add.                         *)
AdmitInv ==
  \A n \in Namespace :
    Cardinality(Opened(n)) + Cardinality(Admitted(n)) <= MaxRuns - 1 + Cardinality(Request)

CountInv == ApiInv /\ StreamInv /\ RateInv /\ AdmitInv

-----------------------------------------------------------------------------
(* What is known of the constants.                                          *)
LEMMA Parameters ==
  /\ MaxRuns \in Nat /\ MaxRuns > 0 /\ MaxStreams \in Nat /\ MaxStreams > 0
  /\ Unit \in Nat /\ Unit > 0 /\ Burst \in Nat /\ Burst > 0 /\ Refill \in Nat /\ Refill > 0
  /\ IsFiniteSet(Request) /\ Cardinality(Request) \in Nat
<1>1. IsFiniteSet(Request) /\ Cardinality(Request) \in Nat
  BY ApiAssumption, FS_CardinalityType
<1>2. QED
  BY <1>1, ApiAssumption

(* A full bucket has a token.                                               *)
LEMMA FullBucket == Full \in Nat /\ Unit <= Full
<1>1. Burst * Unit = (Burst - 1) * Unit + Unit /\ (Burst - 1) * Unit \in Nat
  BY Parameters
<1>2. QED
  BY <1>1, Parameters DEF Full

(* Requests can be counted.                                                 *)
LEMMA RequestsFinite ==
  ASSUME NEW S \in SUBSET Request
  PROVE  IsFiniteSet(S) /\ Cardinality(S) \in Nat /\ Cardinality(S) <= Cardinality(Request)
BY Parameters, FS_Subset, FS_CardinalityType

(* A step of one request leaves the others.                                 *)
LEMMA OneMoves ==
  ASSUME ApiInv, NEW q \in Request, NEW to, Goes(q, to)
  PROVE  request'[q] = to /\ \A p \in Request : p # q => request'[p] = request[p]
BY DEF ApiInv, ApiType, Goes

(* The streams change only when one begins or ends,                         *)
LEMMA PumpingKept ==
  ASSUME ApiInv, NEW q \in Request, NEW to, Goes(q, to), request[q].pc # "pump",
         to.pc # "pump", NEW n
  PROVE  Pumping(n)' = Pumping(n)
BY OneMoves DEF Pumping

(* and the starts let in grow only at the look at the usage.                *)
LEMMA AdmittedKept ==
  ASSUME ApiInv, NEW q \in Request, NEW to, Goes(q, to),
         to.pc \in StartLabel => request[q].pc \in StartLabel /\ to.ns = request[q].ns, NEW n
  PROVE  Admitted(n)' \subseteq Admitted(n)
BY OneMoves DEF Admitted

(* An answered request is at its end.                                       *)
LEMMA AnsweredPc ==
  ASSUME NEW r \in Req, NEW a, NEW x
  PROVE  AnsweredBy(r, a).pc = "answered" /\ [AnsweredBy(r, a) EXCEPT !.run = x].pc = "answered"
BY DEF AnsweredBy, Req

(* How a request moves that opens and ends no stream and is not let in to   *)
(* start a run.                                                             *)
LEMMA PlainMoves ==
  ASSUME ApiInv, NEW q \in Request,
         \/ \E token \in ApiKey \cup {None}, address \in Address : Arrive(q, token, address)
         \/ \E address \in Address, accepted \in BOOLEAN : Scrape(q, address, accepted)
         \/ Authenticate(q) \/ CheckDepth(q) \/ RefuseBody(q)
         \/ \E kind \in Kind : TakeToken(q, kind)
         \/ FindByKey(q) \/ InsertRun(q) \/ SignalRun(q) \/ CancelRun(q) \/ TerminateRun(q)
         \/ FindLetter(q) \/ RequeueLetter(q)
  PROVE  \E to : /\ Goes(q, to) /\ request[q].pc # "pump" /\ to.pc # "pump"
                 /\ to.pc \in StartLabel =>
                      request[q].pc \in StartLabel /\ to.ns = request[q].ns
<1> DEFINE r == request[q]
           Result == \E to : /\ Goes(q, to) /\ r.pc # "pump" /\ to.pc # "pump"
                             /\ to.pc \in StartLabel => r.pc \in StartLabel /\ to.ns = r.ns
<1> SUFFICES Result
  OBVIOUS
<1>1. r \in Req
  BY RequestShape
<1>2. \A a : AnsweredBy(Idle, a).pc = "answered"
  BY IdleShape, AnsweredPc
<1>3. \A a, x : Answered(q, a).pc = "answered" /\ [Answered(q, a) EXCEPT !.run = x].pc = "answered"
  BY <1>1, AnsweredPc DEF Answered
<1>4. \A l : [r EXCEPT !.pc = l].pc = l /\ [r EXCEPT !.pc = l].ns = r.ns
  BY <1>1 DEF Req
<1>5. ASSUME NEW token \in ApiKey \cup {None}, NEW address \in Address, Arrive(q, token, address)
      PROVE  Result
  <2>1. r.pc # "pump"
    BY <1>5 DEF Arrive, Comes
  <2>2. [Idle EXCEPT !.pc = "authenticate", !.token = token, !.address = address].pc
          = "authenticate"
    BY IdleShape DEF Req
  <2>3. QED
    BY <1>2, <1>5, <2>1, <2>2 DEF Arrive, TurnAway, StartLabel
<1>6. ASSUME NEW address, NEW accepted, Scrape(q, address, accepted)
      PROVE  Result
  BY <1>2, <1>6 DEF Scrape, Comes, TurnAway, StartLabel
<1>7. CASE Authenticate(q)
  <2> DEFINE key == apiKeys[r.token]
             to == [r EXCEPT !.pc = "rate", !.ns = key.ns]
  <2>1. to.pc = "rate"
    BY <1>1 DEF Req
  <2>2. Goes(q, to) \/ Goes(q, Answered(q, "unauthorized"))
    BY <1>7 DEF Authenticate
  <2> HIDE DEF to
  <2>3. QED
    BY <1>3, <1>7, <2>1, <2>2 DEF Authenticate, StartLabel
<1>8. CASE CheckDepth(q)
  <2> DEFINE to == [r EXCEPT !.pc = "usage"]
  <2>1. to.pc = "usage"
    BY <1>1 DEF Req
  <2>2. Goes(q, to) \/ Goes(q, Answered(q, "overloaded"))
    BY <1>8 DEF CheckDepth
  <2> HIDE DEF to
  <2>3. QED
    BY <1>3, <1>8, <2>1, <2>2 DEF CheckDepth, StartLabel
<1>9. CASE RefuseBody(q)
  BY <1>3, <1>9 DEF RefuseBody, StartLabel
<1>10. ASSUME NEW kind \in Kind, TakeToken(q, kind)
       PROVE  Result
  <2> DEFINE to == [r EXCEPT !.kind = kind,
                             !.pc = IF kind = "stream" THEN "open" ELSE "depth"]
  <2>1. to.pc \in {"open", "depth"}
    BY <1>1 DEF Req
  <2>2. Goes(q, to) \/ Goes(q, Answered(q, "rate_limited"))
    BY <1>10 DEF TakeToken
  <2> HIDE DEF to
  <2>3. QED
    BY <1>3, <1>10, <2>1, <2>2 DEF TakeToken, StartLabel
<1>11. CASE FindByKey(q)
  <2>1. r.pc \in StartLabel /\ r.pc # "pump"
    BY <1>11 DEF FindByKey, StartLabel
  <2>2. PICK to : Goes(q, to) /\ to.pc \in {"answered", "insert"}
                  /\ (to.pc = "insert" => to.ns = r.ns)
    BY <1>3, <1>4, <1>11 DEF FindByKey, Found
  <2>3. QED
    BY <2>1, <2>2 DEF StartLabel
<1>12. CASE InsertRun(q)
  <2>1. r.pc \in StartLabel /\ r.pc # "pump"
    BY <1>12 DEF InsertRun, StartLabel
  <2>2. PICK to : Goes(q, to) /\ to.pc \in {"answered", "raced"}
                  /\ (to.pc = "raced" => to.ns = r.ns)
    BY <1>3, <1>4, <1>12 DEF InsertRun
  <2>3. QED
    BY <2>1, <2>2 DEF StartLabel
<1>13. CASE SignalRun(q) \/ CancelRun(q) \/ TerminateRun(q)
  BY <1>3, <1>13 DEF SignalRun, CancelRun, TerminateRun, WriteRun, StartLabel
<1>14. CASE FindLetter(q) \/ RequeueLetter(q)
  BY <1>3, <1>4, <1>14 DEF FindLetter, RequeueLetter, StartLabel
<1> HIDE DEF Result
<1>15. QED
  BY <1>5, <1>6, <1>7, <1>8, <1>9, <1>10, <1>11, <1>12, <1>13, <1>14

(* A look at the usage lets a start in only below the limit of open runs.   *)
LEMMA UsageMoves ==
  ASSUME ApiInv, NEW q \in Request, NEW input, CheckUsage(q, input)
  PROVE  \E to : /\ Goes(q, to) /\ request[q].pc # "pump" /\ to.pc # "pump"
                 /\ to.pc \in StartLabel => ~RunsFull(to.ns)
<1> DEFINE r == request[q]
           start == [r EXCEPT !.pc = "find", !.input = input]
           write == [r EXCEPT !.pc = "write", !.run = 1]
<1>1. r \in Req /\ r.pc # "pump"
  BY RequestShape DEF CheckUsage
<1>2. start.ns = r.ns /\ start.pc = "find"
      /\ write.pc = "write" /\ Answered(q, "quota_exceeded").pc = "answered"
  BY <1>1, AnsweredPc DEF Req, Answered
<1>3. \/ Goes(q, start) /\ ~RunsFull(r.ns)
      \/ Goes(q, write)
      \/ Goes(q, Answered(q, "quota_exceeded"))
  BY DEF CheckUsage
<1> HIDE DEF start, write
<1>4. QED
  BY <1>1, <1>2, <1>3 DEF StartLabel

-----------------------------------------------------------------------------
(* The streams                                                              *)

(* Without a change there, the count stays right.                           *)
LEMMA StreamsKept ==
  ASSUME StreamInv, openStreams' = openStreams,
         \A n \in Namespace : Pumping(n)' = Pumping(n)
  PROVE  StreamInv'
BY DEF StreamInv

(* The streams can be counted.                                              *)
LEMMA PumpFinite ==
  ASSUME NEW n
  PROVE  IsFiniteSet(Pumping(n)) /\ Cardinality(Pumping(n)) \in Nat
<1>1. Pumping(n) \in SUBSET Request
  BY DEF Pumping
<1>2. QED
  BY <1>1, RequestsFinite

(* A stream that is let in is counted,                                      *)
LEMMA OpenStreamCounts ==
  ASSUME ApiInv, StreamInv, NEW q \in Request, OpenStream(q)
  PROVE  StreamInv'
<1> DEFINE r == request[q]
           to == [r EXCEPT !.pc = "pump", !.run = 1]
           m == r.ns
<1>1. r \in Req /\ r.pc = "open"
  BY RequestShape DEF OpenStream
<1>2. CASE openStreams[m] >= MaxStreams
  <2>1. Goes(q, Answered(q, "stream_limit")) /\ openStreams' = openStreams
    BY <1>2 DEF OpenStream
  <2>2. Answered(q, "stream_limit").pc = "answered"
    BY <1>1, AnsweredPc DEF Answered
  <2>3. \A n \in Namespace : Pumping(n)' = Pumping(n)
    BY <1>1, <2>1, <2>2, PumpingKept
  <2>4. QED
    BY <2>1, <2>3, StreamsKept
<1>3. CASE ~(openStreams[m] >= MaxStreams)
  <2>1. Goes(q, to) /\ openStreams' = [openStreams EXCEPT ![m] = openStreams[m] + 1]
    BY <1>3 DEF OpenStream
  <2>2. to.pc = "pump" /\ to.ns = m
    BY <1>1 DEF Req
  <2> HIDE DEF to
  <2>3. request'[q] = to /\ \A p \in Request : p # q => request'[p] = request[p]
    BY <2>1, OneMoves
  <2>4. ASSUME NEW n \in Namespace
        PROVE  /\ openStreams'[n] \in Nat
               /\ openStreams'[n] = Cardinality(Pumping(n)')
               /\ openStreams'[n] <= MaxStreams
    <3>1. openStreams[n] \in Nat /\ openStreams[n] = Cardinality(Pumping(n))
          /\ openStreams[n] <= MaxStreams
      BY DEF StreamInv
    <3>2. CASE n = m
      <4>1. Pumping(n)' = Pumping(n) \cup {q} /\ q \notin Pumping(n)
        BY <1>1, <2>2, <2>3, <3>2 DEF Pumping
      <4>2. Cardinality(Pumping(n)') = Cardinality(Pumping(n)) + 1
        BY <4>1, PumpFinite, FS_AddElement
      <4>3. openStreams'[n] = openStreams[n] + 1
        BY <2>1, <3>2 DEF StreamInv
      <4>4. QED
        BY <1>3, <3>1, <3>2, <4>2, <4>3, Parameters
    <3>3. CASE n # m
      <4>1. Pumping(n)' = Pumping(n)
        BY <1>1, <2>2, <2>3, <3>3 DEF Pumping
      <4>2. openStreams'[n] = openStreams[n]
        BY <2>1, <3>3 DEF StreamInv
      <4>3. QED
        BY <3>1, <4>1, <4>2
    <3>4. QED
      BY <3>2, <3>3
  <2>5. openStreams' \in [Namespace -> Nat]
    BY <2>1, <2>4 DEF StreamInv
  <2>6. QED
    BY <2>4, <2>5 DEF StreamInv
<1>4. QED
  BY <1>2, <1>3

(* and one that ends is no more.                                            *)
LEMMA EndStreamCounts ==
  ASSUME ApiInv, StreamInv, NEW q \in Request, EndStream(q)
  PROVE  StreamInv'
<1> DEFINE r == request[q]
           m == r.ns
           left == IF openStreams[m] > 1 THEN openStreams[m] - 1 ELSE 0
<1>1. r \in Req /\ r.pc = "pump"
  BY RequestShape DEF EndStream
<1>2. PICK a : Goes(q, Answered(q, a))
  BY DEF EndStream
<1>3. openStreams' = [openStreams EXCEPT ![m] = left]
  BY DEF EndStream
<1>4. request'[q].pc = "answered" /\ \A p \in Request : p # q => request'[p] = request[p]
  BY <1>1, <1>2, AnsweredPc, OneMoves DEF Answered
<1>5. ASSUME NEW n \in Namespace
      PROVE  /\ openStreams'[n] \in Nat
             /\ openStreams'[n] = Cardinality(Pumping(n)')
             /\ openStreams'[n] <= MaxStreams
  <2>1. openStreams[n] \in Nat /\ openStreams[n] = Cardinality(Pumping(n))
        /\ openStreams[n] <= MaxStreams
    BY DEF StreamInv
  <2>2. CASE n = m
    <3>1. Pumping(n)' = Pumping(n) \ {q} /\ q \in Pumping(n)
      BY <1>1, <1>4, <2>2 DEF Pumping
    <3>2. Cardinality(Pumping(n)') = Cardinality(Pumping(n)) - 1
          /\ Cardinality(Pumping(n)') \in Nat
      BY <3>1, PumpFinite, FS_RemoveElement, FS_CardinalityType
    <3>3. openStreams'[n] = left
      BY <1>3, <2>2 DEF StreamInv
    <3>4. left = openStreams[n] - 1
      BY <2>1, <2>2, <3>2
    <3> HIDE DEF left
    <3>5. QED
      BY <2>1, <3>2, <3>3, <3>4, Parameters
  <2>3. CASE n # m
    <3>1. Pumping(n)' = Pumping(n)
      BY <1>1, <1>4, <2>3 DEF Pumping
    <3>2. openStreams'[n] = openStreams[n]
      BY <1>3, <2>3 DEF StreamInv
    <3>3. QED
      BY <2>1, <3>1, <3>2
  <2>4. QED
    BY <2>2, <2>3
<1>6. openStreams' \in [Namespace -> Nat]
  BY <1>3, <1>5 DEF StreamInv
<1>7. QED
  BY <1>5, <1>6 DEF StreamInv

-----------------------------------------------------------------------------
(* The rate                                                                 *)

(* The refill of a time is the sum of those of its parts.                    *)
LEMMA Distributes ==
  ASSUME NEW a \in Nat, NEW u \in Nat, NEW f \in Nat, NEW e \in Nat
  PROVE  /\ a * ((u + e) - f) = a * (u - f) + a * e
         /\ a * e \in Nat
OBVIOUS

(* One token more.                                                          *)
LEMMA OneMore ==
  ASSUME NEW c \in Nat
  PROVE  (c + 1) * Unit = c * Unit + Unit /\ c * Unit \in Nat
BY Parameters

(* A bucket with tokens is there.                                           *)
LEMMA NoBucketShape ==
  ASSUME NEW b, b.tokens \in Nat
  PROVE  b # NoBucket
BY DEF NoBucket

(* What a request makes of a bucket, token given or not.                    *)
LEMMA TakeKeepsRate ==
  ASSUME NEW n \in Namespace, RateInv,
         NEW b, b = Refilled(n)
  PROVE  /\ b \in [tokens : Int, updatedAt : Int]
         /\ b.tokens < Unit => RateOK(b, granted[n])
         /\ b.tokens >= Unit => RateOK([b EXCEPT !.tokens = b.tokens - Unit], Grant(n))
<1> DEFINE o == bucket[n]
           g == granted[n]
           lapse == IF now > o.updatedAt THEN now - o.updatedAt ELSE 0
           whole == o.tokens + Refill * lapse
<1>1. RateOK(o, g) /\ now \in Nat /\ o \in [tokens : Int, updatedAt : Int]
      /\ g \in [count : Int, first : Int, high : Int]
  BY DEF RateInv
<1>2. Unit \in Nat /\ Unit > 0 /\ Full \in Nat /\ Unit <= Full /\ Refill \in Nat
  BY Parameters, FullBucket
<1>3. CASE o = NoBucket /\ g = NoGrant
  <2>1. b = [tokens |-> Full, updatedAt |-> now]
    <3> DEFINE fresh == [tokens |-> Full, updatedAt |-> now]
    <3>1. ~(now > fresh.updatedAt)
      BY <1>1
    <3>2. fresh.tokens + Refill * 0 = Full
      BY <1>2
    <3>3. QED
      BY <1>1, <1>2, <1>3, <3>1, <3>2 DEF Refilled, UpdatedAt, Full
  <2>2. Grant(n) = [count |-> 1, first |-> now, high |-> now]
    BY <1>3 DEF Grant, NoGrant
  <2>3. 1 * Unit = Unit /\ Refill * (now - now) = 0
    BY <1>1, <1>2
  <2>4. [b EXCEPT !.tokens = b.tokens - Unit] = [tokens |-> Full - Unit, updatedAt |-> now]
    BY <2>1
  <2>5. RateOK([b EXCEPT !.tokens = b.tokens - Unit], Grant(n))
    BY <1>1, <1>2, <2>2, <2>3, <2>4 DEF RateOK
  <2>6. b \in [tokens : Int, updatedAt : Int] /\ b.tokens >= Unit /\ ~(b.tokens < Unit)
    BY <1>1, <1>2, <2>1
  <2>7. QED
    BY <2>5, <2>6
<1>4. CASE ~(o = NoBucket /\ g = NoGrant)
  <2>1. /\ o.tokens \in Nat /\ o.tokens <= Full /\ o.updatedAt \in Nat
        /\ g.count \in Nat /\ g.first \in Nat /\ g.high \in Nat
        /\ g.first <= g.high /\ g.high <= o.updatedAt
        /\ g.high = o.updatedAt \/ o.tokens < Unit
        /\ g.count * Unit + o.tokens <= Full + Refill * (o.updatedAt - g.first)
        /\ g.count * Unit <= Full + Refill * (g.high - g.first)
    BY <1>1, <1>4 DEF RateOK
  <2>2. o # NoBucket
    BY <2>1, NoBucketShape
  <2>3. lapse \in Nat /\ UpdatedAt(o) = o.updatedAt + lapse
        /\ (lapse = 0 => now <= o.updatedAt) /\ (lapse # 0 => now = o.updatedAt + lapse)
    BY <1>1, <2>1 DEF UpdatedAt
  <2>4. b = [tokens |-> IF whole > Full THEN Full ELSE whole, updatedAt |-> UpdatedAt(o)]
    BY <2>2 DEF Refilled, Full
  <2>5. Grant(n) = [count |-> g.count + 1, first |-> g.first,
                    high |-> IF now > g.high THEN now ELSE g.high]
    BY <2>2 DEF Grant
  <2> HIDE DEF lapse
  <2>6. Refill * ((o.updatedAt + lapse) - g.first)
          = Refill * (o.updatedAt - g.first) + Refill * lapse
        /\ Refill * lapse \in Nat /\ Refill * (o.updatedAt - g.first) \in Int
    BY <1>2, <2>1, <2>3, Distributes
  <2>7. (g.count + 1) * Unit = g.count * Unit + Unit /\ g.count * Unit \in Nat
    BY <2>1, OneMore
  <2>8. whole \in Nat /\ (lapse = 0 => whole = o.tokens)
    BY <1>2, <2>1, <2>3, <2>6
  <2> DEFINE t == b.tokens
             u == b.updatedAt
  <2>9. /\ t \in Nat /\ t <= Full /\ t <= whole /\ u \in Nat /\ u = o.updatedAt + lapse
        /\ (lapse = 0 => t = o.tokens)
        /\ b = [tokens |-> t, updatedAt |-> u]
    BY <1>2, <2>1, <2>3, <2>4, <2>8
  <2>10. g.count * Unit + t <= Full + Refill * (u - g.first)
         /\ Refill * (u - g.first) \in Int
    BY <1>2, <2>1, <2>6, <2>7, <2>9
  <2>11. b \in [tokens : Int, updatedAt : Int]
    BY <2>9
  <2> HIDE DEF whole, t, u
  <2>12. ASSUME t < Unit
         PROVE  RateOK(b, g)
    <3>1. b.tokens = t /\ b.updatedAt = u
      BY <2>9
    <3>2. g.high <= u
      BY <2>1, <2>3, <2>9
    <3>3. QED
      BY <2>1, <2>9, <2>10, <2>12, <3>1, <3>2 DEF RateOK
  <2>13. ASSUME t >= Unit
         PROVE  RateOK([b EXCEPT !.tokens = b.tokens - Unit], Grant(n))
    <3> DEFINE c == [b EXCEPT !.tokens = b.tokens - Unit]
               h == Grant(n)
    <3>1. c.tokens = t - Unit /\ c.updatedAt = u
      BY <2>9
    <3>2. h.count = g.count + 1 /\ h.first = g.first
          /\ h.high = IF now > g.high THEN now ELSE g.high
      BY <2>5
    <3>3. h.high = u
      <4>1. CASE lapse = 0
        <5>1. o.tokens = t /\ u = o.updatedAt /\ now <= o.updatedAt
          BY <2>1, <2>3, <2>9, <4>1
        <5>2. g.high = o.updatedAt
          BY <1>2, <2>1, <2>9, <2>13, <5>1
        <5>3. QED
          BY <1>1, <2>1, <3>2, <5>1, <5>2
      <4>2. CASE lapse # 0
        BY <1>1, <2>1, <2>3, <2>9, <3>2, <4>2
      <4>3. QED
        BY <4>1, <4>2
    <3>4. h.count * Unit + c.tokens <= Full + Refill * (u - g.first)
      BY <1>2, <2>7, <2>9, <2>10, <3>1, <3>2
    <3>5. c.tokens \in Nat /\ c.tokens <= Full
      BY <1>2, <2>9, <2>13, <3>1
    <3>6. h.count * Unit <= Full + Refill * (u - g.first)
      <4>1. h.count * Unit \in Nat
        BY <1>2, <2>7, <3>2
      <4>2. QED
        BY <1>2, <2>10, <3>4, <3>5, <4>1
    <3>7. h.first <= h.high
      BY <2>1, <2>3, <2>9, <3>2, <3>3
    <3> HIDE DEF c, h
    <3>8. RateOK(c, h)
      BY <2>1, <2>9, <3>1, <3>2, <3>3, <3>4, <3>5, <3>6, <3>7 DEF RateOK
    <3>9. QED
      BY <3>8 DEF c, h
  <2>14. QED
    BY <2>11, <2>12, <2>13 DEF t
<1>5. QED
  BY <1>3, <1>4

(* No token is taken.                                                       *)
LEMMA RateKept ==
  ASSUME RateInv, UNCHANGED <<bucket, granted>>, now' \in Nat
  PROVE  RateInv'
BY DEF RateInv

(* A request takes a token, or finds none.                                  *)
LEMMA TakeTokenStep ==
  ASSUME RateInv, NEW q \in Request, NEW kind, TakeToken(q, kind)
  PROVE  RateInv'
<1> DEFINE m == request[q].ns
           b == Refilled(m)
           less == [b EXCEPT !.tokens = b.tokens - Unit]
<1>1. /\ bucket' = [bucket EXCEPT ![m] = IF b.tokens >= Unit THEN less ELSE b]
      /\ granted' = IF b.tokens >= Unit THEN [granted EXCEPT ![m] = Grant(m)] ELSE granted
      /\ now' = now
  BY DEF TakeToken
<1>2. CASE m \notin Namespace
  <2>1. UNCHANGED <<bucket, granted, now>>
    BY <1>1, <1>2 DEF RateInv
  <2>2. QED
    BY <2>1, RateKept DEF RateInv
<1>3. CASE m \in Namespace
  <2>1. /\ b \in [tokens : Int, updatedAt : Int]
        /\ b.tokens < Unit => RateOK(b, granted[m])
        /\ b.tokens >= Unit => RateOK(less, Grant(m))
    BY <1>3, TakeKeepsRate
  <2>2. less \in [tokens : Int, updatedAt : Int]
    BY <2>1, Parameters
  <2>3. Grant(m) \in [count : Int, first : Int, high : Int]
    BY <1>3 DEF Grant, RateInv
  <2> HIDE DEF b, less, m
  <2>4. CASE b.tokens >= Unit
    <3>1. bucket' = [bucket EXCEPT ![m] = less] /\ granted' = [granted EXCEPT ![m] = Grant(m)]
      BY <1>1, <2>4
    <3>2. bucket' \in [Namespace -> [tokens : Int, updatedAt : Int]]
          /\ granted' \in [Namespace -> [count : Int, first : Int, high : Int]]
      BY <2>2, <2>3, <3>1 DEF RateInv
    <3>3. \A n \in Namespace : RateOK(bucket'[n], granted'[n])
      BY <2>1, <2>4, <3>1 DEF RateInv
    <3>4. QED
      BY <1>1, <3>2, <3>3 DEF RateInv
  <2>5. CASE ~(b.tokens >= Unit)
    <3>1. bucket' = [bucket EXCEPT ![m] = b] /\ granted' = granted
      BY <1>1, <2>5
    <3>2. RateOK(b, granted[m])
      BY <2>1, <2>5, Parameters
    <3>3. bucket' \in [Namespace -> [tokens : Int, updatedAt : Int]]
      BY <2>1, <3>1 DEF RateInv
    <3>4. \A n \in Namespace : RateOK(bucket'[n], granted'[n])
      BY <3>1, <3>2 DEF RateInv
    <3>5. QED
      BY <1>1, <3>1, <3>3, <3>4 DEF RateInv
  <2>6. QED
    BY <2>4, <2>5
<1>4. QED
  BY <1>2, <1>3

-----------------------------------------------------------------------------
(* The open runs                                                            *)

(* The open runs can be counted,                                            *)
LEMMA OpenedFinite ==
  ASSUME ApiInv, NEW n
  PROVE  IsFiniteSet(Opened(n)) /\ Cardinality(Opened(n)) \in Nat
<1>1. IsFiniteSet(DOMAIN runs)
  BY FS_Interval DEF ApiInv, ApiType
<1>2. Opened(n) \in SUBSET DOMAIN runs
  BY DEF Opened, OfNamespace
<1>3. QED
  BY <1>1, <1>2, FS_Subset, FS_CardinalityType

(* and so can the starts let in.                                            *)
LEMMA AdmittedFinite ==
  ASSUME NEW n
  PROVE  IsFiniteSet(Admitted(n)) /\ Cardinality(Admitted(n)) \in Nat
<1>1. Admitted(n) \in SUBSET Request
  BY DEF Admitted
<1>2. QED
  BY <1>1, RequestsFinite

(* No run opens, and no start is let in.                                    *)
LEMMA AdmitKept ==
  ASSUME ApiInv, AdmitInv, DOMAIN runs' = DOMAIN runs,
         \A r \in DOMAIN runs : runs'[r].ns = runs[r].ns /\ (runs'[r].open => runs[r].open),
         \A n \in Namespace : Admitted(n)' \subseteq Admitted(n)
  PROVE  AdmitInv'
<1>1. SUFFICES ASSUME NEW n \in Namespace
               PROVE  Cardinality(Opened(n)') + Cardinality(Admitted(n)')
                        <= MaxRuns - 1 + Cardinality(Request)
  BY DEF AdmitInv
<1>2. Opened(n)' \subseteq Opened(n)
  BY DEF Opened, OfNamespace
<1>3. IsFiniteSet(Opened(n)) /\ Cardinality(Opened(n)) \in Nat
  BY OpenedFinite
<1>4. IsFiniteSet(Admitted(n)) /\ Cardinality(Admitted(n)) \in Nat
  BY AdmittedFinite
<1>5. Cardinality(Opened(n)') <= Cardinality(Opened(n)) /\ Cardinality(Opened(n)') \in Nat
  BY <1>2, <1>3, FS_Subset, FS_CardinalityType
<1>6. Cardinality(Admitted(n)') <= Cardinality(Admitted(n)) /\ Cardinality(Admitted(n)') \in Nat
  BY <1>1, <1>4, FS_Subset, FS_CardinalityType
<1>7. Cardinality(Opened(n)) + Cardinality(Admitted(n)) <= MaxRuns - 1 + Cardinality(Request)
  BY DEF AdmitInv
<1>8. QED
  BY <1>3, <1>4, <1>5, <1>6, <1>7, Parameters

(* A start that was let in becomes an open run, and is in flight no more.   *)
LEMMA InsertAdmits ==
  ASSUME ApiInv, AdmitInv, NEW q \in Request, InsertRun(q)
  PROVE  AdmitInv'
<1> DEFINE m == request[q].ns
           key == request[q].input.key
<1>1. request[q] \in Req /\ request[q].pc = "insert" /\ Len(runs) \in Nat
      /\ DOMAIN runs = 1..Len(runs) /\ runs \in Seq(Row)
  BY RequestShape DEF InsertRun
<1>2. CASE Conflict(m, key) /\ Goes(q, [request[q] EXCEPT !.pc = "raced"]) /\ UNCHANGED runs
  <2>1. \A n \in Namespace : Admitted(n)' \subseteq Admitted(n)
    <3> DEFINE to == [request[q] EXCEPT !.pc = "raced"]
    <3>1. to.ns = m /\ Goes(q, to)
      BY <1>1, <1>2 DEF Req
    <3> HIDE DEF to
    <3>2. request[q].pc \in StartLabel
      BY <1>1 DEF StartLabel
    <3>3. QED
      BY <3>1, <3>2, AdmittedKept
  <2>2. QED
    BY <1>2, <2>1, AdmitKept
<1>3. CASE ~Conflict(m, key)
  <2> DEFINE to == [Answered(q, "created") EXCEPT !.run = Len(runs) + 1]
             k == Len(runs) + 1
  <2>1. PICK new : new.ns = m /\ runs' = Append(runs, new)
    BY <1>3 DEF InsertRun
  <2>2. Goes(q, to)
    BY <1>3 DEF InsertRun
  <2>3. to.pc = "answered"
    BY <1>1, AnsweredPc DEF Answered
  <2> HIDE DEF to
  <2>4. request'[q].pc = "answered" /\ \A p \in Request : p # q => request'[p] = request[p]
    BY <2>2, <2>3, OneMoves
  <2>5. DOMAIN runs' = 1..k /\ runs'[k] = new /\ \A i \in 1..Len(runs) : runs'[i] = runs[i]
    BY <1>1, <2>1
  <2>6. ASSUME NEW n \in Namespace
        PROVE  Cardinality(Opened(n)') + Cardinality(Admitted(n)')
                 <= MaxRuns - 1 + Cardinality(Request)
    <3>1. Cardinality(Opened(n)) + Cardinality(Admitted(n)) <= MaxRuns - 1 + Cardinality(Request)
      BY DEF AdmitInv
    <3>2. IsFiniteSet(Opened(n)) /\ Cardinality(Opened(n)) \in Nat
          /\ IsFiniteSet(Admitted(n)) /\ Cardinality(Admitted(n)) \in Nat
      BY OpenedFinite, AdmittedFinite
    <3>3. CASE n = m
      <4>1. Admitted(n)' = Admitted(n) \ {q} /\ q \in Admitted(n)
        BY <1>1, <2>4, <3>3 DEF Admitted, StartLabel
      <4>2. Cardinality(Admitted(n)') = Cardinality(Admitted(n)) - 1
        BY <3>2, <4>1, FS_RemoveElement
      <4>3. Opened(n)' \subseteq Opened(n) \cup {k}
        BY <1>1, <2>5 DEF Opened, OfNamespace
      <4>4. IsFiniteSet(Opened(n) \cup {k})
            /\ Cardinality(Opened(n) \cup {k}) <= Cardinality(Opened(n)) + 1
            /\ Cardinality(Opened(n) \cup {k}) \in Nat
        <5> DEFINE more == Opened(n) \cup {k}
        <5>1. IsFiniteSet(more)
              /\ Cardinality(more) = IF k \in Opened(n) THEN Cardinality(Opened(n))
                                     ELSE Cardinality(Opened(n)) + 1
          BY <3>2, FS_AddElement
        <5> HIDE DEF more
        <5>2. QED
          BY <3>2, <5>1 DEF more
      <4>5. Cardinality(Opened(n)') <= Cardinality(Opened(n) \cup {k})
            /\ Cardinality(Opened(n)') \in Nat
        BY <4>3, <4>4, FS_Subset, FS_CardinalityType
      <4>6. QED
        BY <3>1, <3>2, <4>2, <4>4, <4>5, Parameters
    <3>4. CASE n # m
      <4>1. Admitted(n)' = Admitted(n)
        BY <1>1, <2>4, <3>4 DEF Admitted, StartLabel
      <4>2. Opened(n)' = Opened(n)
        BY <1>1, <2>1, <2>5, <3>4 DEF Opened, OfNamespace
      <4>3. QED
        BY <3>1, <4>1, <4>2
    <3>5. QED
      BY <3>3, <3>4
  <2>7. QED
    BY <2>6 DEF AdmitInv
<1>4. QED
  BY <1>2, <1>3 DEF InsertRun

(* Who is let in saw fewer open runs than the limit, whoever else is in.    *)
LEMMA UsageAdmits ==
  ASSUME ApiInv, AdmitInv, NEW q \in Request, NEW input, CheckUsage(q, input)
  PROVE  AdmitInv'
<1>1. PICK to : /\ Goes(q, to)
                /\ to.pc \in StartLabel => ~RunsFull(to.ns)
  BY UsageMoves
<1>2. UNCHANGED runs
  BY DEF CheckUsage
<1>3. request'[q] = to /\ \A p \in Request : p # q => request'[p] = request[p]
  BY <1>1, OneMoves
<1>4. ASSUME NEW n \in Namespace
      PROVE  Cardinality(Opened(n)') + Cardinality(Admitted(n)')
               <= MaxRuns - 1 + Cardinality(Request)
  <2>1. Opened(n)' = Opened(n)
    BY <1>2 DEF Opened, OfNamespace
  <2>2. Cardinality(Opened(n)) + Cardinality(Admitted(n)) <= MaxRuns - 1 + Cardinality(Request)
    BY DEF AdmitInv
  <2>3. Cardinality(Opened(n)) \in Nat /\ IsFiniteSet(Admitted(n))
        /\ Cardinality(Admitted(n)) \in Nat
    BY OpenedFinite, AdmittedFinite
  <2>4. CASE to.pc \in StartLabel /\ to.ns = n
    <3>1. ~(Cardinality(Opened(n)) >= MaxRuns)
      BY <1>1, <2>4 DEF RunsFull, OpenRuns, Opened
    <3>2. Admitted(n)' \in SUBSET Request
      BY DEF Admitted
    <3>3. Cardinality(Admitted(n)') <= Cardinality(Request) /\ Cardinality(Admitted(n)') \in Nat
      BY <3>2, RequestsFinite
    <3>4. QED
      BY <2>1, <2>3, <3>1, <3>3, Parameters
  <2>5. CASE ~(to.pc \in StartLabel /\ to.ns = n)
    <3>1. Admitted(n)' \subseteq Admitted(n)
      BY <1>3, <2>5 DEF Admitted
    <3>2. Cardinality(Admitted(n)') <= Cardinality(Admitted(n)) /\ Cardinality(Admitted(n)') \in Nat
      BY <2>3, <3>1, FS_Subset, FS_CardinalityType
    <3>3. QED
      BY <2>1, <2>2, <2>3, <3>2, Parameters
  <2>6. QED
    BY <2>4, <2>5
<1>5. QED
  BY <1>4 DEF AdmitInv

-----------------------------------------------------------------------------
(* What becomes of the rows that are open                                   *)

OpenKept ==
  /\ DOMAIN runs' = DOMAIN runs
  /\ \A r \in DOMAIN runs : runs'[r].ns = runs[r].ns /\ (runs'[r].open => runs[r].open)

(* A row that does not open,                                                *)
LEMMA OpenChanged ==
  ASSUME ApiInv, NEW i \in DOMAIN runs, NEW row, runs' = [runs EXCEPT ![i] = row],
         row.ns = runs[i].ns, row.open => runs[i].open
  PROVE  OpenKept
BY DEF OpenKept, ApiInv, ApiType

(* or none,                                                                 *)
LEMMA OpenSame ==
  ASSUME UNCHANGED runs
  PROVE  OpenKept
BY DEF OpenKept

(* is what a write changes,                                                 *)
LEMMA WriteKeepsOpen ==
  ASSUME ApiInv, NEW q \in Request,
         SignalRun(q) \/ CancelRun(q) \/ TerminateRun(q) \/ RequeueLetter(q)
  PROVE  OpenKept
<1> DEFINE r == request[q]
           old == runs[r.run]
<1>1. DOMAIN runs = 1..Len(runs) /\ \A i \in DOMAIN runs : runs[i] \in Row
  BY RequestShape
<1>2. CASE SignalRun(q) \/ CancelRun(q) \/ TerminateRun(q)
  <2>1. PICK row \in {WithTask(old), AskedRow(old), ClosedRow(old)} :
          runs' = IF Owned(r.ns, r.run) /\ old.open THEN [runs EXCEPT ![r.run] = row] ELSE runs
    BY <1>2 DEF SignalRun, CancelRun, TerminateRun, Target, WriteRun
  <2>2. CASE Owned(r.ns, r.run) /\ old.open
    <3>1. r.run \in DOMAIN runs /\ old \in Row /\ runs' = [runs EXCEPT ![r.run] = row]
      BY <1>1, <2>1, <2>2 DEF Owned
    <3>2. row.ns = old.ns
      BY <3>1, RowShapes
    <3>3. QED
      BY <2>2, <3>1, <3>2, OpenChanged
  <2>3. CASE ~(Owned(r.ns, r.run) /\ old.open)
    BY <2>1, <2>3, OpenSame
  <2>4. QED
    BY <2>2, <2>3
<1>3. CASE RequeueLetter(q)
  <2> DEFINE row == [WithTask(old) EXCEPT !.letter = "requeued"]
  <2>1. CASE HasLetter(r.run)
    <3>1. r.run \in DOMAIN runs /\ old \in Row
      BY <1>1, <2>1 DEF HasLetter
    <3>2. runs' = [runs EXCEPT ![r.run] = row]
      BY <1>3, <2>1, <3>1 DEF RequeueLetter
    <3>3. row.ns = old.ns /\ row.open = old.open
      BY <3>1 DEF WithTask, Row
    <3> HIDE DEF row
    <3>4. QED
      BY <3>1, <3>2, <3>3, OpenChanged
  <2>2. CASE ~HasLetter(r.run)
    BY <1>3, <2>2, OpenSame DEF RequeueLetter
  <2>3. QED
    BY <2>1, <2>2
<1>4. QED
  BY <1>2, <1>3

(* and a worker.                                                            *)
LEMMA WorkersKeepOpen ==
  ASSUME ApiInv, NEW i \in DOMAIN runs, LeaseTask(i) \/ BuryTask(i) \/ CloseRun(i)
  PROVE  OpenKept
<1>1. runs[i] \in Row
  BY DEF ApiInv, ApiType
<1>2. PICK row : runs' = [runs EXCEPT ![i] = row] /\ row.ns = runs[i].ns
                 /\ (row.open => runs[i].open)
  <2>1. CASE LeaseTask(i)
    <3> DEFINE row == [runs[i] EXCEPT !.pending = @ - 1, !.leased = @ + 1]
    <3>1. runs' = [runs EXCEPT ![i] = row]
      BY <1>1, <2>1 DEF LeaseTask, Row
    <3>2. row.ns = runs[i].ns /\ row.open = runs[i].open
      BY <1>1 DEF Row
    <3>3. QED
      BY <3>1, <3>2
  <2>2. CASE BuryTask(i)
    <3> DEFINE row == [runs[i] EXCEPT !.leased = @ - 1, !.letter = "open"]
    <3>1. runs' = [runs EXCEPT ![i] = row]
      BY <1>1, <2>2 DEF BuryTask, Row
    <3>2. row.ns = runs[i].ns /\ row.open = runs[i].open
      BY <1>1 DEF Row
    <3>3. QED
      BY <3>1, <3>2
  <2>3. CASE CloseRun(i)
    <3> DEFINE row == [ClosedRow(runs[i]) EXCEPT !.leased = @ - 1]
    <3>1. runs' = [runs EXCEPT ![i] = row]
      BY <2>3 DEF CloseRun
    <3>2. row.ns = runs[i].ns
      BY <1>1 DEF Row, ClosedRow
    <3>3. runs[i].open
      BY <2>3 DEF CloseRun
    <3>4. QED
      BY <3>1, <3>2, <3>3
  <2>4. QED
    BY <2>1, <2>2, <2>3
<1>3. QED
  BY <1>2, OpenChanged

-----------------------------------------------------------------------------
(* The steps                                                                *)

(* The steps of a request that neither count a stream nor let a start in.   *)
LEMMA PlainCounts ==
  ASSUME CountInv, NEW q \in Request,
         \/ \E token \in ApiKey \cup {None}, address \in Address : Arrive(q, token, address)
         \/ \E address \in Address, accepted \in BOOLEAN : Scrape(q, address, accepted)
         \/ Authenticate(q) \/ CheckDepth(q) \/ RefuseBody(q)
         \/ \E kind \in Kind : TakeToken(q, kind)
         \/ FindByKey(q) \/ InsertRun(q) \/ SignalRun(q) \/ CancelRun(q) \/ TerminateRun(q)
         \/ FindLetter(q) \/ RequeueLetter(q)
  PROVE  StreamInv' /\ RateInv' /\ AdmitInv'
<1>1. ApiInv /\ StreamInv /\ RateInv /\ AdmitInv
  BY DEF CountInv
<1>2. PICK to : /\ Goes(q, to) /\ request[q].pc # "pump" /\ to.pc # "pump"
                /\ to.pc \in StartLabel =>
                     request[q].pc \in StartLabel /\ to.ns = request[q].ns
  BY <1>1, PlainMoves
<1>3. openStreams' = openStreams
  BY DEF Arrive, Scrape, Comes, Authenticate, CheckDepth, RefuseBody, TakeToken, FindByKey,
         InsertRun, SignalRun, CancelRun, TerminateRun, WriteRun, FindLetter, RequeueLetter
<1>4. StreamInv'
  BY <1>1, <1>2, <1>3, PumpingKept, StreamsKept
<1>5. (\E kind \in Kind : TakeToken(q, kind)) \/ UNCHANGED <<bucket, granted, now>>
  BY DEF Arrive, Scrape, Comes, Authenticate, CheckDepth, RefuseBody, FindByKey,
         InsertRun, SignalRun, CancelRun, TerminateRun, WriteRun, FindLetter, RequeueLetter
<1>6. RateInv'
  <2>1. CASE \E kind \in Kind : TakeToken(q, kind)
    BY <1>1, <2>1, TakeTokenStep
  <2>2. CASE UNCHANGED <<bucket, granted, now>>
    BY <1>1, <2>2, RateKept DEF RateInv
  <2>3. QED
    BY <1>5, <2>1, <2>2
<1>7. AdmitInv'
  <2>1. CASE InsertRun(q)
    BY <1>1, <2>1, InsertAdmits
  <2>2. CASE ~InsertRun(q)
    <3>1. OpenKept
      <4>1. CASE SignalRun(q) \/ CancelRun(q) \/ TerminateRun(q) \/ RequeueLetter(q)
        BY <1>1, <4>1, WriteKeepsOpen
      <4>2. CASE ~(SignalRun(q) \/ CancelRun(q) \/ TerminateRun(q) \/ RequeueLetter(q))
        <5>1. UNCHANGED runs
          BY <2>2, <4>2 DEF Arrive, Scrape, Comes, Authenticate, CheckDepth, RefuseBody,
                            TakeToken, FindByKey, FindLetter
        <5>2. QED
          BY <5>1, OpenSame
      <4>3. QED
        BY <4>1, <4>2
    <3>2. \A n \in Namespace : Admitted(n)' \subseteq Admitted(n)
      BY <1>1, <1>2, AdmittedKept
    <3>3. QED
      BY <1>1, <3>1, <3>2, AdmitKept DEF OpenKept
  <2>3. QED
    BY <2>1, <2>2
<1>8. QED
  BY <1>4, <1>6, <1>7

(* Those that do.                                                           *)
LEMMA GuardedCounts ==
  ASSUME CountInv, NEW q \in Request,
         (\E input \in StartInput : CheckUsage(q, input)) \/ OpenStream(q) \/ EndStream(q)
  PROVE  StreamInv' /\ RateInv' /\ AdmitInv'
<1>1. ApiInv /\ StreamInv /\ RateInv /\ AdmitInv
  BY DEF CountInv
<1>2. UNCHANGED <<runs, bucket, granted, now>>
  BY DEF CheckUsage, OpenStream, EndStream
<1>3. RateInv'
  BY <1>1, <1>2, RateKept DEF RateInv
<1>4. ASSUME NEW input, CheckUsage(q, input)
      PROVE  StreamInv' /\ AdmitInv'
  <2>1. PICK to : Goes(q, to) /\ request[q].pc # "pump" /\ to.pc # "pump"
    BY <1>1, <1>4, UsageMoves
  <2>2. openStreams' = openStreams
    BY <1>4 DEF CheckUsage
  <2>3. StreamInv'
    BY <1>1, <2>1, <2>2, PumpingKept, StreamsKept
  <2>4. QED
    BY <1>1, <1>4, <2>3, UsageAdmits
<1>5. CASE OpenStream(q) \/ EndStream(q)
  <2>1. StreamInv'
    BY <1>1, <1>5, OpenStreamCounts, EndStreamCounts
  <2>2. PICK to : Goes(q, to) /\ to.pc \in {"answered", "pump"}
    <3> DEFINE pumps == [request[q] EXCEPT !.pc = "pump", !.run = 1]
    <3>1. request[q] \in Req
      BY <1>1, RequestShape
    <3>2. pumps.pc = "pump" /\ \A a : Answered(q, a).pc = "answered"
      BY <3>1, AnsweredPc DEF Req, Answered
    <3>3. Goes(q, pumps) \/ \E a : Goes(q, Answered(q, a))
      BY <1>5 DEF OpenStream, EndStream
    <3> HIDE DEF pumps
    <3>4. QED
      BY <3>2, <3>3
  <2>3. \A n \in Namespace : Admitted(n)' \subseteq Admitted(n)
    BY <1>1, <2>2, AdmittedKept DEF StartLabel
  <2>4. OpenKept
    BY <1>2, OpenSame
  <2>5. AdmitInv'
    BY <1>1, <2>3, <2>4, AdmitKept DEF OpenKept
  <2>6. QED
    BY <1>3, <2>1, <2>5
<1>6. QED
  BY <1>3, <1>4, <1>5

(* What happens around the requests.                                        *)
LEMMA AroundCounts ==
  ASSUME CountInv,
         \/ \E k \in ApiKey : RevokeKey(k) \/ \E n \in Namespace : AdoptKey(k, n)
         \/ \E by \in ClockStep : ClockMoves(by)
         \/ \E i \in DOMAIN failures : WindowPasses(i)
         \/ \E r \in DOMAIN runs : LeaseTask(r) \/ BuryTask(r) \/ CloseRun(r)
         \/ UNCHANGED vars
  PROVE  StreamInv' /\ RateInv' /\ AdmitInv'
<1>1. ApiInv /\ StreamInv /\ RateInv /\ AdmitInv
  BY DEF CountInv
<1>2. UNCHANGED <<request, openStreams, bucket, granted>>
  BY DEF RevokeKey, AdoptKey, ClockMoves, WindowPasses, LeaseTask, BuryTask, CloseRun, vars
<1>3. \A n : Pumping(n)' = Pumping(n) /\ Admitted(n)' = Admitted(n)
  BY <1>2 DEF Pumping, Admitted
<1>4. now' \in Nat
  <2>1. CASE \E by \in ClockStep : ClockMoves(by)
    BY <1>1, <2>1, ApiAssumption DEF ClockMoves, RateInv
  <2>2. CASE ~\E by \in ClockStep : ClockMoves(by)
    <3>1. now' = now
      BY <2>2 DEF RevokeKey, AdoptKey, WindowPasses, LeaseTask, BuryTask, CloseRun, vars
    <3>2. QED
      BY <1>1, <3>1 DEF RateInv
  <2>3. QED
    BY <2>1, <2>2
<1>5. OpenKept
  <2>1. CASE \E r \in DOMAIN runs : LeaseTask(r) \/ BuryTask(r) \/ CloseRun(r)
    BY <1>1, <2>1, WorkersKeepOpen
  <2>2. CASE ~\E r \in DOMAIN runs : LeaseTask(r) \/ BuryTask(r) \/ CloseRun(r)
    <3>1. UNCHANGED runs
      BY <2>2 DEF RevokeKey, AdoptKey, ClockMoves, WindowPasses, vars
    <3>2. QED
      BY <3>1, OpenSame
  <2>3. QED
    BY <2>1, <2>2
<1>6. StreamInv'
  BY <1>1, <1>2, <1>3, StreamsKept
<1>7. RateInv'
  BY <1>1, <1>2, <1>4, RateKept
<1>8. AdmitInv'
  BY <1>1, <1>3, <1>5, AdmitKept DEF OpenKept
<1>9. QED
  BY <1>6, <1>7, <1>8

(* A restart forgets the streams, the buckets and whom it had let in.       *)
LEMMA RestartCounts ==
  ASSUME CountInv, Restart
  PROVE  StreamInv' /\ RateInv' /\ AdmitInv'
<1>1. ApiInv /\ StreamInv /\ RateInv /\ AdmitInv
  BY DEF CountInv
<1>2. /\ request' = [q \in Request |-> Idle] /\ openStreams' = [n \in Namespace |-> 0]
      /\ bucket' = [n \in Namespace |-> NoBucket] /\ granted' = [n \in Namespace |-> NoGrant]
      /\ UNCHANGED <<runs, now>>
  BY DEF Restart
<1>3. \A n : Pumping(n)' = {} /\ Admitted(n)' = {}
  BY <1>2 DEF Pumping, Admitted, Idle, StartLabel
<1>4. StreamInv'
  BY <1>2, <1>3, FS_EmptySet, Parameters DEF StreamInv
<1>5. RateInv'
  BY <1>1, <1>2 DEF RateInv, RateOK, NoBucket, NoGrant
<1>6. AdmitInv'
  BY <1>1, <1>2, <1>3, OpenSame, AdmitKept DEF OpenKept
<1>7. QED
  BY <1>4, <1>5, <1>6

(* In the first state nothing is counted.                                   *)
LEMMA CountInit ==
  ASSUME Init
  PROVE  CountInv
<1>1. ApiInv
  BY ApiInit
<1>2. \A n : Pumping(n) = {} /\ Admitted(n) = {} /\ Opened(n) = {}
  BY DEF Init, Pumping, Admitted, Opened, OfNamespace, Idle, StartLabel
<1>3. StreamInv
  <2>1. openStreams = [n \in Namespace |-> 0] /\ Cardinality({}) = 0
    BY FS_EmptySet DEF Init
  <2>2. QED
    BY <1>2, <2>1, Parameters DEF StreamInv
<1>4. RateInv
  BY DEF Init, RateInv, RateOK, NoBucket, NoGrant
<1>5. AdmitInv
  BY <1>2, FS_EmptySet, Parameters DEF AdmitInv
<1>6. QED
  BY <1>1, <1>3, <1>4, <1>5 DEF CountInv

(* Every step keeps the counts.                                             *)
LEMMA CountStep ==
  ASSUME CountInv, [Next]_vars
  PROVE  CountInv'
<1>1. ApiInv'
  BY ApiStep DEF CountInv
<1> DEFINE Kept == StreamInv' /\ RateInv' /\ AdmitInv'
<1>2. ASSUME NEW q \in Request,
             \/ \E token \in ApiKey \cup {None}, address \in Address : Arrive(q, token, address)
             \/ \E address \in Address, accepted \in BOOLEAN : Scrape(q, address, accepted)
             \/ Handle(q)
      PROVE  Kept
  BY <1>2, PlainCounts, GuardedCounts DEF Handle
<1>3. ASSUME Restart
      PROVE  Kept
  BY <1>3, RestartCounts
<1>4. Kept
  <2> HIDE DEF Kept
  <2>1. CASE \/ \E k \in ApiKey : RevokeKey(k) \/ \E n \in Namespace : AdoptKey(k, n)
             \/ \E by \in ClockStep : ClockMoves(by)
             \/ \E i \in DOMAIN failures : WindowPasses(i)
             \/ \E r \in DOMAIN runs : LeaseTask(r) \/ BuryTask(r) \/ CloseRun(r)
             \/ UNCHANGED vars
    BY <2>1, AroundCounts DEF Kept
  <2>2. QED
    BY <1>2, <1>3, <2>1 DEF Next
<1>5. QED
  BY <1>1, <1>4 DEF CountInv

(* The counts are kept in every state.                                      *)
THEOREM CountInvariant == Spec => []CountInv
<1>1. Init => CountInv
  BY CountInit
<1>2. CountInv /\ [Next]_vars => CountInv'
  BY CountStep
<1>3. QED
  BY <1>1, <1>2, PTL DEF Spec

(* A process counts exactly the streams that are open, never more than the  *)
(* limit, and gives no namespace more tokens than a full bucket and the time *)
(* allow, however its clock jumps, with any number of requests and restarts *)
(* (streamRun of server.ts, take of token-bucket.ts).                       *)
THEOREM CountsAreExact == Spec => []CountsExact
<1>1. CountInv => CountsExact
  <2>1. SUFFICES ASSUME CountInv, NEW n \in Namespace
                 PROVE  /\ openStreams[n] = Cardinality(Pumping(n))
                        /\ openStreams[n] <= MaxStreams
                        /\ granted[n].count * Unit
                             <= Burst * Unit + Refill * (granted[n].high - granted[n].first)
    BY DEF CountsExact, Pumping
  <2>2. openStreams[n] = Cardinality(Pumping(n)) /\ openStreams[n] <= MaxStreams
    BY <2>1 DEF CountInv, StreamInv
  <2>3. RateOK(bucket[n], granted[n])
    BY <2>1 DEF CountInv, RateInv
  <2>4. CASE granted[n] = NoGrant
    <3>1. granted[n].count * Unit = 0 /\ Refill * (granted[n].high - granted[n].first) = 0
      BY <2>4, Parameters DEF NoGrant
    <3>2. QED
      BY <2>2, <3>1, FullBucket DEF Full
  <2>5. CASE granted[n] # NoGrant
    BY <2>2, <2>3, <2>5 DEF RateOK, Full
  <2>6. QED
    BY <2>4, <2>5
<1>2. QED
  BY <1>1, CountInvariant, PTL

(* The open runs of a namespace exceed their limit at most by the other     *)
(* requests in flight (check of quota-guard.ts and startRun of run-service.ts). *)
THEOREM RunsAreHeld == Spec => []RunsHeld
<1>1. CountInv => RunsHeld
  <2>1. SUFFICES ASSUME CountInv, NEW n \in Namespace
                 PROVE  Cardinality(Opened(n)) <= MaxRuns + (Cardinality(Request) - 1)
    BY DEF RunsHeld, OpenRuns, Opened, InFlight
  <2>2. Cardinality(Opened(n)) + Cardinality(Admitted(n)) <= MaxRuns - 1 + Cardinality(Request)
    BY <2>1 DEF CountInv, AdmitInv
  <2>3. Cardinality(Opened(n)) \in Nat /\ Cardinality(Admitted(n)) \in Nat
    BY <2>1, OpenedFinite, AdmittedFinite DEF CountInv
  <2>4. QED
    BY <2>2, <2>3, Parameters
<1>2. QED
  BY <1>1, CountInvariant, PTL
=============================================================================
