------------------------------ MODULE RunPromise ------------------------------
(***************************************************************************)
(* What a workflow run promises whoever started it, without tasks,         *)
(* handlers, retries or an event log: a step gets one verdict, only while  *)
(* the run is open; the run closes once, and its outcome is one its steps  *)
(* and its clients account for.                                            *)
(***************************************************************************)
EXTENDS Naturals

CONSTANT Steps

VARIABLES
  outcome,   \* "open", or how the run ended
  verdict,   \* step -> "none", "completed" or "failed"
  asked      \* whether its cancellation was requested

vars == <<outcome, verdict, asked>>

Step == 1..Steps

Init ==
  /\ outcome = "open"
  /\ verdict = [s \in Step |-> "none"]
  /\ asked = FALSE

Decide(s, v) ==
  /\ outcome = "open"
  /\ verdict[s] = "none"
  /\ verdict' = [verdict EXCEPT ![s] = v]
  /\ UNCHANGED <<outcome, asked>>

Ask ==
  /\ outcome = "open"
  /\ asked' = TRUE
  /\ UNCHANGED <<outcome, verdict>>

AccountedFor(o) ==
  CASE o = "run_completed" -> (\A s \in Step : verdict[s] = "completed") /\ ~asked
    [] o = "run_failed" -> (\E s \in Step : verdict[s] = "failed") /\ ~asked
    [] o = "run_cancelled" -> asked
    [] o = "run_terminated" -> TRUE

Close(o) ==
  /\ outcome = "open"
  /\ AccountedFor(o)
  /\ outcome' = o
  /\ UNCHANGED <<verdict, asked>>

Next ==
  \/ \E s \in Step, v \in {"completed", "failed"} : Decide(s, v)
  \/ Ask
  \/ \E o \in {"run_completed", "run_failed", "run_cancelled", "run_terminated"} : Close(o)

Spec == Init /\ [][Next]_vars
=============================================================================
