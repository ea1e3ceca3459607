------------------------------ MODULE MCSchedules ------------------------------
(* Expressions for Schedules on a calendar of two-minute hours, two-hour    *)
(* days, two-day weeks and three-day months.                                *)
EXTENDS Schedules

Any == <<[kind |-> "any", from |-> 0, to |-> 0, step |-> 0]>>
Every(n) == <<[kind |-> "any", from |-> 0, to |-> 0, step |-> n]>>
Only(v) == <<[kind |-> "value", from |-> v, to |-> v, step |-> 0]>>
From(v, n) == <<[kind |-> "value", from |-> v, to |-> v, step |-> n]>>
Span(a, b) == <<[kind |-> "range", from |-> a, to |-> b, step |-> 0]>>

(* The first minute of every hour. *)
Hourly == [minute |-> Only(0), hour |-> Any, day |-> Any, month |-> Any, weekday |-> Any]

EveryMinute == [Hourly EXCEPT !.minute = Any]

(* Every way to restrict a field, in all combinations. *)
SomeExpressions ==
  {[minute |-> m, hour |-> h, day |-> d, month |-> n, weekday |-> w] :
     m \in {Any, Only(1)}, h \in {Any, Only(0), From(1, 1)}, d \in {Any, Every(2), Only(3)},
     n \in {Any, Only(2)}, w \in {Any, Only(0), Span(1, 2)}}

(* A backfill of the last two instants, which may be yet to come. *)
Ranges == {<<1, 3>>}

=============================================================================
