--------------------------------- MODULE Cron ---------------------------------
(***************************************************************************)
(* The cron expressions of core/src/schedules/cron.ts on a small calendar: *)
(* what an expression means, and the search for the next instant it        *)
(* matches.  Time is counted in units of which Minute make a minute; a     *)
(* zone is the set of instants at which its clocks go one hour forward.    *)
(***************************************************************************)
EXTENDS Integers, Sequences, FiniteSets

CONSTANTS
  Minute,          \* units in a minute
  MinutesPerHour, HoursPerDay, WeekLength, MonthLength, MonthsPerYear,
  Jumps,           \* the minutes at which the zone's clocks go forward an hour
  LastMinute       \* bound of the search (MAX_SEARCH_STEPS)

ASSUME CalendarAssumption ==
  /\ {Minute, MinutesPerHour, HoursPerDay, WeekLength, MonthLength, MonthsPerYear,
      LastMinute} \subseteq Nat \ {0}
  /\ Jumps \subseteq Nat

(* What nextCronTime throws InvalidScheduleError for: no match in sight.    *)
Never == Minute * (LastMinute + 1)

-----------------------------------------------------------------------------
(* Expressions.  A field is a sequence of parts; a part is "*", a range or  *)
(* a single value, each with an optional step (0: none).                    *)

FieldSpec(name) ==
  CASE name = "minute" -> [min |-> 0, max |-> MinutesPerHour - 1]
    [] name = "hour" -> [min |-> 0, max |-> HoursPerDay - 1]
    [] name = "day" -> [min |-> 1, max |-> MonthLength]
    [] name = "month" -> [min |-> 1, max |-> MonthsPerYear]
    [] name = "weekday" -> [min |-> 0, max |-> WeekLength]

PartFrom(part, spec) == IF part.kind = "any" THEN spec.min ELSE part.from

PartTo(part, spec) ==
  CASE part.kind = "any" -> spec.max
    [] part.kind = "range" -> part.to
    [] part.kind = "value" -> IF part.step = 0 THEN part.from ELSE spec.max

(* parseValue and the checks of parseField *)
PartValid(part, spec) ==
  /\ {PartFrom(part, spec), PartTo(part, spec)} \subseteq spec.min..spec.max
  /\ PartFrom(part, spec) <= PartTo(part, spec)

ParseField(field, spec) ==
  UNION {LET from == PartFrom(field[i], spec)
             step == IF field[i].step = 0 THEN 1 ELSE field[i].step
         IN {v \in from..PartTo(field[i], spec) : (v - from) % step = 0}
         : i \in DOMAIN field}

FieldNames == {"minute", "hour", "day", "month", "weekday"}

ExpressionValid(e) ==
  \A name \in FieldNames : \A i \in DOMAIN e[name] : PartValid(e[name][i], FieldSpec(name))

(* parseCron: the weekday after the last is the first again, and a field    *)
(* that begins with a star restricts nothing, whatever its step.            *)
ParseCron(e) ==
  [minutes |-> ParseField(e.minute, FieldSpec("minute")),
   hours |-> ParseField(e.hour, FieldSpec("hour")),
   days |-> ParseField(e.day, FieldSpec("day")),
   months |-> ParseField(e.month, FieldSpec("month")),
   weekdays |-> {d % WeekLength : d \in ParseField(e.weekday, FieldSpec("weekday"))},
   restrictsDay |-> e.day[1].kind # "any",
   restrictsWeekday |-> e.weekday[1].kind # "any"]

-----------------------------------------------------------------------------
(* Matching *)

(* readLocalParts: the wall clock of the zone at a minute. *)
LocalParts(minute) ==
  LET local == minute + MinutesPerHour * Cardinality({j \in Jumps : j <= minute})
      day == local \div (MinutesPerHour * HoursPerDay)
  IN [minute |-> local % MinutesPerHour,
      hour |-> (local \div MinutesPerHour) % HoursPerDay,
      day |-> 1 + (day % MonthLength),
      month |-> 1 + ((day \div MonthLength) % MonthsPerYear),
      weekday |-> day % WeekLength]

(* Two restricted day fields are alternatives. *)
DayMatches(s, p) ==
  IF s.restrictsDay /\ s.restrictsWeekday
    THEN p.day \in s.days \/ p.weekday \in s.weekdays
    ELSE p.day \in s.days /\ p.weekday \in s.weekdays

Matches(s, minute) ==
  LET p == LocalParts(minute) IN
  /\ p.month \in s.months
  /\ DayMatches(s, p)
  /\ p.hour \in s.hours
  /\ p.minute \in s.minutes

SkipDayOneMore(p) == MinutesPerHour * HoursPerDay - MinutesPerHour * p.hour

(* To what looks like the beginning of the next day. *)
SkipDay(p) == MinutesPerHour * HoursPerDay - (MinutesPerHour * p.hour + p.minute)

SkipHour(p) == MinutesPerHour - p.minute

(* nextCronTime: from the minute after the given instant on, over days and  *)
(* hours that do not match.                                                 *)
NextCronTime(s, after) ==
  LET search[minute \in Nat] ==
        LET p == LocalParts(minute) IN
        IF minute > LastMinute THEN Never
        ELSE IF p.month \notin s.months \/ ~DayMatches(s, p) THEN search[minute + SkipDay(p)]
        ELSE IF p.hour \notin s.hours THEN search[minute + SkipHour(p)]
        ELSE IF p.minute \notin s.minutes THEN search[minute + 1]
        ELSE Minute * minute
  IN search[(after \div Minute) + 1]

(* cronTimesBetween: every match in [from, to). *)
CronTimesBetween(s, from, to) ==
  LET times[cursor \in Int] ==
        LET next == NextCronTime(s, cursor) IN
        IF next >= to \/ next = Never THEN {} ELSE {next} \cup times[next]
  IN times[from - 1]

-----------------------------------------------------------------------------
(* The reference: the instants the expression means.                        *)
MatchingInstants(s) == {Minute * m : m \in {n \in 0..LastMinute : Matches(s, n)}}

FirstMatchAfter(s, after) ==
  LET later == {i \in MatchingInstants(s) : i > after} IN
  IF later = {} THEN Never ELSE CHOOSE i \in later : \A j \in later : i <= j
=============================================================================
