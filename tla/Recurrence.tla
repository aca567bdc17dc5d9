----------------------------- MODULE Recurrence -----------------------------
(***************************************************************************)
(* rrule_to_graph_recurrence in transform/recurrence.py: the recurrence    *)
(* pattern Graph is given for the RRULE of a Google event.  A rule is a    *)
(* record of its parts, already split and read as numbers, and dates are   *)
(* days of a calendar whose years are all alike.                           *)
(*                                                                         *)
(* Next to the conversion stands what it is measured by: the days on which *)
(* a rule recurs according to RFC 5545, and those of a Graph pattern.      *)
(***************************************************************************)
EXTENDS Integers, Sequences, FiniteSets, SequencesExt, FiniteSetsExt

CONSTANTS
  MonthLengths,   \* days in each month of a year
  Years           \* years of the calendar

YearLength == FoldSeq(LAMBDA n, sum : n + sum, 0, MonthLengths)
Months == DOMAIN MonthLengths
Dates == 0..(Years * YearLength - 1)
Weekdays == 0..6                        \* from Monday; the first date is one

\* The day of the year a month begins with.
MonthStart == [m \in Months |->
  FoldSeq(LAMBDA n, sum : n + sum, 0, SubSeq(MonthLengths, 1, m - 1))]

Year == [d \in Dates |-> d \div YearLength]
Month == [d \in Dates |->
  Max({m \in Months : MonthStart[m] <= (d % YearLength)})]
Day == [d \in Dates |-> (d % YearLength) - MonthStart[Month[d]] + 1]
Weekday == [d \in Dates |-> d % 7]
MonthCount == [d \in Dates |-> Year[d] * Len(MonthLengths) + Month[d]]
WeekCount(d, first) == (d + 7 - first) \div 7

\* A recurrence rule.  Lists are sequences, empty where the part is missing;
\* BYDAY is a list of weekdays with an ordinal that may be 0, for none.  The
\* rule ends after count occurrences, or on a day, if these are not NoEnd; UNTIL
\* is in UTC, where the day of the last occurrence may be another.
NoEnd == -1
NoPattern == "none"

-----------------------------------------------------------------------------
(* The conversion *)

\* _day_of_month, 0 for None: the first positive day of the list.
DayOfMonth(rule) ==
  LET positive == SelectSeq(rule.bymonthday, LAMBDA day : day > 0)
  IN IF rule.bymonthday = <<>> THEN Day[rule.start]
     ELSE IF positive = <<>> THEN 0 ELSE Head(positive)

\* _week_index
Index(n) == IF n \in {1, 2, 3, 4, -1} THEN n ELSE 1
\* Variant, a plausible mistake: BYSETPOS is not looked at.
WeekIndexOfOrdinal(rule) ==
  IF Head(rule.byday).ord # 0 THEN Index(Head(rule.byday).ord) ELSE 1
WeekIndex(rule) ==
  CASE Head(rule.byday).ord # 0 -> Index(Head(rule.byday).ord)
    [] Head(rule.byday).ord = 0 /\ rule.bysetpos # 0 -> Index(rule.bysetpos)
    [] OTHER -> 1

DaysOfWeek(rule) == {day.weekday : day \in ToSet(rule.byday)}
Relative(rule) == rule.byday # <<>> /\ rule.bymonthday = <<>>
MonthOfYear(rule) ==
  IF rule.bymonth = <<>> THEN Month[rule.start] ELSE Head(rule.bymonth)

Pattern(rule) ==
  CASE rule.freq = "DAILY" ->
         [type |-> "daily", interval |-> rule.interval]
    [] rule.freq = "WEEKLY" ->
         [type |-> "weekly", interval |-> rule.interval,
          days |-> IF rule.byday = <<>> THEN {Weekday[rule.start]} ELSE DaysOfWeek(rule),
          first |-> rule.wkst]
    [] rule.freq = "MONTHLY" /\ Relative(rule) ->
         [type |-> "relativeMonthly", interval |-> rule.interval,
          days |-> DaysOfWeek(rule), index |-> WeekIndex(rule)]
    [] rule.freq = "MONTHLY" /\ ~Relative(rule) ->
         [type |-> "absoluteMonthly", interval |-> rule.interval,
          day |-> DayOfMonth(rule)]
    [] rule.freq = "YEARLY" /\ Relative(rule) ->
         [type |-> "relativeYearly", interval |-> rule.interval,
          days |-> DaysOfWeek(rule), index |-> WeekIndex(rule),
          month |-> MonthOfYear(rule)]
    [] rule.freq = "YEARLY" /\ ~Relative(rule) ->
         [type |-> "absoluteYearly", interval |-> rule.interval,
          day |-> DayOfMonth(rule), month |-> MonthOfYear(rule)]

\* No pattern: another frequency, or a day only counted from the end of a month.
Inexpressible(rule) ==
  \/ rule.freq \notin {"DAILY", "WEEKLY", "MONTHLY", "YEARLY"}
  \/ rule.freq \in {"MONTHLY", "YEARLY"} /\ ~Relative(rule) /\ DayOfMonth(rule) = 0

\* The range: the date of UNTIL is taken as it is written.
Recurrence(rule) ==
  IF Inexpressible(rule) THEN [type |-> NoPattern]
  ELSE [type |-> "recurring", pattern |-> Pattern(rule), start |-> rule.start,
        count |-> rule.count,
        end |-> IF rule.count # NoEnd THEN NoEnd ELSE rule.untilUTC]

-----------------------------------------------------------------------------
(* The days on which things recur *)

\* The n-th of a set of days, from the end if n is negative.
Nth(days, n) ==
  {d \in days : IF n > 0 THEN Cardinality({e \in days : e < d}) = n - 1
                ELSE Cardinality({e \in days : e > d}) = -n - 1}

\* The occurrences a series keeps of the days its pattern falls on.
Ended(days, count, last) ==
  {d \in days : /\ count # NoEnd => Cardinality({e \in days : e < d}) < count
                /\ last # NoEnd => d <= last}

\* How Graph reads a pattern.
InMonth(d) == {e \in Dates : MonthCount[e] = MonthCount[d]}
GraphFallsOn(p, start, d) ==
  CASE p.type = "daily" -> (d - start) % p.interval = 0
    [] p.type = "weekly" ->
         /\ Weekday[d] \in p.days
         /\ (WeekCount(d, p.first) - WeekCount(start, p.first)) % p.interval = 0
    [] p.type \in {"absoluteMonthly", "relativeMonthly"} ->
         /\ (MonthCount[d] - MonthCount[start]) % p.interval = 0
         /\ IF p.type = "absoluteMonthly" THEN Day[d] = p.day
            ELSE d \in Nth({e \in InMonth(d) : Weekday[e] \in p.days}, p.index)
    [] p.type \in {"absoluteYearly", "relativeYearly"} ->
         /\ (Year[d] - Year[start]) % p.interval = 0
         /\ Month[d] = p.month
         /\ IF p.type = "absoluteYearly" THEN Day[d] = p.day
            ELSE d \in Nth({e \in InMonth(d) : Weekday[e] \in p.days}, p.index)

GraphOccurrences(rec) ==
  Ended({d \in Dates : d >= rec.start /\ GraphFallsOn(rec.pattern, rec.start, d)},
        rec.count, rec.end)

\* How RFC 5545 reads a rule: the periods it visits, the days it names in each,
\* and BYSETPOS, which selects among those.
Visits(rule, d) ==
  LET start == rule.start
  IN CASE rule.freq = "DAILY" -> (d - start) % rule.interval = 0
       [] rule.freq = "WEEKLY" ->
            (WeekCount(d, rule.wkst) - WeekCount(start, rule.wkst)) % rule.interval = 0
       [] rule.freq = "MONTHLY" ->
            (MonthCount[d] - MonthCount[start]) % rule.interval = 0
       [] rule.freq = "YEARLY" -> (Year[d] - Year[start]) % rule.interval = 0

SamePeriod(rule, d, e) ==
  CASE rule.freq = "DAILY" -> d = e
    [] rule.freq = "WEEKLY" -> WeekCount(d, rule.wkst) = WeekCount(e, rule.wkst)
    [] rule.freq = "MONTHLY" -> MonthCount[d] = MonthCount[e]
    [] rule.freq = "YEARLY" -> Year[d] = Year[e]

MonthNamed(rule, d) == rule.bymonth = <<>> \/ Month[d] \in ToSet(rule.bymonth)

MonthDayNamed(rule, d) ==
  \E day \in ToSet(rule.bymonthday) :
    Day[d] = IF day > 0 THEN day ELSE MonthLengths[Month[d]] + 1 + day

\* An ordinal counts within the year if a yearly rule names no month.
WeekdayNamed(rule, d) ==
  \E day \in ToSet(rule.byday) :
    /\ Weekday[d] = day.weekday
    /\ day.ord # 0 =>
         d \in Nth({e \in Dates :
                      /\ Weekday[e] = day.weekday
                      /\ IF rule.freq = "YEARLY" /\ rule.bymonth = <<>>
                         THEN Year[e] = Year[d] ELSE MonthCount[e] = MonthCount[d]},
                   day.ord)

WeekNamed(rule, d) ==
  rule.byweekno = 0 \/ (d % YearLength) \div 7 + 1 = rule.byweekno

\* What is not named is taken from the start.
Named(rule, d) ==
  /\ MonthNamed(rule, d) /\ WeekNamed(rule, d)
  /\ rule.bymonthday # <<>> => MonthDayNamed(rule, d)
  /\ rule.byday # <<>> => WeekdayNamed(rule, d)
  /\ rule.byday = <<>> /\ rule.bymonthday = <<>> =>
       CASE rule.freq = "WEEKLY" -> Weekday[d] = Weekday[rule.start]
         [] rule.freq = "MONTHLY" -> Day[d] = Day[rule.start]
         [] rule.freq = "YEARLY" ->
              /\ Day[d] = Day[rule.start]
              /\ rule.bymonth = <<>> => Month[d] = Month[rule.start]
         [] OTHER -> TRUE

Occurrences(rule) ==
  LET named == {d \in Dates : Visits(rule, d) /\ Named(rule, d)}
      chosen == IF rule.bysetpos = 0 THEN named
                ELSE {d \in named :
                        d \in Nth({e \in named : SamePeriod(rule, d, e)}, rule.bysetpos)}
  IN Ended({d \in chosen : d >= rule.start}, rule.count, rule.until)

\* Rules that begin with an occurrence, as those of a calendar do.
BeginsRight(rule) == rule.start \in Occurrences(rule)
=============================================================================
