------------------------------ MODULE Calendar ------------------------------
(***************************************************************************)
(* core/planner.py, time_interval: the half-open UTC windows that replace  *)
(* relative dates.  An instant is a record of calendar parts, minute being *)
(* the minute of the day (seconds are dropped by the code); Python's       *)
(* datetime arithmetic is modelled by day numbers of the proleptic         *)
(* Gregorian calendar.                                                     *)
(***************************************************************************)
EXTENDS Integers

Instant(y, m, d, t) == [year |-> y, month |-> m, day |-> d, minute |-> t]

\* Days since 1970-01-01, and back (Python's date arithmetic).
DayNumber(i) ==
    LET y   == IF i.month <= 2 THEN i.year - 1 ELSE i.year
        m   == (i.month + 9) % 12
        era == y \div 400
        yoe == y % 400
        doe == yoe * 365 + yoe \div 4 - yoe \div 100 + (153 * m + 2) \div 5 + i.day - 1
    IN  era * 146097 + doe - 719468

DayAt(n, minute) ==
    LET z   == n + 719468
        doe == z % 146097
        yoe == (doe - doe \div 1460 + doe \div 36524 - doe \div 146096) \div 365
        doy == doe - (365 * yoe + yoe \div 4 - yoe \div 100)
        mp  == (5 * doy + 2) \div 153
        m   == IF mp < 10 THEN mp + 3 ELSE mp - 9
        y   == yoe + (z \div 146097) * 400
    IN  Instant(IF m <= 2 THEN y + 1 ELSE y, m, doy - (153 * mp + 2) \div 5 + 1, minute)

MinusDays(i, n) == DayAt(DayNumber(i) - n, i.minute)

\* datetime.weekday(): Monday is 0 (1970-01-01 was a Thursday).
Weekday(i) == (DayNumber(i) + 3) % 7

Minutes(i)     == DayNumber(i) * 1440 + i.minute
NotAfter(a, b) == Minutes(a) <= Minutes(b)
Before(a, b)   == Minutes(a) < Minutes(b)

-----------------------------------------------------------------------------

TrailingDays == [last_7_days |-> 7, last_14_days |-> 14, last_30_days |-> 30]

Expressions == {"last_quarter", "previous_quarter", "this_quarter", "this_month",
                "last_month", "this_year", "last_year", "this_week"}
               \cup DOMAIN TrailingDays

Today(now)    == [now EXCEPT !.minute = 0]
MonthOf(now)  == [Today(now) EXCEPT !.day = 1]
YearOf(now)   == [MonthOf(now) EXCEPT !.month = 1]

\* Faulty form: the quarter starts in the month before.
QuarterOfOffByOne(now) ==
    [MonthOf(now) EXCEPT !.month = IF now.month <= 3 THEN 1 ELSE 3 * ((now.month - 1) \div 3)]

QuarterOf(now) == [MonthOf(now) EXCEPT !.month = 3 * ((now.month - 1) \div 3) + 1]

QuarterBefore(end) ==
    IF end.month = 1
    THEN [end EXCEPT !.year = @ - 1, !.month = 10]
    ELSE [end EXCEPT !.month = @ - 3]

Window(start, end) == [start |-> start, end |-> end]

\* Defined for the members of Expressions; the planner refuses any other.
TimeInterval(value, now) ==
    CASE value \in {"last_quarter", "previous_quarter"} ->
             Window(QuarterBefore(QuarterOf(now)), QuarterOf(now))
      [] value = "this_quarter" -> Window(QuarterOf(now), now)
      [] value = "this_month"   -> Window(MonthOf(now), now)
      [] value = "last_month"   ->
             Window([MinusDays(MonthOf(now), 1) EXCEPT !.day = 1], MonthOf(now))
      [] value = "this_year"    -> Window(YearOf(now), now)
      [] value = "last_year"    -> Window([YearOf(now) EXCEPT !.year = @ - 1], YearOf(now))
      [] value = "this_week"    -> Window(MinusDays(Today(now), Weekday(now)), now)
      [] value \in DOMAIN TrailingDays -> Window(MinusDays(now, TrailingDays[value]), now)

Within(i, w) == NotAfter(w.start, i) /\ Before(i, w.end)
=============================================================================
