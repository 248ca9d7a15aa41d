------------------------------- MODULE Recurrence ------------------------------
(***************************************************************************)
(* The dates of a schedule: what a request asks for, completed by          *)
(* normalizeScheduleRecurrence, and the loop of recurrence.Occurrences,    *)
(* which leaps from date to date by arithmetic on days and months. Dates   *)
(* are days of a calendar of a few months.                                 *)
(***************************************************************************)
EXTENDS Integers, Sequences

CONSTANTS
    FirstOf,            \* the first day of each month, and the day after the calendar
    FirstWeekday,       \* ISO weekday of the day 1
    Starts, Ends,       \* dates of schedules; 0 is a schedule without an end
    Intervals, Weekdays, MonthDays,     \* 0 is a field that is not set
    Windows             \* pairs of from and through, never the other way round

Months   == 1 .. Len(FirstOf) - 1
Beyond   == FirstOf[Len(FirstOf)]       \* any date after the calendar
Calendar == 1 .. Beyond - 1

ASSUME RecurrenceAssumption ==
    /\ FirstOf \in Seq(Nat) /\ Len(FirstOf) > 1 /\ FirstOf[1] = 1
    /\ \A m, n \in 1 .. Len(FirstOf) : m < n => FirstOf[m] < FirstOf[n]
    /\ FirstWeekday \in 1 .. 7
    /\ Starts \subseteq Calendar /\ Ends \subseteq {0} \cup Calendar
    /\ Intervals \subseteq Nat /\ Weekdays \subseteq 0 .. 7 /\ MonthDays \subseteq 0 .. 31
    /\ Windows \subseteq {w \in Calendar \X Calendar : w[1] <= w[2]}

VARIABLES rule, window, dates

ruleVars == <<rule, window, dates>>
NotYet == {0}

Month(d) == CHOOSE m \in Months : FirstOf[m] <= d /\ d < FirstOf[m + 1]
LastOf(m) == FirstOf[m + 1] - 1
Weekday(d) == ((d + FirstWeekday - 2) % 7) + 1

-------------------------------------------------------------------------------
(* The code *)

(* The interval is 1 if none is set, the weekday or the day of the month   *)
(* that of the start.                                                      *)
NormalizeScheduleRecurrence(asked) ==
    [asked EXCEPT
       !.interval   = IF @ = 0 THEN 1 ELSE @,
       !.dayOfWeek  = IF asked.frequency = "weekly" /\ @ = 0 THEN Weekday(asked.start) ELSE @,
       !.dayOfMonth = IF asked.frequency = "monthly" /\ @ = 0
                      THEN asked.start - FirstOf[Month(asked.start)] + 1 ELSE @]

MutantClampedDate(m, day) ==
    IF m \in Months THEN FirstOf[m] + day - 1 ELSE Beyond

ClampedDate(m, day) ==
    IF m \notin Months THEN Beyond
    ELSE IF FirstOf[m] + day - 1 > LastOf(m) THEN LastOf(m) ELSE FirstOf[m] + day - 1

CeilDiv(value, divisor) == (value + divisor - 1) \div divisor

(* The first multiple of step after first that is not before target.       *)
Leap(first, target, step) ==
    IF target <= first THEN first ELSE first + CeilDiv(target - first, step) * step

FirstMonth(r) ==
    LET m == Month(r.start) IN
      IF ClampedDate(m, r.dayOfMonth) < r.start THEN m + r.interval ELSE m

Monthly(r, target) ==
    LET first     == FirstMonth(r)
        steps     == (Month(target) - first) \div r.interval
        month     == first + steps * r.interval
    IN  IF first \notin Months \/ target <= ClampedDate(first, r.dayOfMonth)
        THEN ClampedDate(first, r.dayOfMonth)
        ELSE IF ClampedDate(month, r.dayOfMonth) < target
             THEN ClampedDate(month + r.interval, r.dayOfMonth)
             ELSE ClampedDate(month, r.dayOfMonth)

(* Beyond the calendar all dates are one.                                  *)
NextOnOrAfter(r, target) ==
    LET next ==
          CASE r.frequency = "daily"   -> Leap(r.start, target, r.interval)
            [] r.frequency = "weekly"  ->
                 Leap(r.start + ((r.dayOfWeek - Weekday(r.start) + 7) % 7), target, 7 * r.interval)
            [] r.frequency = "monthly" -> Monthly(r, target)
    IN  IF target >= Beyond THEN Beyond ELSE IF next > Beyond THEN Beyond ELSE next

From(r, from) == IF from < r.start THEN r.start ELSE from
Through(r, through) == IF r.end # 0 /\ through > r.end THEN r.end ELSE through

Occurrences(r, from, through) ==
    LET begin == From(r, from)
        end   == Through(r, through)
        Loop[next \in begin .. Beyond] ==
            IF next > end THEN {} ELSE {next} \cup Loop[NextOnOrAfter(r, next + 1)]
    IN  IF end < begin THEN {} ELSE Loop[NextOnOrAfter(r, begin)]

-------------------------------------------------------------------------------
(* What it is asked: a schedule by a request, a window by a run *)

Asked ==
    LET Rules(frequency, weekdays, days) ==
          [frequency : {frequency}, interval : Intervals, start : Starts, end : Ends,
           dayOfWeek : weekdays, dayOfMonth : days]
    IN  {r \in Rules("daily", {0}, {0}) \cup Rules("weekly", Weekdays, {0})
                 \cup Rules("monthly", {0}, MonthDays) : r.end = 0 \/ r.end >= r.start}

RuleInit == rule \in Asked /\ window \in Windows /\ dates = NotYet

RuleNext ==
    /\ dates = NotYet
    /\ rule' = NormalizeScheduleRecurrence(rule)
    /\ dates' = Occurrences(rule', window[1], window[2])
    /\ UNCHANGED window

RuleSpec == RuleInit /\ [][RuleNext]_ruleVars

-------------------------------------------------------------------------------
(* Properties *)

(* Whether a date belongs to a rule, without leaping to it: by the number  *)
(* of days, of whole weeks or of months since the start.                   *)
Matches(r, d) ==
    CASE r.frequency = "daily"   -> (d - r.start) % r.interval = 0
      [] r.frequency = "weekly"  ->
           Weekday(d) = r.dayOfWeek /\ ((d - r.start) \div 7) % r.interval = 0
      [] r.frequency = "monthly" ->
           /\ (Month(d) - Month(r.start)) % r.interval = 0
           /\ \/ d - FirstOf[Month(d)] + 1 = r.dayOfMonth
              \/ d = LastOf(Month(d)) /\ d - FirstOf[Month(d)] + 1 < r.dayOfMonth

Fits(r, d) == d >= r.start /\ (r.end = 0 \/ d <= r.end) /\ Matches(r, d)

(* The dates of a window are those in it that fit the rule, at the ends of *)
(* short months, when the first month has no such day any more and however *)
(* the windows of successive runs cut the schedule.                        *)
DatesFollowRule ==
    dates # NotYet =>
        dates = {d \in Calendar : window[1] <= d /\ d <= window[2] /\ Fits(rule, d)}
===============================================================================
