------------------------------ MODULE Calendar ------------------------------
(***************************************************************************)
(* A small calendar for module Cron, with Go's treatment of time zones     *)
(* (package time: Date, AddDate, Truncate).  A minute has 2 seconds, an    *)
(* hour 2 minutes, a day 3 hours, a week 3 days; months of 2 and 3 days    *)
(* make a year.                                                            *)
(*                                                                         *)
(* A zone is a base offset from UTC and a summer offset that is in force   *)
(* from one second until another.  A wall-clock reading is given as the    *)
(* second that shows it in UTC.                                            *)
(***************************************************************************)
EXTENDS Integers

CONSTANT LastSecond  \* bound

MinuteLength == 2
HourLength == 4
DayLength == 12
WeekDays == 3
YearDays == 5

Zone(offset, summer, from, until) ==
  [offset |-> offset, summer |-> summer, from |-> from, until |-> until]

InSummer(z, t) == z.from <= t /\ t < z.until

Offset(z, t) == IF InSummer(z, t) THEN z.summer ELSE z.offset

\* The stretch between two transitions that t lies in.
Stretch(z, t) == IF t < z.from THEN 0 ELSE IF t < z.until THEN 1 ELSE 2

\* The second that shows reading w: the offset is looked up as if w were UTC, and
\* once more if the result lies beyond a transition.
Date(z, w) ==
  LET t == w - Offset(z, w)
  IN IF Stretch(z, t) = Stretch(z, w) THEN t ELSE w - Offset(z, t)

Reading(z, t) == t + Offset(z, t)

DayOfYear(w) == (w \div DayLength) % YearDays

Fields(w) ==
  [year |-> (w \div DayLength) \div YearDays,
   month |-> IF DayOfYear(w) < 2 THEN 1 ELSE 2,
   dom |-> IF DayOfYear(w) < 2 THEN DayOfYear(w) + 1 ELSE DayOfYear(w) - 1,
   dow |-> (w \div DayLength) % WeekDays,
   hour |-> (w % DayLength) \div HourLength,
   minute |-> (w % HourLength) \div MinuteLength,
   second |-> w % MinuteLength]

MonthLength(w) == DayLength * (IF DayOfYear(w) < 2 THEN 2 ELSE 3)

Midnight(w) == w - (w % DayLength)

HourBegin(w) == w - (w % HourLength)

MonthBegin(w) == Midnight(w) - DayLength * (Fields(w).dom - 1)

Within(t) == IF t > LastSecond THEN LastSecond ELSE IF t < 0 THEN 0 ELSE t

\* The reading of t' once more, one month or day later.
AddMonth(z, t) == Date(z, Reading(z, t) + MonthLength(Reading(z, t)))

AddDay(z, t) == Date(z, Reading(z, t) + DayLength)

OnSeconds(zones, F(_, _)) == [z \in zones |-> [t \in 0 .. LastSecond |-> F(z, t)]]

CivilOf(zones) == OnSeconds(zones, LAMBDA z, t : Fields(Reading(z, t)))

NextMonthOf(zones) ==
  OnSeconds(zones, LAMBDA z, t : Within(AddMonth(z, Date(z, MonthBegin(Reading(z, t))))))

NextDayOf(zones) ==
  OnSeconds(zones, LAMBDA z, t : Within(AddDay(z, Date(z, Midnight(Reading(z, t))))))

NextHourOf(zones) ==
  OnSeconds(zones, LAMBDA z, t :
    Within(Date(z, HourBegin(Reading(z, t))) + HourLength))

NextMinuteOf(zones) ==
  OnSeconds(zones, LAMBDA z, t : Within(t - (t % MinuteLength) + MinuteLength))
============================================================================
