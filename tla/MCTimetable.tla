---------------------------- MODULE MCTimetable -----------------------------
(* The scheduler and its expressions in the small calendar. *)
EXTENDS Timetable, Calendar

Part(lo, hi, step) == [any |-> FALSE, lo |-> lo, hi |-> hi, step |-> step]
Every(step) == [any |-> TRUE, lo |-> 0, hi |-> 0, step |-> step]
Only(v) == {Part(v, v, 1)}

Expression(second, minute, hour, dom, month, dow) ==
  [second |-> second, minute |-> minute, hour |-> hour, dom |-> dom, month |-> month, dow |-> dow]

Always == {Every(1)}

\* Every second, every other hour, once a day, once a week at midnight; a weekday of one
\* month, one day of the month or of the week; a day that no month has; not an expression.
ManyExpressions ==
  { Expression(Always, Always, Always, Always, Always, Always),
    Expression(Only(0), {Every(2)}, {Part(0, 2, 2)}, Always, Always, Always),
    Expression(Only(0), Only(0), Only(2), Always, Always, Always),
    Expression(Only(0), Only(0), Only(0), Always, Always, Only(3)),
    Expression(Only(0), Only(0), Only(2), Always, Only(1), Only(2)),
    Expression(Always, Only(0), Only(0), {Part(2, 3, 1)}, Only(1), {Every(2)}),
    Expression(Only(1), Always, Always, Only(3), Only(1), Always),
    Expression(Only(0), Only(0), Only(3), Always, Always, Always) }

\* UTC; east of it, with summer time, and with the repeated hour under way at the
\* start; west of it, with clocks that only go forward.
OrdinaryZones == { Zone(0, 0, 0, 0), Zone(4, 8, 16, 64), Zone(4, 8, -48, 4),
                   Zone(-4, 0, 20, LastSecond) }

\* Summer time begins at midnight, which is skipped; summer time of half an hour.
OddZones == { Zone(4, 8, 20, 64), Zone(4, 6, 18, 64) }

EastZones == OrdinaryZones \cup OddZones

\* In the ordinary zones there is no uneven turn, so that NextRunIsEarliest
\* excuses nothing there; in each of the others there is one.
ASSUME UnevenTurns ==
  \A z \in Zones \cap EastZones :
    (z \in OddZones) <=>
      \E e \in Expressions, t \in 0 .. 100 : Valid(e) /\ ~EvenTurn(parseCron(e), z, t)

\* West of UTC, where clocks go back.
WestZones == { Zone(-4, 0, 20, 68) }

Ranges == [second |-> <<0, 1>>, minute |-> <<0, 1>>, hour |-> <<0, 2>>, dom |-> <<1, 3>>,
           month |-> <<1, 2>>, dow |-> <<0, 3>>]

CivilIn == CivilOf(Zones)
NextMonthIn == NextMonthOf(Zones)
NextDayIn == NextDayOf(Zones)
NextHourIn == NextHourOf(Zones)
NextMinuteIn == NextMinuteOf(Zones)
============================================================================
