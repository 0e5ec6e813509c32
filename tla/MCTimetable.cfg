\* One caller, as in the server: it starts, stops and starts again.
SPECIFICATION FairTimetableSpec
CONSTANTS
  Tasks = {t1}
  NoTask = NoTask
  Callers = {c1}
  Loops = {i1, i2}
  Runs = {r1, r2}
  MaxTime = 1
  MaxStarts = 2
  LastSecond = 200
  Horizon = 200
  MaxYears = 2
  Zones <- EastZones
  Expressions <- ManyExpressions
  FieldRange <- Ranges
  Civil <- CivilIn
  NextMonth <- NextMonthIn
  NextDay <- NextDayIn
  NextHour <- NextHourIn
  NextMinute <- NextMinuteIn
INVARIANTS OncePerSecond OneLoop NextRunIsEarliest
PROPERTIES StopReturns
