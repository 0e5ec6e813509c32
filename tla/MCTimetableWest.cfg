\* West of Greenwich, across the end of summer time.
SPECIFICATION FairTimetableSpec
CONSTANTS
  Tasks = {t1}
  NoTask = NoTask
  Callers = {c1}
  Loops = {i1, i2}
  Runs = {r1, r2}
  MaxTime = 1
  MaxStarts = 2
  LastSecond = 200
  Horizon = 200
  MaxYears = 2
  Zones <- WestZones
  Expressions <- ManyExpressions
  FieldRange <- Ranges
  Civil <- CivilIn
  NextMonth <- NextMonthIn
  NextDay <- NextDayIn
  NextHour <- NextHourIn
  NextMinute <- NextMinuteIn
PROPERTIES NextReturns
