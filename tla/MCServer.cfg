\* One task, two runs, two HTTP requests; a second server and a status query.
\* The process ends.
SPECIFICATION FairInstancesSpec
CONSTANTS
  Tasks = {t1}
  Callers = {m}
  Main = m
  Loops = {i1}
  Runs = {r1}
  MaxTime = 1
  MaxStarts = 1
  MaxHandling = 1
  Rivals = {s2}
  Queries = {q1}
  MaxStarted = 2
INVARIANTS ClosedWhenQuiet PidFileNamesServer
PROPERTIES ShutdownEnds
CHECK_DEADLOCK FALSE
