------------------------------ MODULE Timetable -----------------------------
(***************************************************************************)
(* The scheduler with the expressions of its tasks.  RegisterTask and tick *)
(* look for the next run of a task while they hold the scheduler's mutex,  *)
(* so everything else that takes the mutex waits for the end of that       *)
(* search: Stop, and with it the shutdown of the server, too.              *)
(***************************************************************************)
EXTENDS Scheduler, Cron

CONSTANTS
  Expressions,  \* the expressions tasks are registered with
  NoTask        \* no search is under way

ASSUME TimetableAssumption ==
  /\ NoTask \notin Tasks
  /\ "main" \notin Loops
  /\ MaxTime < Horizon
  /\ \A z \in Zones, t \in 0 .. MaxTime : TooFar(z, t, Horizon)

VARIABLES
  zone,      \* the server's time zone
  cron,      \* the parsed expression of each task
  nextRun,   \* task.NextRun of each registered task
  asked,     \* ghost: the second each NextRun was computed from
  even,      \* ghost: every turn of that search was even
  search     \* the call of next that runs, under the mutex

timeVars == <<zone, cron, nextRun, asked, even, search>>
everything == <<vars, timeVars>>

Unregistered == -2

ZeroTime == -1

NoSearch == [task |-> NoTask, holder |-> "main", from |-> 0, at |-> 0, todo |-> {}]

MutexFree == search.task = NoTask

Registered == {t \in Tasks : nextRun[t] # Unregistered}

\* RegisterAllTasks gives every task its expression; one that cannot be parsed
\* leaves it unregistered.
TimetableInit ==
  /\ Init
  /\ zone \in Zones
  /\ \E e \in [Tasks -> Expressions] :
       cron = [t \in Tasks |-> IF Valid(e[t]) THEN parseCron(e[t]) ELSE parseCron([f \in DOMAIN FieldRange |-> {}])]
  /\ schedule = [t \in Tasks |-> {s \in 0 .. MaxTime : match(cron[t], zone, s)}]
  /\ nextRun = [t \in Tasks |-> Unregistered]
  /\ asked = [t \in Tasks |-> 0]
  /\ even = [t \in Tasks |-> TRUE]
  /\ search = NoSearch

\* next(from) is called for t; the tasks of todo are still to come.
BeginSearch(t, holder, from, todo) ==
  /\ search' = [task |-> t, holder |-> holder, from |-> from, at |-> FirstCandidate(from),
                todo |-> todo]
  /\ asked' = [asked EXCEPT ![t] = from]
  /\ even' = [even EXCEPT ![t] = TRUE]

\* With time.Now().
RegisterTask(t, now) ==
  /\ MutexFree
  /\ t \notin Registered
  /\ cron[t].second # {}
  /\ now >= clock
  /\ clock' = now
  /\ BeginSearch(t, "main", now, {})
  /\ UNCHANGED <<schedule, running, channel, closed, loops, caller, taskVars, zone, cron, nextRun>>

\* Start of the server fails, and nothing else is called.
RegistrationFails(t) == cron[t].second = {} /\ UNCHANGED everything

Ends == TooFar(zone, search.from, search.at) \/ match(cron[search.task], zone, search.at)

SearchOn ==
  /\ ~MutexFree
  /\ ~Ends
  /\ search' = [search EXCEPT !.at = Turn(cron[search.task], zone, search.at).to]
  /\ even' = [even EXCEPT ![search.task] =
                even[search.task] /\ EvenTurn(cron[search.task], zone, search.at)]
  /\ UNCHANGED <<vars, zone, cron, nextRun, asked>>

\* NextRun is stored.  A tick goes on with its next task, or gives the mutex back
\* and starts the runs.
EndSearch ==
  /\ ~MutexFree
  /\ Ends
  /\ nextRun' = [nextRun EXCEPT ![search.task] =
                   IF TooFar(zone, search.from, search.at) THEN ZeroTime ELSE search.at]
  /\ \/ /\ search.todo # {}
        /\ \E t \in search.todo :
             BeginSearch(t, search.holder, search.from, search.todo \ {t})
        /\ UNCHANGED vars
     \/ /\ search.todo = {}
        /\ search' = NoSearch
        /\ IF search.holder = "main" THEN UNCHANGED vars ELSE Tick(search.holder, search.from)
        /\ UNCHANGED <<asked, even>>
  /\ UNCHANGED <<zone, cron>>

BeginTick(i, s) ==
  /\ MutexFree
  /\ loops[i].pc = "wait"
  /\ s >= loops[i].second
  /\ Cardinality(Due(s)) <= Cardinality({r \in Runs : runs[r].pc = "unused"})  \* bound
  /\ \E t \in Due(s) : BeginSearch(t, i, s, Due(s) \ {t})
  /\ UNCHANGED <<vars, zone, cron, nextRun>>

IdleTick(i, s) == MutexFree /\ Due(s) = {} /\ Tick(i, s) /\ UNCHANGED timeVars

\* Scheduler's actions that take the mutex, and those that do not.
UnderMutex ==
  /\ MutexFree
  /\ \/ \E c \in Callers : (Registered = Tasks /\ BeginStart(c)) \/ BeginStop(c)
     \/ \E r \in Runs : CountRun(r) \/ \E failed \in BOOLEAN : FinishRun(r, failed)
     \/ \E t \in Registered : RunTaskNow(t) \/ EnableTask(t) \/ DisableTask(t)
  /\ UNCHANGED timeVars

WithoutMutex ==
  /\ \/ \E c \in Callers : EndStart(c) \/ EndStop(c)
     \/ \E i \in Loops : EnterSelect(i) \/ (search.holder # i /\ LoopReturns(i))
     \/ \E r \in Runs : CheckEnabled(r)
  /\ UNCHANGED timeVars

TimetableNext ==
  \/ \E t \in Tasks : (\E now \in 0 .. MaxTime : RegisterTask(t, now)) \/ RegistrationFails(t)
  \/ SearchOn \/ EndSearch
  \/ \E i \in Loops, s \in 0 .. MaxTime : BeginTick(i, s) \/ IdleTick(i, s)
  \/ UnderMutex
  \/ WithoutMutex

TimetableSpec == TimetableInit /\ [][TimetableNext]_everything

\* Goroutines that can run do, a search goes on, and a select cannot ignore a
\* closed channel for ever.
TimetableFairness ==
  /\ WF_everything(SearchOn \/ EndSearch)
  /\ \A i \in Loops : /\ WF_everything(WithoutMutex /\ EnterSelect(i))
                      /\ SF_everything(WithoutMutex /\ LoopReturns(i))
  /\ \A c \in Callers : /\ WF_everything(WithoutMutex /\ EndStart(c))
                        /\ WF_everything(WithoutMutex /\ EndStop(c))

FairTimetableSpec == TimetableSpec /\ TimetableFairness

----------------------------------------------------------------------------
Found(t) == nextRun[t] # ZeroTime

\* The second found is after the one asked from and nothing between them matches;
\* if none was found, what matches lies beyond the years looked at.
Earliest(t) ==
  IF Found(t)
  THEN /\ nextRun[t] > asked[t]
       /\ \A u \in asked[t] + 1 .. nextRun[t] - 1 : ~match(cron[t], zone, u)
  ELSE \A u \in asked[t] + 1 .. Horizon :
         match(cron[t], zone, u) => \E v \in 0 .. u : TooFar(zone, asked[t], v)

\* "next returns the earliest time strictly after "from" that matches the
\* schedule" (cron.go:171): what it returns always matches, and it is the
\* earliest, across changes of the clock and jumps back, unless a jump of the
\* search was uneven (cron.go:186, 190 in the zones that module Cron names).
NextRunIsEarliest ==
  \A t \in Registered \ {search.task} :
    /\ Found(t) => match(cron[t], zone, nextRun[t])
    /\ even[t] => Earliest(t)

\* The comment as it stands.  The code does not have this property: where midnight
\* is skipped, a weekly task due at 00:00 of the day after misses that week.
NextRunIsEarliestEverywhere ==
  \A t \in Registered \ {search.task} :
    (Found(t) => match(cron[t], zone, nextRun[t])) /\ Earliest(t)

\* next returns.
NextReturns == ~MutexFree ~> MutexFree
============================================================================
