----------------------------- MODULE Scheduler -----------------------------
(***************************************************************************)
(* The background task scheduler, src/src/scheduler/scheduler.go: the tick *)
(* loop, the goroutine of each run, and the callers of Start, Stop and the *)
(* task operations.  The mutex is never held across a blocking operation,  *)
(* so a critical section is one step.                                      *)
(*                                                                         *)
(* s.stop is a field: Start replaces the channel in it, and the loop reads *)
(* the field anew, without the mutex, each time round.  A tick carries the *)
(* second it was sent in; jitter and a slow receiver can repeat or skip a  *)
(* second, so a loop's ticks are any non-decreasing sequence of seconds.   *)
(***************************************************************************)
EXTENDS Naturals, FiniteSets

CONSTANTS
  Tasks,      \* names of the registered tasks
  Callers,    \* goroutines that call Start and Stop
  Loops,      \* loop goroutines that can exist together
  Runs,       \* bound: every run of a task there will be
  MaxTime,    \* bound: the last second
  MaxStarts   \* bound: how often Start makes a new channel

ASSUME SchedulerAssumption ==
  /\ MaxTime \in Nat
  /\ MaxStarts \in Nat \ {0}
  /\ IsFiniteSet(Tasks)

VARIABLES
  schedule,   \* the seconds each task's cron expression matches (constant)
  running,    \* the running flag
  clock,      \* the latest second a tick was sent in
  channel,    \* which channel s.stop holds; Start makes 1, 2, ...
  closed,     \* the channels that are closed
  loops,      \* each loop: where it is, its channel, its last second
  caller,     \* each caller: in Start after the mutex, or waiting in Stop
  enabled,    \* the enabled tasks
  lastFired,  \* the second each task was last dispatched for
  runs,       \* each run: its task and where it is
  runCount, errorCount, \* statistics of each task
  fired       \* ghost: how often each task was dispatched for each second

loopVars == <<running, clock, channel, closed, loops, caller>>
taskVars == <<enabled, lastFired, runs, runCount, errorCount, fired>>
vars == <<schedule, loopVars, taskVars>>

Never == MaxTime + 1

NoLoop == [pc |-> "none", watch |-> 0, second |-> 0]

LiveLoops == {i \in Loops : loops[i].pc # "none"}

\* Runs whose handler is executing.
InHandler == {r \in Runs : runs[r].pc = "handler"}

InitLoops ==
  /\ running = FALSE /\ clock = 0 /\ channel = 0 /\ closed = {}
  /\ loops = [i \in Loops |-> NoLoop]
  /\ caller = [c \in Callers |-> "idle"]

InitTasks ==
  /\ schedule \in [Tasks -> SUBSET (0 .. MaxTime)]
  /\ enabled = Tasks
  /\ lastFired = [t \in Tasks |-> Never]
  /\ runs = [r \in Runs |-> [pc |-> "unused", task |-> "none"]]
  /\ runCount = [t \in Tasks |-> 0] /\ errorCount = [t \in Tasks |-> 0]
  /\ fired = [t \in Tasks |-> [s \in 0 .. MaxTime |-> 0]]

Init == InitLoops /\ InitTasks

----------------------------------------------------------------------------
(***************************************************************************)
(* Start and Stop                                                          *)
(***************************************************************************)
BeginStart(c) ==
  /\ caller[c] = "idle"
  /\ ~running
  /\ channel < MaxStarts
  /\ running' = TRUE
  /\ channel' = channel + 1
  /\ caller' = [caller EXCEPT ![c] = "starting"]
  /\ UNCHANGED <<schedule, clock, closed, loops, taskVars>>

\* wg.Add(1) and go s.loop(), after the mutex is released.
EndStart(c) ==
  /\ caller[c] = "starting"
  /\ caller' = [caller EXCEPT ![c] = "idle"]
  /\ \E i \in Loops \ LiveLoops :
       loops' = [loops EXCEPT ![i] = [pc |-> "enter", watch |-> 0, second |-> clock]]
  /\ UNCHANGED <<schedule, running, clock, channel, closed, taskVars>>

\* Mutant: nothing is closed.
NothingClosed == {}

\* close(s.stop)
ClosedByStop == {channel}

\* Close the channel, then wait for the loops (EndStop).
BeginStop(c) ==
  /\ caller[c] = "idle"
  /\ running
  /\ running' = FALSE
  /\ closed' = closed \cup ClosedByStop
  /\ caller' = [caller EXCEPT ![c] = "waiting"]
  /\ UNCHANGED <<schedule, clock, channel, loops, taskVars>>

\* Mutant: Stop does not wait.
LoopsJoinedAlways == TRUE

\* wg.Wait(): only loops are counted in the group, never runs.
LoopsJoined == LiveLoops = {}

EndStop(c) ==
  /\ caller[c] = "waiting"
  /\ LoopsJoined
  /\ caller' = [caller EXCEPT ![c] = "idle"]
  /\ UNCHANGED <<schedule, running, clock, channel, closed, loops, taskVars>>

----------------------------------------------------------------------------
(***************************************************************************)
(* The loop                                                                *)
(***************************************************************************)
EnterSelect(i) ==
  /\ loops[i].pc = "enter"
  /\ loops' = [loops EXCEPT ![i] = [pc |-> "wait", watch |-> channel, second |-> @.second]]
  /\ UNCHANGED <<schedule, running, clock, channel, closed, caller, taskVars>>

LoopReturns(i) ==
  /\ loops[i].pc = "wait"
  /\ loops[i].watch \in closed
  /\ loops' = [loops EXCEPT ![i] = NoLoop]
  /\ UNCHANGED <<schedule, running, clock, channel, closed, caller, taskVars>>

\* Mutant: the lastFired guard is missing.
DueUnguarded(s) == {t \in Tasks : s \in schedule[t]}

\* The tasks a tick of second s dispatches.
Due(s) == {t \in Tasks : s \in schedule[t] /\ lastFired[t] # s}

\* Each task gets a goroutine of its own.
Dispatch(due) ==
  \E r \in [due -> {r \in Runs : runs[r].pc = "unused"}] :
    /\ \A t1, t2 \in due : r[t1] = r[t2] => t1 = t2
    /\ runs' = [x \in Runs |-> IF \E t \in due : r[t] = x
                               THEN [pc |-> "check", task |-> CHOOSE t \in due : r[t] = x]
                               ELSE runs[x]]

\* A select with a closed channel and a tick both ready may take either.
Tick(i, s) ==
  /\ loops[i].pc = "wait"
  /\ s >= loops[i].second
  /\ clock' = IF s > clock THEN s ELSE clock
  /\ Dispatch(Due(s))
  /\ lastFired' = [t \in Tasks |-> IF t \in Due(s) THEN s ELSE lastFired[t]]
  /\ fired' = [t \in Tasks |-> IF t \in Due(s) THEN [fired[t] EXCEPT ![s] = @ + 1]
                               ELSE fired[t]]
  /\ loops' = [loops EXCEPT ![i] = [pc |-> "enter", watch |-> 0, second |-> s]]
  /\ UNCHANGED <<schedule, running, channel, closed, caller, enabled, runCount, errorCount>>

----------------------------------------------------------------------------
(***************************************************************************)
(* runTask and the task operations                                         *)
(***************************************************************************)

\* task.Enabled is read without the mutex.
CheckEnabled(r) ==
  /\ runs[r].pc = "check"
  /\ runs' = [runs EXCEPT ![r].pc = IF runs[r].task \in enabled THEN "count" ELSE "skipped"]
  /\ UNCHANGED <<schedule, loopVars, enabled, lastFired, runCount, errorCount, fired>>

CountRun(r) ==
  /\ runs[r].pc = "count"
  /\ runs' = [runs EXCEPT ![r].pc = "handler"]
  /\ runCount' = [runCount EXCEPT ![runs[r].task] = @ + 1]
  /\ UNCHANGED <<schedule, loopVars, enabled, lastFired, errorCount, fired>>

\* The task's errors after a run of its handler.
ErrorsAfter(t, failed) == IF failed THEN errorCount[t] + 1 ELSE errorCount[t]

\* The handler returns, with or without an error, and the result is noted.
FinishRun(r, failed) ==
  /\ runs[r].pc = "handler"
  /\ runs' = [runs EXCEPT ![r].pc = "done"]
  /\ errorCount' = [errorCount EXCEPT ![runs[r].task] = ErrorsAfter(runs[r].task, failed)]
  /\ UNCHANGED <<schedule, loopVars, enabled, lastFired, runCount, fired>>

RunTaskNow(t) ==
  /\ Dispatch({t})
  /\ UNCHANGED <<schedule, loopVars, enabled, lastFired, runCount, errorCount, fired>>

EnableTask(t) ==
  /\ enabled' = enabled \cup {t}
  /\ UNCHANGED <<schedule, loopVars, lastFired, runs, runCount, errorCount, fired>>

DisableTask(t) ==
  /\ enabled' = enabled \ {t}
  /\ UNCHANGED <<schedule, loopVars, lastFired, runs, runCount, errorCount, fired>>

RunStep(r) == CheckEnabled(r) \/ CountRun(r) \/ \E failed \in BOOLEAN : FinishRun(r, failed)

LoopStep(i) == EnterSelect(i) \/ LoopReturns(i) \/ \E s \in 0 .. MaxTime : Tick(i, s)

Next ==
  \/ \E c \in Callers : BeginStart(c) \/ EndStart(c) \/ BeginStop(c) \/ EndStop(c)
  \/ \E i \in Loops : LoopStep(i)
  \/ \E r \in Runs : RunStep(r)
  \/ \E t \in Tasks : RunTaskNow(t) \/ EnableTask(t) \/ DisableTask(t)

----------------------------------------------------------------------------
\* No task is dispatched twice for one second, however the ticks fall and
\* across Stop and Start: "Guard against dispatching the same task twice
\* within one second" (scheduler.go:109).
OncePerSecond == \A t \in Tasks, s \in 0 .. MaxTime : fired[t][s] <= 1

\* There is a loop exactly as long as the scheduler runs or somebody waits for
\* the loop in Stop: no loop survives Stop, and there are never two.
OneLoop ==
  /\ Cardinality(LiveLoops) <= 1
  /\ (LiveLoops # {}) => running \/ \E c \in Callers : caller[c] = "waiting"

\* Stop returns: "Stop stops the scheduler tick loop" (scheduler.go:65).
StopReturns == \A c \in Callers : caller[c] = "waiting" ~> caller[c] = "idle"
============================================================================
