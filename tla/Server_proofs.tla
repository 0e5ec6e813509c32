----------------------------- MODULE Server_proofs ----------------------------
(***************************************************************************)
(* The scheduler, the timetable, the server process and its neighbours on  *)
(* one machine.                                                            *)
(*                                                                         *)
(* One goroutine that starts and stops the scheduler, as main does, gets   *)
(* one tick loop at a time, and no second is dispatched twice: for any     *)
(* tasks, expressions, ticks, runs and restarts.  The next run of every    *)
(* registered task is a second that its expression matches, and the        *)
(* earliest after the one it was computed from if no turn of the search    *)
(* was uneven, for any calendar.  The server closes its database when nothing of   *)
(* its own uses it any more, and the PID file names the server that        *)
(* listens.                                                                *)
(***************************************************************************)
EXTENDS Timetable, Instances, FiniteSetTheorems, TLAPS

Loop == [pc : {"none", "enter", "wait"}, watch : 0 .. MaxStarts, second : 0 .. MaxTime]

Run == [pc : {"unused", "check", "count", "handler", "done", "skipped"},
        task : Tasks \cup {"none"}]

LoopTypes ==
  /\ running \in BOOLEAN /\ clock \in 0 .. MaxTime
  /\ channel \in 0 .. MaxStarts
  /\ closed \in SUBSET (1 .. MaxStarts)
  /\ loops \in [Loops -> Loop]
  /\ caller \in [Callers -> {"idle", "starting", "waiting"}]

RunTypes ==
  /\ enabled \in SUBSET Tasks
  /\ runs \in [Runs -> Run]
  /\ runCount \in [Tasks -> Nat] /\ errorCount \in [Tasks -> Nat]

FiredTypes ==
  /\ schedule \in [Tasks -> SUBSET (0 .. MaxTime)]
  /\ lastFired \in [Tasks -> 0 .. Never]
  /\ fired \in [Tasks -> [0 .. MaxTime -> Nat]]

\* The types of the scheduler's state.
TypeOK == LoopTypes /\ RunTypes /\ FiredTypes

\* The loop exists from EndStart until it has seen the closed channel.
LoopsInv ==
  /\ running => channel # 0
  /\ \A i, j \in LiveLoops : i = j
  /\ \A c \in Callers :
       /\ caller[c] = "starting" => running /\ LiveLoops = {}
       /\ caller[c] = "waiting" => ~running
       /\ caller[c] = "idle" /\ ~running => LiveLoops = {}

\* Nothing was dispatched for a second after lastFired, and the seconds of the
\* ticks to come are not before it.
FiredInv ==
  \A t \in Tasks :
    /\ \A s \in 0 .. MaxTime :
         /\ fired[t][s] <= 1
         /\ fired[t][s] # 0 => lastFired[t] # Never /\ s <= lastFired[t]
    /\ lastFired[t] # Never => /\ lastFired[t] <= clock
                               /\ \A i \in LiveLoops : lastFired[t] <= loops[i].second

SchedulerInv == TypeOK /\ LoopsInv /\ FiredInv

LEMMA LoopRecord ==
  ASSUME SchedulerAssumption, NEW pc \in {"none", "enter", "wait"},
         NEW watch \in 0 .. MaxStarts, NEW second \in 0 .. MaxTime
  PROVE  /\ [pc |-> pc, watch |-> watch, second |-> second] \in Loop
         /\ NoLoop \in Loop
<1>1. 0 \in 0 .. MaxStarts /\ 0 \in 0 .. MaxTime
  BY DEF SchedulerAssumption
<1> QED BY <1>1 DEF Loop, NoLoop

LEMMA InitKeeps ==
  ASSUME SchedulerAssumption, Init
  PROVE  SchedulerInv
<1>1. LoopTypes
  <2>1. 0 \in 0 .. MaxStarts /\ 0 \in 0 .. MaxTime
    BY DEF SchedulerAssumption
  <2>2. NoLoop \in Loop
    BY <2>1, LoopRecord
  <2> QED BY <2>1, <2>2 DEF Init, InitLoops, LoopTypes
<1>2. RunTypes
  BY DEF Init, InitTasks, RunTypes, Run
<1>3. FiredTypes
  <2>1. lastFired \in [Tasks -> 0 .. Never]
    BY DEF SchedulerAssumption, Init, InitTasks, Never
  <2>2. fired \in [Tasks -> [0 .. MaxTime -> Nat]]
    BY DEF Init, InitTasks
  <2> QED BY <2>1, <2>2 DEF Init, InitTasks, FiredTypes
<1>4. LoopsInv
  BY DEF Init, InitLoops, LoopsInv, LiveLoops, NoLoop
<1>5. FiredInv
  BY DEF SchedulerAssumption, Init, InitTasks, FiredInv, Never
<1> QED BY <1>1, <1>2, <1>3, <1>4, <1>5 DEF SchedulerInv, TypeOK

----------------------------------------------------------------------------
\* Start and Stop, called by one goroutine.
LEMMA CallsKeep ==
  ASSUME SchedulerAssumption, SchedulerInv, NEW owner, Callers = {owner},
         BeginStart(owner) \/ EndStart(owner) \/ BeginStop(owner) \/ EndStop(owner)
  PROVE  SchedulerInv'
<1> USE DEF SchedulerInv, TypeOK, LiveLoops
<1>1. RunTypes' /\ FiredTypes'
  BY DEF BeginStart, EndStart, BeginStop, EndStop, taskVars, RunTypes, FiredTypes
<1>2. CASE BeginStart(owner)
  <2>1. LoopTypes'
    BY <1>2 DEF BeginStart, LoopTypes, SchedulerAssumption
  <2>2. LoopsInv' /\ FiredInv'
    BY <1>2 DEF BeginStart, taskVars, LoopTypes, LoopsInv, FiredInv
  <2> QED BY <1>1, <2>1, <2>2
<1>3. CASE EndStart(owner)
  <2>0. PICK k \in Loops \ LiveLoops :
          loops' = [loops EXCEPT ![k] = [pc |-> "enter", watch |-> 0, second |-> clock]]
    BY <1>3 DEF EndStart
  <2>1. LoopTypes'
    <3>1. [pc |-> "enter", watch |-> 0, second |-> clock] \in Loop
      <4>1. 0 \in 0 .. MaxStarts /\ clock \in 0 .. MaxTime
        BY DEF LoopTypes, SchedulerAssumption
      <4> QED BY <4>1, LoopRecord
    <3>2. loops' \in [Loops -> Loop] /\ caller' \in [Callers -> {"idle", "starting", "waiting"}]
      BY <1>3, <2>0, <3>1 DEF EndStart, LoopTypes
    <3> QED BY <1>3, <3>2 DEF EndStart, LoopTypes
  <2>2. LoopsInv'
    BY <1>3, <2>0 DEF EndStart, LoopTypes, LoopsInv, NoLoop
  <2>3. FiredInv'
    BY <1>3, <2>0 DEF EndStart, taskVars, LoopTypes, LoopsInv, FiredInv, NoLoop
  <2> QED BY <1>1, <2>1, <2>2, <2>3
<1>4. CASE BeginStop(owner)
  <2>1. channel \in 1 .. MaxStarts
    BY <1>4 DEF BeginStop, LoopTypes, LoopsInv, SchedulerAssumption
  <2>2. LoopTypes'
    BY <1>4, <2>1 DEF BeginStop, ClosedByStop, LoopTypes
  <2>3. LoopsInv' /\ FiredInv'
    BY <1>4 DEF BeginStop, taskVars, LoopTypes, LoopsInv, FiredInv
  <2> QED BY <1>1, <2>2, <2>3
<1>5. CASE EndStop(owner)
  <2>1. LoopTypes'
    BY <1>5 DEF EndStop, LoopTypes
  <2>2. LoopsInv' /\ FiredInv'
    BY <1>5 DEF EndStop, LoopsJoined, taskVars, LoopTypes, LoopsInv, FiredInv
  <2> QED BY <1>1, <2>1, <2>2
<1> QED BY <1>2, <1>3, <1>4, <1>5

----------------------------------------------------------------------------
\* The loop of a tick goes on from the second of the tick.
LEMMA DispatchTypes ==
  ASSUME RunTypes, NEW due \in SUBSET Tasks, Dispatch(due)
  PROVE  runs' \in [Runs -> Run]
<1> PICK r \in [due -> {x \in Runs : runs[x].pc = "unused"}] :
      runs' = [x \in Runs |-> IF \E t \in due : r[t] = x
                              THEN [pc |-> "check", task |-> CHOOSE t \in due : r[t] = x]
                              ELSE runs[x]]
  BY DEF Dispatch
<1>1. ASSUME NEW x \in Runs PROVE runs'[x] \in Run
  <2>1. CASE \E t \in due : r[t] = x
    <3>1. (CHOOSE t \in due : r[t] = x) \in due
      BY <2>1
    <3> QED BY <2>1, <3>1 DEF Run
  <2>2. CASE ~\E t \in due : r[t] = x
    BY <2>2 DEF RunTypes
  <2> QED BY <2>1, <2>2
<1> QED BY <1>1

LEMMA TickKeeps ==
  ASSUME SchedulerAssumption, SchedulerInv, NEW i \in Loops, NEW s \in 0 .. MaxTime,
         Tick(i, s)
  PROVE  SchedulerInv'
<1> USE DEF SchedulerInv, TypeOK
<1>0. i \in LiveLoops
  BY DEF Tick, LiveLoops
<1>1. \A t \in Tasks : lastFired[t] # Never => lastFired[t] <= s
  BY <1>0 DEF Tick, FiredInv, LoopTypes, FiredTypes, Loop, Never, SchedulerAssumption
<1>2. Due(s) \in SUBSET Tasks
  BY DEF Due
<1>3. RunTypes'
  BY <1>2, DispatchTypes DEF Tick, RunTypes
<1>4. LoopTypes'
  <2>1. [pc |-> "enter", watch |-> 0, second |-> s] \in Loop
    BY LoopRecord DEF SchedulerAssumption
  <2>2. loops' \in [Loops -> Loop] /\ clock' \in 0 .. MaxTime
    BY <2>1 DEF Tick, LoopTypes
  <2> QED BY <2>2 DEF Tick, LoopTypes
<1>5. LiveLoops' = LiveLoops
  BY <1>0 DEF Tick, LiveLoops, LoopTypes
<1>6. LoopsInv'
  BY <1>5 DEF Tick, LoopsInv
<1>7. FiredTypes'
  <2>1. lastFired' \in [Tasks -> 0 .. Never]
    BY DEF Tick, FiredTypes, Never, SchedulerAssumption
  <2>2. ASSUME NEW t \in Tasks PROVE fired'[t] \in [0 .. MaxTime -> Nat]
    <3>1. fired'[t] = IF t \in Due(s) THEN [fired[t] EXCEPT ![s] = @ + 1] ELSE fired[t]
      BY DEF Tick
    <3>2. fired[t] \in [0 .. MaxTime -> Nat]
      BY DEF FiredTypes
    <3> QED BY <3>1, <3>2
  <2>3. fired' = [t \in Tasks |-> fired'[t]]
    BY DEF Tick
  <2> QED BY <2>1, <2>2, <2>3 DEF Tick, FiredTypes
<1>8. FiredInv'
  <2> SUFFICES ASSUME NEW t \in Tasks
               PROVE  /\ \A u \in 0 .. MaxTime :
                           /\ fired'[t][u] <= 1
                           /\ fired'[t][u] # 0 => lastFired'[t] # Never /\ u <= lastFired'[t]
                      /\ lastFired'[t] # Never =>
                           /\ lastFired'[t] <= clock'
                           /\ \A j \in LiveLoops' : lastFired'[t] <= loops'[j].second
    BY Zenon DEF FiredInv, Never
  <2>1. \A j \in LiveLoops : loops'[j].second = s
    BY <1>0 DEF Tick, LoopsInv, LoopTypes
  <2>2. s <= clock' /\ clock <= clock' /\ s < Never
    BY DEF Tick, LoopTypes, Never, SchedulerAssumption
  <2>3. /\ fired[t] \in [0 .. MaxTime -> Nat] /\ lastFired[t] \in 0 .. Never
        /\ fired'[t] = IF t \in Due(s) THEN [fired[t] EXCEPT ![s] = @ + 1] ELSE fired[t]
        /\ lastFired'[t] = IF t \in Due(s) THEN s ELSE lastFired[t]
    BY DEF Tick, FiredTypes
  <2>4. CASE t \in Due(s)
    <3>1. lastFired[t] # s
      BY <2>4 DEF Due
    <3>2. \A u \in 0 .. MaxTime : fired[t][u] # 0 => u < s
      BY <1>1, <2>3, <3>1 DEF FiredInv, Never, SchedulerAssumption
    <3>3. \A u \in 0 .. MaxTime : fired[t][u] <= 1
      BY DEF FiredInv
    <3> QED BY <1>5, <2>1, <2>2, <2>3, <2>4, <3>2, <3>3 DEF Never, SchedulerAssumption
  <2>5. CASE t \notin Due(s)
    <3>1. fired'[t] = fired[t] /\ lastFired'[t] = lastFired[t]
      BY <2>3, <2>5
    <3>2. lastFired[t] # Never => lastFired[t] <= clock'
      BY <2>2, <2>3 DEF FiredInv, LoopTypes, Never, Tick, SchedulerAssumption
    <3>3. \A u \in 0 .. MaxTime :
            fired[t][u] <= 1 /\ (fired[t][u] # 0 => lastFired[t] # Never /\ u <= lastFired[t])
      BY DEF FiredInv
    <3> QED BY <1>1, <1>5, <2>1, <3>1, <3>2, <3>3
  <2> QED BY <2>4, <2>5
<1> QED BY <1>3, <1>4, <1>6, <1>7, <1>8

LEMMA LoopKeeps ==
  ASSUME SchedulerAssumption, SchedulerInv, NEW i \in Loops, EnterSelect(i) \/ LoopReturns(i)
  PROVE  SchedulerInv'
<1> USE DEF SchedulerInv, TypeOK
<1>1. RunTypes' /\ FiredTypes'
  BY DEF EnterSelect, LoopReturns, taskVars, RunTypes, FiredTypes
<1>2. CASE EnterSelect(i)
  <2>1. [pc |-> "wait", watch |-> channel, second |-> loops[i].second] \in Loop
    <3>1. loops[i].second \in 0 .. MaxTime /\ channel \in 0 .. MaxStarts
      BY DEF LoopTypes, Loop
    <3> QED BY <3>1, LoopRecord
  <2>2. LoopTypes'
    BY <1>2, <2>1 DEF EnterSelect, LoopTypes
  <2>3. LiveLoops' = LiveLoops /\ \A j \in Loops : loops'[j].second = loops[j].second
    BY <1>2 DEF EnterSelect, LiveLoops, LoopTypes
  <2>4. LoopsInv' /\ FiredInv'
    BY <1>2, <2>3 DEF EnterSelect, taskVars, LoopsInv, FiredInv, LiveLoops
  <2> QED BY <1>1, <2>2, <2>4
<1>3. CASE LoopReturns(i)
  <2>1. NoLoop \in Loop
    <3>1. 0 \in 0 .. MaxStarts /\ 0 \in 0 .. MaxTime
      BY DEF SchedulerAssumption
    <3> QED BY <3>1, LoopRecord
  <2>2. LoopTypes'
    BY <1>3, <2>1 DEF LoopReturns, LoopTypes
  <2>3. LiveLoops' \in SUBSET LiveLoops /\ \A j \in LiveLoops' : loops'[j] = loops[j]
    BY <1>3 DEF LoopReturns, LiveLoops, LoopTypes, NoLoop
  <2>4. LoopsInv' /\ FiredInv'
    BY <1>3, <2>3 DEF LoopReturns, taskVars, LoopsInv, FiredInv
  <2> QED BY <1>1, <2>2, <2>4
<1> QED BY <1>2, <1>3

\* Runs and the task operations leave loops and seconds alone.
LEMMA RunsKeep ==
  ASSUME SchedulerAssumption, SchedulerInv,
         \/ \E r \in Runs : RunStep(r)
         \/ \E t \in Tasks : RunTaskNow(t) \/ EnableTask(t) \/ DisableTask(t)
  PROVE  SchedulerInv'
<1> USE DEF SchedulerInv, TypeOK
<1>1. UNCHANGED <<schedule, loopVars, lastFired, fired>>
  BY DEF RunStep, CheckEnabled, CountRun, FinishRun, RunTaskNow, EnableTask, DisableTask
<1>2. LoopTypes' /\ FiredTypes' /\ LoopsInv' /\ FiredInv'
  BY <1>1 DEF loopVars, LoopTypes, FiredTypes, LoopsInv, FiredInv, LiveLoops
<1>3. RunTypes'
  <2>1. ASSUME NEW r \in Runs, RunStep(r) PROVE RunTypes'
    <3>1. runs[r] \in Run
      BY DEF RunTypes
    <3>2. runs' \in [Runs -> Run]
      BY <2>1, <3>1 DEF RunStep, CheckEnabled, CountRun, FinishRun, RunTypes, Run
    <3>3. runCount' \in [Tasks -> Nat] /\ errorCount' \in [Tasks -> Nat]
      BY <2>1, <3>1 DEF RunStep, CheckEnabled, CountRun, FinishRun, ErrorsAfter, RunTypes, Run
    <3> QED BY <2>1, <3>2, <3>3 DEF RunStep, CheckEnabled, CountRun, FinishRun, RunTypes
  <2>2. ASSUME NEW t \in Tasks, RunTaskNow(t) PROVE RunTypes'
    BY <2>2, DispatchTypes DEF RunTaskNow, RunTypes
  <2>3. ASSUME NEW t \in Tasks, EnableTask(t) \/ DisableTask(t) PROVE RunTypes'
    BY <2>3 DEF EnableTask, DisableTask, RunTypes
  <2> QED BY <2>1, <2>2, <2>3
<1> QED BY <1>2, <1>3

----------------------------------------------------------------------------
LEMMA NextKeeps ==
  ASSUME SchedulerAssumption, SchedulerInv, NEW owner, Callers = {owner}, [Next]_vars
  PROVE  SchedulerInv'
<1>1. CASE UNCHANGED vars
  BY <1>1 DEF vars, loopVars, taskVars, SchedulerInv, TypeOK, LoopTypes, RunTypes, FiredTypes,
              LoopsInv, FiredInv, LiveLoops
<1>2. CASE BeginStart(owner) \/ EndStart(owner) \/ BeginStop(owner) \/ EndStop(owner)
  BY <1>2, CallsKeep
<1>3. ASSUME NEW i \in Loops, LoopStep(i) PROVE SchedulerInv'
  BY <1>3, LoopKeeps, TickKeeps DEF LoopStep
<1>4. CASE \/ \E r \in Runs : RunStep(r)
           \/ \E t \in Tasks : RunTaskNow(t) \/ EnableTask(t) \/ DisableTask(t)
  BY <1>4, RunsKeep
<1> QED BY <1>1, <1>2, <1>3, <1>4 DEF Next

LEMMA InvImplies ==
  ASSUME SchedulerInv, NEW owner, Callers = {owner}
  PROVE  OneLoop /\ OncePerSecond
<1>1. OncePerSecond
  BY DEF SchedulerInv, FiredInv, OncePerSecond
<1>2. Cardinality(LiveLoops) <= 1
  <2>1. CASE LiveLoops = {}
    BY <2>1, FS_EmptySet
  <2>2. CASE LiveLoops # {}
    <3>1. PICK i \in LiveLoops : TRUE
      BY <2>2
    <3>2. LiveLoops = {i}
      BY <3>1 DEF SchedulerInv, LoopsInv
    <3>3. Cardinality(LiveLoops) = 1
      BY <3>2, FS_Singleton
    <3> QED BY <3>3
  <2> QED BY <2>1, <2>2
<1>3. (LiveLoops # {}) => running \/ \E c \in Callers : caller[c] = "waiting"
  BY DEF SchedulerInv, TypeOK, LoopTypes, LoopsInv
<1> QED BY <1>1, <1>2, <1>3 DEF OneLoop
-----------------------------------------------------------------------------
(***************************************************************************)
(* The timetable: the searches under the mutex.                            *)
(***************************************************************************)
TimeTypes ==
  /\ zone \in Zones
  /\ nextRun \in [Tasks -> Seconds \cup {ZeroTime, Unregistered}]
  /\ asked \in [Tasks -> 0 .. MaxTime]
  /\ even \in [Tasks -> BOOLEAN]
  /\ search \in [task : Tasks \cup {NoTask}, holder : Loops \cup {"main"},
                 from : 0 .. MaxTime, at : Seconds, todo : SUBSET Tasks]

\* After even turns nothing between the second asked from and the candidate
\* matches.  A jump can take the candidate back before the second asked from; then
\* nothing between the two matches either.
Unmatched(c, z, from, at) ==
  \A u \in Seconds :
    (from < u /\ u < at) \/ (at <= u /\ u <= from) => ~match(c, z, u)

NothingSkipped ==
  ~MutexFree =>
    /\ asked[search.task] = search.from
    /\ even[search.task] => Unmatched(cron[search.task], zone, search.from, search.at)

SearchInv == TimeTypes /\ NothingSkipped /\ NextRunIsEarliest

Assumptions == SchedulerAssumption /\ TimetableAssumption /\ CronAssumption

----------------------------------------------------------------------------
\* What lies between from and next lies between from and at, or at and next.
LEMMA Between ==
  ASSUME NEW from \in Int, NEW at \in Int, NEW next \in Int, NEW u \in Int,
         (from < u /\ u < next) \/ (next <= u /\ u <= from)
  PROVE  \/ (from < u /\ u < at) \/ (at <= u /\ u <= from)
         \/ (at <= u /\ u < next) \/ (next <= u /\ u <= at)
  OBVIOUS

\* A turn stays within the calendar, and an even one passes nothing that matches.
LEMMA TurnStays ==
  ASSUME CronAssumption, NEW z \in Zones, NEW c, NEW t \in Seconds, t < Horizon
  PROVE  Turn(c, z, t).to \in Seconds
<1>1. t + 1 \in Seconds
  BY DEF Seconds, CronAssumption
<1>2. /\ NextMonth[z][t] \in Seconds /\ NextDay[z][t] \in Seconds
      /\ NextHour[z][t] \in Seconds /\ NextMinute[z][t] \in Seconds
  BY DEF CronAssumption
<1> QED BY <1>1, <1>2 DEF Turn

LEMMA TurnPasses ==
  ASSUME CronAssumption, NEW z \in Zones, NEW c, NEW t \in Seconds, t < Horizon,
         ~match(c, z, t), EvenTurn(c, z, t),
         NEW u \in Seconds,
         \/ t <= u /\ u < Turn(c, z, t).to
         \/ Turn(c, z, t).to <= u /\ u <= t
  PROVE  ~match(c, z, u)
<1> DEFINE turn == Turn(c, z, t)
<1>1. turn.to \in Seconds
  BY TurnStays
<1>2. u \in (t .. turn.to - 1) \cup (turn.to .. t)
  BY <1>1 DEF Seconds
<1>3. \A f \in turn.past : Civil[z][u][f] = Civil[z][t][f]
  BY <1>2 DEF EvenTurn
<1>4. CASE Civil[z][t].month \notin c.month
  <2>1. "month" \in turn.past
    BY <1>4 DEF Turn
  <2>2. Civil[z][u].month = Civil[z][t].month
    BY <1>3, <2>1
  <2> QED BY <1>4, <2>2 DEF match
<1>5. CASE Civil[z][t].month \in c.month /\ ~dayMatch(c, Civil[z][t])
  <2>1. "dom" \in turn.past /\ "dow" \in turn.past
    BY <1>5 DEF Turn
  <2>2. Civil[z][u].dom = Civil[z][t].dom /\ Civil[z][u].dow = Civil[z][t].dow
    BY <1>3, <2>1
  <2> QED BY <1>5, <2>2 DEF match, dayMatch
<1>6. CASE /\ Civil[z][t].month \in c.month /\ dayMatch(c, Civil[z][t])
           /\ Civil[z][t].hour \notin c.hour
  <2>1. "hour" \in turn.past
    BY <1>6 DEF Turn
  <2>2. Civil[z][u].hour = Civil[z][t].hour
    BY <1>3, <2>1
  <2> QED BY <1>6, <2>2 DEF match
<1>7. CASE /\ Civil[z][t].month \in c.month /\ dayMatch(c, Civil[z][t])
           /\ Civil[z][t].hour \in c.hour /\ Civil[z][t].minute \notin c.minute
  <2>1. "minute" \in turn.past
    BY <1>7 DEF Turn
  <2>2. Civil[z][u].minute = Civil[z][t].minute
    BY <1>3, <2>1
  <2> QED BY <1>7, <2>2 DEF match
<1>8. CASE /\ Civil[z][t].month \in c.month /\ dayMatch(c, Civil[z][t])
           /\ Civil[z][t].hour \in c.hour /\ Civil[z][t].minute \in c.minute
  <2>1. turn.to = t + 1
    BY <1>8 DEF Turn
  <2>2. t \in Int /\ u \in Int
    BY DEF Seconds
  <2>3. u = t
    BY <2>1, <2>2
  <2> QED BY <2>3
<1> QED BY <1>4, <1>5, <1>6, <1>7, <1>8

\* A search begins with nothing passed.
LEMMA SearchBegins ==
  ASSUME Assumptions, TimeTypes, NEW t \in Tasks, NEW holder \in Loops \cup {"main"},
         NEW from \in 0 .. MaxTime, NEW todo \in SUBSET Tasks,
         BeginSearch(t, holder, from, todo), UNCHANGED <<zone, cron>>
  PROVE  /\ asked' \in [Tasks -> 0 .. MaxTime] /\ even' \in [Tasks -> BOOLEAN]
         /\ \A u \in Tasks : u # search'.task => asked'[u] = asked[u] /\ even'[u] = even[u]
         /\ search' \in [task : Tasks \cup {NoTask}, holder : Loops \cup {"main"},
                         from : 0 .. MaxTime, at : Seconds, todo : SUBSET Tasks]
         /\ search'.task = t
         /\ NothingSkipped'
<1> USE DEF BeginSearch, FirstCandidate
<1>1. from \in Nat /\ from + 1 \in Seconds
  BY DEF Assumptions, SchedulerAssumption, TimetableAssumption, CronAssumption, Seconds
<1>2. /\ asked' \in [Tasks -> 0 .. MaxTime] /\ asked'[t] = from
      /\ even' \in [Tasks -> BOOLEAN]
  BY DEF TimeTypes
<1>3. \A u \in Seconds : ~(from < u /\ u < from + 1) /\ ~(from + 1 <= u /\ u <= from)
  BY <1>1 DEF Seconds
<1>4. search'.task = t /\ search'.from = from /\ search'.at = from + 1
  OBVIOUS
<1>5. NothingSkipped'
  BY <1>2, <1>3, <1>4 DEF NothingSkipped, Unmatched
<1>6. \A u \in Tasks : u # search'.task => asked'[u] = asked[u] /\ even'[u] = even[u]
  BY <1>4 DEF TimeTypes
<1> QED BY <1>1, <1>2, <1>4, <1>5, <1>6 DEF TimeTypes

----------------------------------------------------------------------------
LEMMA InitSearches ==
  ASSUME Assumptions, TimetableInit
  PROVE  SearchInv
<1>1. 0 \in 0 .. MaxTime /\ 0 \in Seconds
  BY DEF Assumptions, SchedulerAssumption, CronAssumption, Seconds
<1>2. TimeTypes
  BY <1>1 DEF TimetableInit, TimeTypes, NoSearch
<1>3. NothingSkipped /\ NextRunIsEarliest
  BY DEF TimetableInit, NothingSkipped, MutexFree, NoSearch, NextRunIsEarliest, Registered
<1> QED BY <1>2, <1>3 DEF SearchInv

LEMMA BeginKeeps ==
  ASSUME Assumptions, SearchInv, MutexFree,
         NEW t \in Tasks, NEW holder \in Loops \cup {"main"},
         NEW from \in 0 .. MaxTime, NEW todo \in SUBSET Tasks,
         BeginSearch(t, holder, from, todo), UNCHANGED <<zone, cron, nextRun>>
  PROVE  SearchInv'
<1>1. TimeTypes' /\ NothingSkipped'
  BY SearchBegins DEF SearchInv, TimeTypes
<1>2. \A u \in Tasks : u # search'.task => asked'[u] = asked[u] /\ even'[u] = even[u]
  BY SearchBegins DEF SearchInv
<1>3. NoTask \notin Tasks
  BY DEF Assumptions, TimetableAssumption
<1>4. NextRunIsEarliest'
  BY <1>2, <1>3 DEF SearchInv, NextRunIsEarliest, Registered, MutexFree, Found, Earliest, TooFar
<1> QED BY <1>1, <1>4 DEF SearchInv

LEMMA SearchOnKeeps ==
  ASSUME Assumptions, SearchInv, SearchOn
  PROVE  SearchInv'
<1> DEFINE t == search.task  at == search.at
<1>1. t \in Tasks /\ at \in Seconds /\ search.from \in 0 .. MaxTime /\ zone \in Zones
  BY DEF SearchInv, TimeTypes, SearchOn, MutexFree
<1>2. at < Horizon /\ ~match(cron[t], zone, at)
  <2>1. ~TooFar(zone, search.from, at) /\ ~match(cron[t], zone, at)
    BY DEF SearchOn, Ends
  <2>2. TooFar(zone, search.from, Horizon)
    BY <1>1 DEF Assumptions, TimetableAssumption
  <2>3. at # Horizon
    BY <2>1, <2>2
  <2>4. at \in Seconds /\ Horizon \in Nat
    BY <1>1 DEF Assumptions, CronAssumption
  <2>5. at < Horizon
    BY <2>3, <2>4 DEF Seconds
  <2> QED BY <2>1, <2>5
<1> DEFINE next == Turn(cron[t], zone, at).to
<1>3. next \in Seconds
  BY <1>1, <1>2, TurnStays DEF Assumptions
<1>4. /\ search' = [search EXCEPT !.at = next] /\ UNCHANGED <<zone, cron, nextRun, asked>>
      /\ even' = [even EXCEPT ![t] = even[t] /\ EvenTurn(cron[t], zone, at)]
  BY DEF SearchOn
<1>5. TimeTypes'
  BY <1>3, <1>4 DEF SearchInv, TimeTypes
<1>6. search'.task = t /\ search'.from = search.from /\ search'.at = next
  BY <1>4 DEF SearchInv, TimeTypes
<1>7. NothingSkipped'
  <2>1. asked'[search'.task] = search'.from
    BY <1>4, <1>6 DEF SearchInv, NothingSkipped, SearchOn
  <2>2. ASSUME even'[t], NEW u \in Seconds,
               (search.from < u /\ u < next) \/ (next <= u /\ u <= search.from)
        PROVE  ~match(cron[t], zone, u)
    <3>0. even[t] /\ EvenTurn(cron[t], zone, at)
      BY <1>1, <1>4, <2>2 DEF SearchInv, TimeTypes
    <3>1. (search.from < u /\ u < at) \/ (at <= u /\ u <= search.from) => ~match(cron[t], zone, u)
      BY <3>0 DEF SearchInv, NothingSkipped, Unmatched, SearchOn
    <3>2. (at <= u /\ u < next) \/ (next <= u /\ u <= at) => ~match(cron[t], zone, u)
      BY <1>1, <1>2, <3>0, TurnPasses DEF Assumptions
    <3>3. u \in Int /\ at \in Int /\ next \in Int /\ search.from \in Int
      BY <1>1, <1>3 DEF Seconds
    <3>4. \/ (search.from < u /\ u < at) \/ (at <= u /\ u <= search.from)
          \/ (at <= u /\ u < next) \/ (next <= u /\ u <= at)
      BY <2>2, <3>3, Between
    <3> QED BY <3>1, <3>2, <3>4, Zenon
  <2> QED BY <1>4, <1>6, <2>1, <2>2 DEF NothingSkipped, Unmatched, match, dayMatch
<1>8. NextRunIsEarliest'
  <2>1. \A u \in Tasks : u # t => even'[u] = even[u]
    BY <1>1, <1>4 DEF SearchInv, TimeTypes
  <2> QED BY <1>4, <1>6, <2>1
          DEF SearchInv, NextRunIsEarliest, Registered, Found, Earliest, TooFar, match, dayMatch
<1> QED BY <1>5, <1>7, <1>8 DEF SearchInv

LEMMA EndKeeps ==
  ASSUME Assumptions, SearchInv, EndSearch
  PROVE  SearchInv'
<1> DEFINE t == search.task  at == search.at
<1>1. /\ t \in Tasks /\ at \in Seconds /\ search.from \in 0 .. MaxTime /\ zone \in Zones
      /\ search.holder \in Loops \cup {"main"} /\ search.todo \in SUBSET Tasks
  BY DEF SearchInv, TimeTypes, EndSearch, MutexFree
<1>2. UNCHANGED <<zone, cron>>
  BY DEF EndSearch
<1> DEFINE found == IF TooFar(zone, search.from, at) THEN ZeroTime ELSE at
<1>3. nextRun' = [nextRun EXCEPT ![t] = found]
  BY DEF EndSearch
<1>4. nextRun' \in [Tasks -> Seconds \cup {ZeroTime, Unregistered}]
  BY <1>1, <1>3 DEF SearchInv, TimeTypes
<1>5. /\ NothingSkipped' /\ TimeTypes'
      /\ \A u \in Tasks : u # search'.task => asked'[u] = asked[u] /\ even'[u] = even[u]
  <2>1. CASE search.todo # {}
    <3>1. PICK u \in search.todo :
            BeginSearch(u, search.holder, search.from, search.todo \ {u})
      BY <2>1 DEF EndSearch
    <3>2. u \in Tasks /\ search.todo \ {u} \in SUBSET Tasks
      BY <1>1
    <3> QED BY <1>1, <1>2, <1>4, <3>1, <3>2, SearchBegins DEF SearchInv, TimeTypes
  <2>2. CASE search.todo = {}
    <3>1. search' = NoSearch /\ UNCHANGED <<asked, even>>
      BY <2>2 DEF EndSearch
    <3>2. 0 \in 0 .. MaxTime /\ 0 \in Seconds
      BY DEF Assumptions, SchedulerAssumption, CronAssumption, Seconds
    <3>3. TimeTypes'
      BY <1>2, <1>4, <3>1, <3>2 DEF SearchInv, TimeTypes, NoSearch
    <3>4. NothingSkipped'
      BY <3>1 DEF NothingSkipped, MutexFree, NoSearch
    <3> QED BY <3>1, <3>3, <3>4
  <2> QED BY <2>1, <2>2
<1>6. NextRunIsEarliest'
  <2> SUFFICES ASSUME NEW u \in Registered' \ {search'.task}
               PROVE  /\ Found(u)' => match(cron[u], zone, nextRun'[u])
                      /\ even'[u] => Earliest(u)'
    BY <1>2 DEF NextRunIsEarliest, match, dayMatch
  <2>1. u \in Tasks /\ asked'[u] = asked[u] /\ even'[u] = even[u]
    BY <1>5 DEF Registered
  <2>2. CASE u # t
    <3>1. nextRun'[u] = nextRun[u]
      BY <1>3, <2>1, <2>2 DEF SearchInv, TimeTypes
    <3>2. u \in Registered \ {search.task}
      BY <2>1, <2>2, <3>1 DEF Registered
    <3> QED BY <1>2, <2>1, <3>1, <3>2
            DEF SearchInv, NextRunIsEarliest, Found, Earliest, TooFar, match, dayMatch
  <2>3. CASE u = t
    <3>1. asked'[u] = search.from /\ nextRun'[u] = found /\ even'[u] = even[t]
      BY <1>1, <1>3, <2>1, <2>3 DEF SearchInv, TimeTypes, NothingSkipped, EndSearch
    <3>2. /\ search.from \in Nat /\ search.from + 1 \in Seconds
          /\ Horizon \in Nat /\ MaxYears \in Nat /\ at \in 0 .. Horizon
      BY <1>1 DEF Assumptions, SchedulerAssumption, TimetableAssumption, CronAssumption, Seconds
    <3>3. ASSUME even[t], NEW v \in Seconds,
                 (search.from < v /\ v < at) \/ (at <= v /\ v <= search.from)
          PROVE  ~match(cron[u], zone, v)
      BY <2>3, <3>3 DEF SearchInv, NothingSkipped, Unmatched, EndSearch
    <3>4. CASE TooFar(zone, search.from, at)
      <4>1. found = ZeroTime /\ ~Found(u)'
        BY <3>1, <3>4 DEF Found
      <4>2. ASSUME even[t], NEW v \in search.from + 1 .. Horizon, match(cron[u], zone, v)
            PROVE  \E w \in 0 .. v : TooFar(zone, search.from, w)
        <5>1. v \in Seconds /\ search.from < v /\ v \in Int /\ at \in Int
          BY <3>2, <4>2 DEF Seconds
        <5>2. ~(v < at)
          BY <3>3, <4>2, <5>1, Zenon
        <5>3. at \in 0 .. v
          BY <3>2, <5>1, <5>2
        <5> QED BY <3>4, <5>3
      <4> QED BY <1>2, <3>1, <4>1, <4>2 DEF Earliest, match, dayMatch, TooFar
    <3>5. CASE ~TooFar(zone, search.from, at)
      <4>1. match(cron[u], zone, at)
        BY <2>3, <3>5 DEF EndSearch, Ends
      <4>2. found = at /\ found # ZeroTime /\ Found(u)'
        BY <3>1, <3>2, <3>5 DEF ZeroTime, Found
      <4>3. even[t] => at > search.from
        <5>1. even[t] => ~(at <= search.from)
          <6>1. at <= at
            BY <3>2
          <6> QED BY <1>1, <3>3, <4>1, <6>1, Zenon
        <5> QED BY <3>2, <5>1
      <4>4. ASSUME even[t], NEW v \in search.from + 1 .. at - 1
            PROVE  ~match(cron[u], zone, v)
        <5>1. v \in Seconds /\ search.from < v /\ v < at
          BY <3>2 DEF Seconds
        <5> QED BY <3>3, <4>4, <5>1, Zenon
      <4>5. even'[u] => Earliest(u)'
        BY <1>2, <3>1, <4>2, <4>3, <4>4 DEF Earliest, match, dayMatch, TooFar
      <4> QED BY <3>1, <4>1, <4>2, <4>5
    <3> QED BY <3>4, <3>5
  <2> QED BY <2>2, <2>3
<1> QED BY <1>5, <1>6 DEF SearchInv

----------------------------------------------------------------------------
\* The scheduler's own state: a search ends in a tick, and a registration only
\* lets time pass.
LEMMA ClockKeeps ==
  ASSUME SchedulerInv, clock' \in 0 .. MaxTime, clock' >= clock, SchedulerAssumption,
         UNCHANGED <<schedule, running, channel, closed, loops, caller, taskVars>>
  PROVE  SchedulerInv'
<1>1. TypeOK'
  BY DEF SchedulerInv, TypeOK, LoopTypes, RunTypes, FiredTypes, taskVars
<1>2. LoopsInv'
  BY DEF SchedulerInv, LoopsInv, LiveLoops
<1>3. FiredInv'
  <2>1. \A t \in Tasks : lastFired[t] \in Nat
    BY DEF SchedulerInv, TypeOK, FiredTypes, Never, SchedulerAssumption
  <2>2. clock \in Nat /\ clock' \in Nat
    BY DEF SchedulerInv, TypeOK, LoopTypes, SchedulerAssumption
  <2> QED BY <2>1, <2>2 DEF SchedulerInv, FiredInv, LiveLoops, taskVars
<1> QED BY <1>1, <1>2, <1>3 DEF SchedulerInv

LEMMA StepKeeps ==
  ASSUME Assumptions, SchedulerInv /\ SearchInv, NEW owner, Callers = {owner}, TimetableNext
  PROVE  (SchedulerInv /\ SearchInv)'
<1>0. SchedulerAssumption
  BY DEF Assumptions
<1>1. ASSUME NEW t \in Tasks, NEW now \in 0 .. MaxTime, RegisterTask(t, now)
      PROVE  (SchedulerInv /\ SearchInv)'
  <2>1. SchedulerInv'
    BY <1>0, <1>1, ClockKeeps DEF RegisterTask
  <2>2. SearchInv'
    BY <1>1, BeginKeeps DEF RegisterTask
  <2> QED BY <2>1, <2>2
<1>2. ASSUME UNCHANGED timeVars PROVE SearchInv'
  BY <1>2 DEF timeVars, SearchInv, TimeTypes, NothingSkipped, MutexFree, NextRunIsEarliest,
              Unmatched, Registered, Found, Earliest, match, dayMatch, TooFar
<1>3. ASSUME UNCHANGED vars PROVE SchedulerInv'
  BY <1>0, <1>3, NextKeeps
<1>4. ASSUME NEW t \in Tasks, RegistrationFails(t) PROVE (SchedulerInv /\ SearchInv)'
  BY <1>2, <1>3, <1>4 DEF RegistrationFails, everything
<1>5. CASE SearchOn
  BY <1>3, <1>5, SearchOnKeeps DEF SearchOn
<1>6. CASE EndSearch
  <2>1. SearchInv'
    BY <1>6, EndKeeps
  <2>2. CASE UNCHANGED vars
    BY <1>3, <2>1, <2>2
  <2>3. CASE Tick(search.holder, search.from) /\ search.holder # "main"
    <3>1. search.holder \in Loops /\ search.from \in 0 .. MaxTime
      BY <2>3 DEF SearchInv, TimeTypes
    <3> QED BY <1>0, <2>1, <2>3, <3>1, TickKeeps
  <2> QED BY <1>6, <2>2, <2>3 DEF EndSearch
<1>7. ASSUME NEW i \in Loops, NEW s \in 0 .. MaxTime, BeginTick(i, s)
      PROVE  (SchedulerInv /\ SearchInv)'
  <2>1. PICK t \in Due(s) : BeginSearch(t, i, s, Due(s) \ {t})
    BY <1>7 DEF BeginTick
  <2>2. t \in Tasks /\ Due(s) \ {t} \in SUBSET Tasks
    BY <2>1 DEF Due
  <2>3. SearchInv'
    BY <1>7, <2>1, <2>2, BeginKeeps DEF BeginTick
  <2> QED BY <1>3, <1>7, <2>3 DEF BeginTick
<1>8. ASSUME NEW i \in Loops, NEW s \in 0 .. MaxTime, IdleTick(i, s)
      PROVE  (SchedulerInv /\ SearchInv)'
  BY <1>0, <1>2, <1>8, TickKeeps DEF IdleTick
<1>9. CASE UnderMutex \/ WithoutMutex
  <2>1. UNCHANGED timeVars
    BY <1>9 DEF UnderMutex, WithoutMutex
  <2>2. Next
    BY <1>9 DEF UnderMutex, WithoutMutex, Next, RunStep, LoopStep, Registered
  <2> QED BY <1>0, <1>2, <2>1, <2>2, NextKeeps
<1> QED BY <1>1, <1>4, <1>5, <1>6, <1>7, <1>8, <1>9 DEF TimetableNext

LEMMA TimetableInvariant ==
  ASSUME Assumptions, NEW owner, Callers = {owner}
  PROVE  TimetableSpec => [](SchedulerInv /\ SearchInv)
<1>1. TimetableInit => SchedulerInv /\ SearchInv
  BY InitKeeps, InitSearches DEF TimetableInit, Assumptions
<1>2. SchedulerInv /\ SearchInv /\ [TimetableNext]_everything => (SchedulerInv /\ SearchInv)'
  <2>1. ASSUME SchedulerInv, SearchInv, UNCHANGED everything PROVE (SchedulerInv /\ SearchInv)'
    <3>1. SchedulerInv'
      BY <2>1, NextKeeps DEF everything, Assumptions
    <3>2. SearchInv'
      BY <2>1 DEF everything, timeVars, SearchInv, TimeTypes, NothingSkipped, MutexFree,
                  Unmatched, NextRunIsEarliest, Registered, Found, Earliest, match, dayMatch,
                  TooFar
    <3> QED BY <3>1, <3>2
  <2> QED BY <2>1, StepKeeps
<1> QED BY <1>1, <1>2, PTL DEF TimetableSpec

----------------------------------------------------------------------------
\* Every stored NextRun matches, in any calendar, and it is the earliest match if
\* no turn of its search was uneven (cron.go:171-203).
THEOREM NextRunsAreEarliest ==
  ASSUME Assumptions, NEW owner, Callers = {owner}
  PROVE  TimetableSpec => []NextRunIsEarliest
<1>1. SearchInv => NextRunIsEarliest
  BY DEF SearchInv
<1> QED BY <1>1, TimetableInvariant, PTL

\* One caller that starts and stops gets one loop at a time (scheduler.go:54-81).
THEOREM OneLoopAtATime ==
  ASSUME Assumptions, NEW owner, Callers = {owner}
  PROVE  TimetableSpec => []OneLoop
<1>1. SchedulerInv => OneLoop
  BY InvImplies
<1> QED BY <1>1, TimetableInvariant, PTL

\* No task is dispatched twice for one second (scheduler.go:107-113).
THEOREM DispatchedOncePerSecond ==
  ASSUME Assumptions, NEW owner, Callers = {owner}
  PROVE  TimetableSpec => []OncePerSecond
<1>1. SchedulerInv => OncePerSecond
  BY InvImplies
<1> QED BY <1>1, TimetableInvariant, PTL
----------------------------------------------------------------------------
(***************************************************************************)
(* The server process, in module Server and as one of the processes of     *)
(* module Instances.                                                       *)
(***************************************************************************)

\* Where main is tells whether anybody can still come to the database: only a
\* serving or stopping main listens, and past a clean drain no loop and no
\* handler is left.
ServerInv ==
  /\ dbOpen = (main \notin {"connect", "return", "exited"})
  /\ listening => main \in {"serving", "stopping"}
  /\ main = "drain" => LiveLoops = {}
  /\ clean /\ main \in {"close", "return"} => handling = 0 /\ LiveLoops = {}

\* What each process may be doing, and what Main's stage says of the server.
Stages == {"off", "load", "save", "check", "remove", "write", "writing", "up", "serving",
           "removed", "gone"}

StagesInv ==
  /\ process \in [Processes -> Stages]
  /\ \A q \in Queries : process[q] \notin {"write", "writing", "up", "serving"}
  /\ listening => process[Main] = "up"
  /\ process[Main] = "removed" => main = "return"

\* While nobody looked at the PID file during a change: at most one process
\* changes it, and then no server is up; a server that is up is the one it names.
PidFileInv ==
  ~raced =>
    /\ \A p, q \in Changing : p = q
    /\ Changing # {} => \A p \in Processes : process[p] \notin {"up", "serving"}
    /\ \A p \in Processes : process[p] \in {"up", "serving"} => pidFile = p

InstancesInv == SchedulerInv /\ ServerInv /\ StagesInv /\ PidFileInv
\* The loop's own steps start no loop.
LEMMA NoLoopFromNowhere ==
  ASSUME SchedulerInv,
         (\E i \in Loops : LoopStep(i)) \/ (\E r \in Runs : RunStep(r)) \/ UNCHANGED vars
  PROVE  LiveLoops' \subseteq LiveLoops
<1>1. ASSUME NEW i \in Loops, LoopStep(i) PROVE LiveLoops' \subseteq LiveLoops
  BY <1>1 DEF LoopStep, EnterSelect, LoopReturns, Tick, LiveLoops, SchedulerInv, TypeOK, LoopTypes,
              NoLoop
<1>2. ASSUME NEW r \in Runs, RunStep(r) PROVE LiveLoops' \subseteq LiveLoops
  BY <1>2 DEF RunStep, CheckEnabled, CountRun, FinishRun, loopVars, LiveLoops
<1>3. CASE UNCHANGED vars
  BY <1>3 DEF vars, loopVars, LiveLoops
<1> QED BY <1>1, <1>2, <1>3

\* main steps the scheduler as its only caller, and the goroutines step it.
LEMMA ServerStepsScheduler ==
  ASSUME SchedulerInv, ServerNext
  PROVE  SchedulerInv'
<1>1. Callers = {Main} /\ SchedulerAssumption
  BY ServerAssumption, SchedulerAssumption
<1>2. [Next]_vars
  <2>1. CASE StartScheduler \/ StopScheduler \/ CloseListener
    <3>1. BeginStart(Main) \/ EndStart(Main) \/ BeginStop(Main) \/ EndStop(Main)
      BY <2>1 DEF StartScheduler, StopScheduler, CloseListener
    <3> QED BY <1>1, <3>1 DEF Next
  <2>2. CASE Background
    BY <2>2 DEF Background, Next
  <2>3. CASE \/ Connect \/ Listen \/ Drained \/ DrainTimeout \/ CloseDatabase \/ Exit
             \/ ListenFails \/ Signal \/ AcceptRequest \/ AnswerRequest
    BY <2>3 DEF Connect, Listen, Drained, DrainTimeout, CloseDatabase, Exit, ListenFails, Signal,
                AcceptRequest, AnswerRequest
  <2> QED BY <2>1, <2>2, <2>3 DEF ServerNext, MainStep
<1> QED BY <1>1, <1>2, NextKeeps

LEMMA ServerStepKeeps ==
  ASSUME SchedulerInv, ServerInv, ServerNext
  PROVE  ServerInv'
<1> USE DEF ServerInv
<1>1. CASE StartScheduler
  BY <1>1 DEF StartScheduler
<1>2. CASE CloseListener
  <2>1. LiveLoops' = {}
    BY <1>2 DEF CloseListener, EndStop, LoopsJoined, LiveLoops
  <2> QED BY <1>2, <2>1 DEF CloseListener
<1>3. CASE Connect \/ Listen \/ ListenFails \/ Signal \/ Drained \/ DrainTimeout \/ CloseDatabase \/ Exit
  <2>1. LiveLoops' = LiveLoops
    BY <1>3 DEF Connect, Listen, ListenFails, Signal, Drained, DrainTimeout, CloseDatabase, Exit,
                vars, loopVars, LiveLoops
  <2>2. CASE Connect
    BY <2>1, <2>2 DEF Connect
  <2>7. CASE Listen
    BY <2>1, <2>7 DEF Listen
  <2>8. CASE ListenFails
    BY <2>1, <2>8 DEF ListenFails
  <2>9. CASE Signal
    BY <2>1, <2>9 DEF Signal
  <2>3. CASE Drained
    BY <2>1, <2>3 DEF Drained, HandlersDone
  <2>4. CASE DrainTimeout
    BY <2>1, <2>4 DEF DrainTimeout
  <2>5. CASE CloseDatabase
    BY <2>1, <2>5 DEF CloseDatabase
  <2>6. CASE Exit
    BY <2>1, <2>6 DEF Exit
  <2> QED BY <1>3, <2>2, <2>3, <2>4, <2>5, <2>6, <2>7, <2>8, <2>9
<1>4. CASE StopScheduler
  <2>1. LiveLoops' = LiveLoops
    BY <1>4 DEF StopScheduler, BeginStop, LiveLoops
  <2> QED BY <1>4, <2>1 DEF StopScheduler
<1>5. CASE AcceptRequest \/ AnswerRequest
  <2>1. LiveLoops' = LiveLoops
    BY <1>5 DEF AcceptRequest, AnswerRequest, vars, loopVars, LiveLoops
  <2> QED BY <1>5, <2>1 DEF AcceptRequest, AnswerRequest
<1>6. CASE Background
  <2>1. LiveLoops' \subseteq LiveLoops
    BY <1>6, NoLoopFromNowhere DEF Background
  <2>2. UNCHANGED serverVars
    BY <1>6 DEF Background
  <2> QED BY <2>1, <2>2 DEF serverVars
<1> QED BY <1>1, <1>2, <1>3, <1>4, <1>5, <1>6 DEF ServerNext, MainStep

\* A process that changes neither the PID file nor anything a server does.
LEMMA QuietStageKeeps ==
  ASSUME StagesInv, PidFileInv, NEW p \in Processes, NEW stage \in {"off", "load", "save", "check", "gone"},
         Become(p, stage), UNCHANGED <<listening, main, pidFile>>, raced' = raced,
         p # Main \/ process[Main] \in {"load", "save", "check"}
  PROVE  StagesInv' /\ PidFileInv'
<1>1. process' = [process EXCEPT ![p] = stage] /\ process \in [Processes -> Stages]
  BY DEF StagesInv, Become
<1>2. /\ process'[p] = stage /\ \A q \in Processes \ {p} : process'[q] = process[q]
      /\ process' \in [Processes -> Stages] /\ Main \in Processes
      /\ Queries \subseteq Processes
  BY <1>1 DEF Stages, Processes
<1>3. StagesInv'
  <2>1. \A q \in Queries : process'[q] \notin {"write", "writing", "up", "serving"}
    BY <1>2 DEF StagesInv
  <2>2. /\ listening' => process'[Main] = "up"
        /\ process'[Main] = "removed" => main' = "return"
    BY <1>2 DEF StagesInv
  <2> QED BY <1>2, <2>1, <2>2 DEF StagesInv
<1>4. Changing' \subseteq Changing
  BY <1>2 DEF Changing, Processes
<1>5. \A q \in Processes : process'[q] \in {"up", "serving"} => process[q] \in {"up", "serving"}
  BY <1>2
<1>6. PidFileInv'
  BY <1>4, <1>5 DEF PidFileInv, Processes
<1> QED BY <1>3, <1>6
LEMMA StageAfter ==
  ASSUME StagesInv, NEW p \in Processes, NEW stage \in Stages, Become(p, stage)
  PROVE  /\ process' \in [Processes -> Stages] /\ process'[p] = stage
         /\ \A q \in Processes \ {p} : process'[q] = process[q]
         /\ Main \in Processes /\ Queries \subseteq Processes
  BY DEF StagesInv, Become, Processes

\* Who finds no living server named, with nobody at the file, finds no server up:
\* a server that is up is named and alive.
LEMMA CheckKeepsPidFile ==
  ASSUME StagesInv, PidFileInv, NEW p \in Processes, CheckPIDFile(p)
  PROVE  StagesInv' /\ PidFileInv'
<1>1. PICK stage \in {"gone", "write", "remove"} :
        /\ Become(p, stage) /\ (p \in Queries => stage # "write")
        /\ stage # "gone" => ~(pidFile \in {Main} \cup Rivals /\ Alive(pidFile))
  BY DEF CheckPIDFile, AfterCheck, AfterRefusal
<1>2. /\ process' \in [Processes -> Stages] /\ process'[p] = stage
      /\ \A q \in Processes \ {p} : process'[q] = process[q]
      /\ Main \in Processes /\ Queries \subseteq Processes
  BY <1>1, StageAfter DEF Stages
<1>3. /\ process[p] = "check" /\ UNCHANGED <<allVars, pidFile>>
      /\ (~raced' => ~raced /\ Changing = {})
  BY DEF CheckPIDFile
<1>4. UNCHANGED <<listening, main>>
  BY <1>3 DEF allVars, serverVars
<1>5. StagesInv'
  BY <1>1, <1>2, <1>3, <1>4 DEF StagesInv
<1>6. PidFileInv'
  <2> SUFFICES ASSUME ~raced'
               PROVE  /\ \A q, r \in Changing' : q = r
                      /\ Changing' # {} => \A q \in Processes : process'[q] \notin {"up", "serving"}
                      /\ \A q \in Processes : process'[q] \in {"up", "serving"} => pidFile' = q
    BY Zenon DEF PidFileInv
  <2>1. Changing' \subseteq {p} /\ (Changing' # {} => stage # "gone")
    BY <1>2, <1>3 DEF Changing
  <2>2. \A q \in Processes : process'[q] \in {"up", "serving"} =>
                               process[q] \in {"up", "serving"} /\ pidFile = q
    BY <1>1, <1>2, <1>3 DEF PidFileInv
  <2>3. ASSUME stage # "gone", NEW q \in Processes, process[q] \in {"up", "serving"} PROVE FALSE
    <3>1. pidFile = q /\ Alive(q) /\ q \notin Queries
      BY <1>3, <2>3 DEF PidFileInv, Alive, StagesInv
    <3> QED BY <1>1, <2>3, <3>1 DEF Processes
  <2> QED BY <1>3, <2>1, <2>2, <2>3
<1> QED BY <1>5, <1>6

\* Only one process changes the file; it comes up when the file names it, and no
\* server is up before.
LEMMA ChangeKeepsPidFile ==
  ASSUME StagesInv, PidFileInv, NEW p \in Processes,
         RemoveStale(p) \/ EmptyPIDFile(p) \/ FillPIDFile(p)
  PROVE  StagesInv' /\ PidFileInv'
<1>1. PICK stage \in {"gone", "write", "writing", "up"} :
        /\ Become(p, stage) /\ (p \in Queries => stage = "gone")
        /\ stage = "up" => pidFile' = p
  BY DEF RemoveStale, EmptyPIDFile, FillPIDFile, AfterCheck, StagesInv
<1>2. /\ process' \in [Processes -> Stages] /\ process'[p] = stage
      /\ \A q \in Processes \ {p} : process'[q] = process[q]
      /\ Main \in Processes /\ Queries \subseteq Processes
  BY <1>1, StageAfter DEF Stages
<1>3. p \in Changing /\ UNCHANGED <<allVars, raced>>
  BY DEF RemoveStale, EmptyPIDFile, FillPIDFile, Changing
<1>4. UNCHANGED <<listening, main>>
  BY <1>3 DEF allVars, serverVars
<1>5. process[p] # "up" /\ process[p] # "removed"
  BY <1>3 DEF Changing
<1>6. StagesInv'
  BY <1>1, <1>2, <1>4, <1>5 DEF StagesInv
<1>7. PidFileInv'
  <2> SUFFICES ASSUME ~raced'
               PROVE  /\ \A q, r \in Changing' : q = r
                      /\ Changing' # {} => \A q \in Processes : process'[q] \notin {"up", "serving"}
                      /\ \A q \in Processes : process'[q] \in {"up", "serving"} => pidFile' = q
    BY Zenon DEF PidFileInv
  <2>1. /\ Changing = {p} /\ \A q \in Processes : process[q] \notin {"up", "serving"}
    BY <1>3 DEF PidFileInv
  <2>2. Changing' \subseteq {p} /\ (Changing' # {} => stage # "up")
    BY <1>2, <2>1 DEF Changing
  <2>3. \A q \in Processes : process'[q] \in {"up", "serving"} => q = p /\ stage = "up"
    BY <1>2, <2>1
  <2> QED BY <1>1, <1>2, <2>2, <2>3
<1> QED BY <1>6, <1>7

\* A server that ends takes the file with it; a rival that listens is up already.
LEMMA ServerEndsKeeps ==
  ASSUME ServerInv, StagesInv, PidFileInv, NEW p \in Processes,
         RemovePIDFile(p) \/ RivalEnds(p) \/ RivalListens(p)
  PROVE  StagesInv' /\ PidFileInv'
<1>1. PICK stage \in {"gone", "removed", "serving"} :
        /\ Become(p, stage) /\ (stage = "serving" => p \in Rivals /\ UNCHANGED pidFile)
        /\ stage = "removed" => p = Main /\ main = "return"
        /\ p = Main => main = "return" \/ process[Main] = "serving"
  BY InstancesAssumption DEF RemovePIDFile, RivalEnds, RivalListens, Processes
<1>2. /\ process' \in [Processes -> Stages] /\ process'[p] = stage
      /\ \A q \in Processes \ {p} : process'[q] = process[q]
      /\ Main \in Processes /\ Queries \subseteq Processes
  BY <1>1, StageAfter DEF Stages
<1>3. process[p] \in {"up", "serving"} /\ UNCHANGED <<allVars, raced>>
  BY DEF RemovePIDFile, RivalEnds, RivalListens
<1>4. UNCHANGED <<listening, main>>
  BY <1>3 DEF allVars, serverVars
<1>5. StagesInv'
  <2>1. \A q \in Queries : process'[q] \notin {"write", "writing", "up", "serving"}
    BY <1>1, <1>2, InstancesAssumption DEF StagesInv
  <2>2. listening' => process'[Main] = "up"
    BY <1>1, <1>2, <1>4, InstancesAssumption DEF StagesInv, ServerInv
  <2>3. process'[Main] = "removed" => main' = "return"
    BY <1>1, <1>2, <1>4 DEF StagesInv
  <2> QED BY <1>2, <2>1, <2>2, <2>3 DEF StagesInv
<1>6. PidFileInv'
  <2>1. Changing' = Changing
    BY <1>1, <1>2, <1>3 DEF Changing
  <2>2. ~raced => /\ Changing = {} /\ \A q \in Processes : process[q] \in {"up", "serving"} => q = p
    BY <1>3 DEF PidFileInv
  <2>3. ASSUME ~raced, NEW q \in Processes, process'[q] \in {"up", "serving"} PROVE pidFile' = q
    <3>1. q = p /\ stage = "serving"
      BY <1>1, <1>2, <2>2, <2>3
    <3> QED BY <1>1, <1>3, <2>3, <3>1 DEF PidFileInv
  <2> QED BY <1>3, <2>1, <2>2, <2>3 DEF PidFileInv, Processes
<1> QED BY <1>5, <1>6

\* main runs only while its process is up, and is gone after it has removed the
\* PID file.
LEMMA ServerRunsKeeps ==
  ASSUME SchedulerInv, ServerInv, StagesInv, PidFileInv, ServerRuns
  PROVE  StagesInv' /\ PidFileInv'
<1>1. ServerInv'
  BY ServerStepKeeps DEF ServerRuns
<1>2. UNCHANGED <<pidFile, raced>> /\ Main \in Processes /\ Queries \subseteq Processes
  BY DEF ServerRuns, Processes
<1>3. CASE main' = "exited" /\ main = "return"
  <2>1. Become(Main, "gone") /\ process[Main] = "removed"
    BY <1>3 DEF ServerRuns
  <2>2. /\ process' \in [Processes -> Stages] /\ process'[Main] = "gone"
        /\ \A q \in Processes \ {Main} : process'[q] = process[q]
    BY <1>2, <2>1, StageAfter DEF Stages
  <2>3. StagesInv'
    BY <1>1, <1>2, <1>3, <2>2 DEF StagesInv, ServerInv
  <2>4. Changing' = Changing
    BY <2>1, <2>2 DEF Changing
  <2>5. \A q \in Processes : process'[q] \in {"up", "serving"} => process[q] = process'[q]
    BY <2>2
  <2> QED BY <1>2, <2>3, <2>4, <2>5 DEF PidFileInv, Processes
<1>4. CASE ~(main' = "exited" /\ main = "return")
  <2>1. UNCHANGED process
    BY <1>4 DEF ServerRuns
  <2>2. process[Main] = "removed" => main' = "return"
    BY <1>4 DEF ServerRuns, StagesInv, ServerNext, MainStep, Connect, StartScheduler, Listen,
                StopScheduler, CloseListener, Drained, DrainTimeout, CloseDatabase, Exit,
                ListenFails, Signal, AcceptRequest, AnswerRequest, Background, serverVars
  <2>3. listening' => process[Main] = "up"
    BY <1>1, <2>2 DEF ServerInv, ServerRuns
  <2>4. StagesInv'
    BY <2>1, <2>2, <2>3 DEF StagesInv
  <2> QED BY <1>2, <2>1, <2>4 DEF PidFileInv, Processes, Changing
<1> QED BY <1>3, <1>4
LEMMA InstancesStepKeeps ==
  ASSUME InstancesInv, [InstancesNext]_machineVars
  PROVE  InstancesInv'
<1> USE DEF InstancesInv
<1>1. CASE ServerRuns
  <2>1. ServerNext
    BY <1>1 DEF ServerRuns
  <2> QED BY <1>1, <2>1, ServerStepsScheduler, ServerStepKeeps, ServerRunsKeeps
<1>2. ASSUME UNCHANGED allVars PROVE SchedulerInv' /\ ServerInv'
  <2>1. UNCHANGED vars /\ UNCHANGED serverVars
    BY <1>2 DEF allVars
  <2>2. SchedulerInv'
    BY <2>1, NextKeeps, ServerAssumption, SchedulerAssumption
  <2>3. LiveLoops' = LiveLoops
    BY <2>1 DEF vars, loopVars, LiveLoops
  <2> QED BY <2>1, <2>2, <2>3 DEF serverVars, ServerInv
<1>3. ASSUME NEW p \in Processes, StartupStep(p) PROVE InstancesInv'
  <2>1. UNCHANGED allVars
    BY <1>3 DEF StartupStep, Load, SaveDefaults, CheckPIDFile, RemoveStale, EmptyPIDFile,
                FillPIDFile, RemovePIDFile
  <2>2. CASE Load(p) \/ SaveDefaults(p)
    <3>1. PICK stage \in {"save", "gone", "check"} :
            Become(p, stage) /\ process[p] \in {"load", "save"} /\ UNCHANGED <<pidFile, raced>>
      BY <2>2 DEF Load, SaveDefaults
    <3>2. UNCHANGED <<listening, main, pidFile>> /\ raced' = raced
      BY <2>1, <3>1 DEF allVars, serverVars
    <3>3. p # Main \/ process[Main] \in {"load", "save", "check"}
      BY <3>1
    <3> QED BY <1>2, <2>1, <3>1, <3>2, <3>3, QuietStageKeeps
  <2>3. CASE CheckPIDFile(p)
    BY <1>2, <2>1, <2>3, CheckKeepsPidFile
  <2>4. CASE RemoveStale(p) \/ EmptyPIDFile(p) \/ FillPIDFile(p)
    BY <1>2, <2>1, <2>4, ChangeKeepsPidFile
  <2>5. CASE RemovePIDFile(p)
    BY <1>2, <2>1, <2>5, ServerEndsKeeps
  <2> QED BY <1>3, <2>2, <2>3, <2>4, <2>5 DEF StartupStep
<1>4. ASSUME NEW p \in Rivals \cup Queries, Start(p) \/ RivalListens(p) \/ RivalEnds(p) \/ Kill(p)
      PROVE  InstancesInv'
  <2>1. UNCHANGED allVars /\ p \in Processes /\ p # Main
    BY <1>4, InstancesAssumption DEF Start, RivalListens, RivalEnds, Kill, Processes
  <2>2. CASE Start(p) \/ Kill(p)
    <3>1. PICK stage \in {"load", "gone"} : Become(p, stage) /\ UNCHANGED <<pidFile, raced>>
      BY <2>2 DEF Start, Kill
    <3>2. UNCHANGED <<listening, main, pidFile>> /\ raced' = raced
      BY <2>1, <3>1 DEF allVars, serverVars
    <3> QED BY <1>2, <2>1, <3>1, <3>2, QuietStageKeeps
  <2>3. CASE RivalListens(p) \/ RivalEnds(p)
    BY <1>2, <2>1, <2>3, ServerEndsKeeps
  <2> QED BY <1>4, <2>2, <2>3
<1>5. CASE UNCHANGED machineVars
  <2>1. UNCHANGED allVars /\ UNCHANGED instanceVars
    BY <1>5 DEF machineVars
  <2>2. UNCHANGED <<listening, main>>
    BY <2>1 DEF allVars, serverVars
  <2>3. StagesInv' /\ PidFileInv'
    BY <2>1, <2>2 DEF instanceVars, StagesInv, PidFileInv, Changing, Processes
  <2> QED BY <1>2, <2>1, <2>3
<1> QED BY <1>1, <1>3, <1>4, <1>5 DEF InstancesNext

LEMMA InstancesInitKeeps ==
  ASSUME InstancesInit
  PROVE  InstancesInv
<1>1. SchedulerInv
  BY InitKeeps, SchedulerAssumption DEF InstancesInit, ServerInit
<1>2. ServerInv
  BY DEF InstancesInit, ServerInit, ServerInv
<1>3. StagesInv
  BY InstancesAssumption DEF InstancesInit, ServerInit, StagesInv, Stages, Processes
<1>4. Changing = {} /\ \A p \in Processes : process[p] \notin {"up", "serving"}
  BY DEF InstancesInit, Changing
<1> QED BY <1>1, <1>2, <1>3, <1>4 DEF InstancesInv, PidFileInv

LEMMA InstancesInvariant == InstancesSpec => []InstancesInv
  BY InstancesInitKeeps, InstancesStepKeeps, PTL DEF InstancesSpec

\* Whatever requests, runs, signals and listen errors come when, and whatever the
\* other processes do: a clean shutdown closes the database when no handler and no
\* loop is left (main.go, server.go Shutdown).
THEOREM DatabaseClosedLast == InstancesSpec => []ClosedWhenQuiet
<1>1. InstancesInv => ClosedWhenQuiet
  BY DEF InstancesInv, ServerInv, ClosedWhenQuiet
<1> QED BY <1>1, InstancesInvariant, PTL

\* For any number of servers and status queries that start, are refused, end and are
\* killed: without a race at the PID file it names the one server that listens
\* (pid.go CheckPIDFile and WritePIDFile).
THEOREM PidFileIsRight == InstancesSpec => []PidFileNamesServer
<1>1. InstancesInv => PidFileNamesServer
  <2> SUFFICES ASSUME InstancesInv, ~raced
               PROVE  /\ listening => pidFile = Main
                      /\ \A p \in Rivals : process[p] = "serving" => pidFile = p
    BY DEF PidFileNamesServer
  <2>1. \A p \in Processes : process[p] \in {"up", "serving"} => pidFile = p
    BY DEF InstancesInv, PidFileInv
  <2> QED BY <2>1 DEF InstancesInv, StagesInv, Processes
<1> QED BY <1>1, InstancesInvariant, PTL
=============================================================================
