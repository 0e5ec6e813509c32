------------------------------- MODULE Server -------------------------------
(***************************************************************************)
(* The life of the server process: main.go and Server.Start and Shutdown   *)
(* (src/src/server/server.go) around the scheduler, the HTTP handlers and  *)
(* the database handle.  main is the only caller of the scheduler's Start  *)
(* and Stop.                                                               *)
(***************************************************************************)
EXTENDS Scheduler

CONSTANTS
  Main,         \* the main goroutine
  MaxHandling   \* bound: HTTP requests in flight together

ASSUME ServerAssumption == Callers = {Main} /\ MaxHandling \in Nat

VARIABLES
  main,       \* where the main goroutine is
  signalled,  \* has SIGINT or SIGTERM arrived?
  listening,  \* is the listener accepting?
  handling,   \* HTTP requests in flight
  clean,      \* no listen error, and the handlers drained in time
  dbOpen      \* the database handle

serverVars == <<main, signalled, listening, handling, clean, dbOpen>>
allVars == <<vars, serverVars>>

ServerInit ==
  /\ Init
  /\ main = "connect"
  /\ signalled = FALSE /\ listening = FALSE /\ handling = 0
  /\ clean = TRUE /\ dbOpen = FALSE

Connect ==
  /\ main = "connect"
  /\ main' = "schedule"
  /\ dbOpen' = TRUE
  /\ UNCHANGED <<vars, signalled, listening, handling, clean>>

StartScheduler ==
  /\ \/ main = "schedule" /\ BeginStart(Main) /\ main' = "spawn"
     \/ main = "spawn" /\ EndStart(Main) /\ main' = "listen"
  /\ UNCHANGED <<signalled, listening, handling, clean, dbOpen>>

\* ListenAndServe runs; from here main waits for an error or a signal.
Listen ==
  /\ main = "listen"
  /\ main' = "serving"
  /\ listening' = TRUE
  /\ UNCHANGED <<vars, signalled, handling, clean, dbOpen>>

\* The listener fails, at once or later: Start returns and stops nothing.
ListenFails ==
  /\ main \in {"listen", "serving"}
  /\ main' = "close"
  /\ listening' = FALSE
  /\ clean' = FALSE
  /\ UNCHANGED <<vars, signalled, handling, dbOpen>>

Signal ==
  /\ main \in {"listen", "serving"}
  /\ signalled' = TRUE
  /\ UNCHANGED <<vars, main, listening, handling, clean, dbOpen>>

StopScheduler ==
  /\ main = "serving"
  /\ signalled
  /\ BeginStop(Main)
  /\ main' = "stopping"
  /\ UNCHANGED <<signalled, listening, handling, clean, dbOpen>>

\* Shutdown closes the listener as soon as the scheduler's Stop has returned.
CloseListener ==
  /\ main = "stopping"
  /\ EndStop(Main)
  /\ main' = "drain"
  /\ listening' = FALSE
  /\ UNCHANGED <<signalled, handling, clean, dbOpen>>

\* Mutant: Shutdown does not wait for the handlers.
NobodyWaitedFor == TRUE

HandlersDone == handling = 0

Drained ==
  /\ main = "drain"
  /\ HandlersDone
  /\ main' = "close"
  /\ UNCHANGED <<vars, signalled, listening, handling, clean, dbOpen>>

\* Mutant: Shutdown has no deadline.
NoDeadline == FALSE

\* Some request outlasts the context's 30 seconds.
DeadlinePasses == handling > 0

\* The 30 seconds of the context are over.
DrainTimeout ==
  /\ main = "drain"
  /\ DeadlinePasses
  /\ main' = "close"
  /\ clean' = FALSE
  /\ UNCHANGED <<vars, signalled, listening, handling, dbOpen>>

\* The deferred db.Close(); the goroutines that are left still run.
CloseDatabase ==
  /\ main = "close"
  /\ main' = "return"
  /\ dbOpen' = FALSE
  /\ UNCHANGED <<vars, signalled, listening, handling, clean>>

\* main returns and every goroutine is gone.
Exit ==
  /\ main = "return"
  /\ main' = "exited"
  /\ UNCHANGED <<vars, signalled, listening, handling, clean, dbOpen>>

AcceptRequest ==
  /\ listening
  /\ handling < MaxHandling
  /\ handling' = handling + 1
  /\ UNCHANGED <<vars, main, signalled, listening, clean, dbOpen>>

AnswerRequest ==
  /\ main # "exited"
  /\ handling > 0
  /\ handling' = handling - 1
  /\ UNCHANGED <<vars, main, signalled, listening, clean, dbOpen>>

\* The scheduler's goroutines; no endpoint runs, enables or disables a task.
Background ==
  /\ main # "exited"
  /\ (\E i \in Loops : LoopStep(i)) \/ (\E r \in Runs : RunStep(r))
  /\ UNCHANGED serverVars

MainStep ==
  \/ Connect \/ StartScheduler \/ Listen
  \/ StopScheduler \/ CloseListener \/ Drained \/ DrainTimeout
  \/ CloseDatabase \/ Exit

ServerNext ==
  \/ MainStep \/ ListenFails \/ Signal \/ AcceptRequest \/ AnswerRequest \/ Background

ServerSpec == ServerInit /\ [][ServerNext]_allVars

\* The main goroutine, the loop and the runs go on; a request may take for
\* ever, and no signal need come.
ServerFairness ==
  /\ WF_allVars(MainStep)
  /\ \A i \in Loops : /\ WF_allVars(Background /\ EnterSelect(i))
                      /\ SF_allVars(Background /\ LoopReturns(i))
  /\ \A r \in Runs : WF_allVars(Background /\ RunStep(r))

FairServerSpec == ServerSpec /\ ServerFairness

----------------------------------------------------------------------------
\* On a clean shutdown no HTTP handler and no scheduler loop is left when the
\* database is closed.
ClosedWhenQuiet == (~dbOpen /\ clean /\ main # "connect" /\ main # "exited")
                     => handling = 0 /\ LiveLoops = {}

\* A signalled server exits, even if a request never ends.
ShutdownEnds == (signalled /\ main = "serving") ~> main = "exited"
============================================================================
